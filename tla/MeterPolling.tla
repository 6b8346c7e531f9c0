---------------------------- MODULE MeterPolling ----------------------------
(***************************************************************************)
(* Which connectors of a charge point are asked for meter values           *)
(* (server/trigger.go, SystemHandler.checkListenTransaction).              *)
(*                                                                         *)
(* Register and Unregister are unbuffered channels read by one goroutine,  *)
(* listen; a handler that sends on them holds h.mux, a sweep and           *)
(* OnMeterValues do not.  Register carries the connector, and listen reads *)
(* the transaction from it after the sender has gone on.  The map of       *)
(* watched connectors has no lock: the runtime ends the process when it    *)
(* sees an iteration meet a write.                                         *)
(*                                                                         *)
(* Database calls do not fail here (see Transactions), so the pointers in  *)
(* memory and in the database agree.  A meter value with a transaction id  *)
(* changes nothing of this state.  The charge point has trigger_message    *)
(* on; for one that has it off checkListenTransaction returns at once.     *)
(***************************************************************************)
EXTENDS Integers

CONSTANTS
    Connectors,     \* of one charge point
    Pumps,          \* read pumps of its connections
    Sweeps,         \* goroutines that close abandoned transactions
    MaxTx,          \* bound: transactions
    MaxRaces        \* bound: deaths of the process

NoTx == -1
None == "none"
TxIds == 1..MaxTx
Keys == TxIds \cup {NoTx}

ASSUME MeterPollingAssumption ==
    /\ MaxTx \in Nat /\ MaxRaces \in Nat
    /\ None \notin Connectors

VARIABLES
    ptr,        \* CurrentTransactionId of each connector
    status,     \* its Status
    online,     \* model.IsOnline
    tx,         \* transactions, with the connector of each
    watched,    \* Trigger.connectors
    listen,     \* what the goroutine listen has received and not yet done
    mux,        \* the handler that holds h.mux, and what it has still to send
    pump,       \* what each read pump is doing
    sweep,      \* what each sweep has in hand
    poll,       \* the keys that triggerMeterValues has still to visit
    up,         \* the process runs
    conn,       \* the charge point is connected
    reports,    \* goroutines on their way to OnOnlineStatusChanged
    session,    \* what the charge point believes its connectors are doing
    stopQ,      \* StopTransaction messages it has still to send
    asked,      \* connectors with a TriggerMessage to answer
    races

memory == <<ptr, status, online, tx>>
goroutines == <<listen, mux, pump, sweep, poll, up>>
chargePoint == <<conn, reports, session, stopQ, asked>>
vars == <<memory, watched, goroutines, chargePoint, races>>

Statuses == {"", "Charging", "Other"}
\* A finished transaction has the reason of its stop, or that of a sweep.
Finished == {"stopped", "swept"}
TxDoc == [st : {"absent", "open"} \cup Finished, c : Connectors \cup {None}]
Absent == [st |-> "absent", c |-> None]

Idle == [op |-> "select", c |-> None, key |-> NoTx]
Listen == [op : {"select", "register", "unregister"}, c : Connectors \cup {None}, key : Keys]

\* pc "check": checkListenTransaction is called for the connectors of todo.
MuxFree == [pc |-> "free", by |-> None, todo |-> {}, online |-> FALSE, t |-> NoTx]
Mux == [pc : {"free", "check", "unregister", "stop"}, by : Pumps \cup {None},
        todo : SUBSET Connectors, online : BOOLEAN, t : Keys]

Reading == [pc |-> "read", c |-> None, seen |-> {}]
Pump == [pc : {"read", "handler", "heal"}, c : Connectors \cup {None}, seen : SUBSET Keys]
Resting == [pc |-> "rest", t |-> NoTx]
Sweep == [pc : {"rest", "unregister", "write", "release"}, t : Keys]

WatchedBy(c) == {k \in Keys : watched[k] = c}

(***************************************************************************)
(* The two channels: a send meets listen in its select.                    *)
(***************************************************************************)
SendRegister(c) == listen = Idle /\ listen' = [op |-> "register", c |-> c, key |-> NoTx]
SendUnregister(k) == listen = Idle /\ listen' = [op |-> "unregister", c |-> None, key |-> k]

ListenRegister ==
    /\ listen.op = "register"
    /\ watched' = [watched EXCEPT ![ptr[listen.c]] = listen.c]
    /\ listen' = Idle
    /\ UNCHANGED <<memory, mux, pump, sweep, poll, up, chargePoint, races>>

ListenUnregister ==
    /\ listen.op = "unregister"
    /\ watched' = [watched EXCEPT ![listen.key] = None]
    /\ listen' = Idle
    /\ UNCHANGED <<memory, mux, pump, sweep, poll, up, chargePoint, races>>

(***************************************************************************)
(* Handlers under h.mux.                                                   *)
(***************************************************************************)
ShouldListen(c, isOnline) ==
    ptr[c] # NoTx /\ isOnline /\ status[c] \in {"", "Charging"}

CheckListenTransaction(c, isOnline) ==
    IF ShouldListen(c, isOnline) THEN SendRegister(c) ELSE SendUnregister(ptr[c])

Check(by, cs, isOnline) ==
    [MuxFree EXCEPT !.pc = "check", !.by = by, !.todo = cs, !.online = isOnline]

Enter(p) ==
    /\ up /\ conn
    /\ mux = MuxFree
    /\ pump[p] = Reading
    /\ pump' = [pump EXCEPT ![p].pc = "handler"]

\* The unlock at the end of a handler.
Leave ==
    /\ mux' = MuxFree
    /\ pump' = [p \in Pumps |-> IF p = mux.by THEN Reading ELSE pump[p]]

OpenOn(c) == ptr[c] # NoTx /\ tx[ptr[c]].st = "open"

\* A second request while the transaction is open gets its id; otherwise the
\* connector is given a new one, or the request is refused.
OnStartTransaction(p, c) ==
    /\ Enter(p)
    /\ \/ /\ OpenOn(c)
          /\ session' = [session EXCEPT ![c] = ptr[c]]
          /\ UNCHANGED <<ptr, tx>>
       \/ /\ ~OpenOn(c)
          /\ \E t \in TxIds :
                /\ tx[t] = Absent
                /\ \A u \in TxIds : u < t => tx[u] # Absent
                /\ tx' = [tx EXCEPT ![t] = [st |-> "open", c |-> c]]
                /\ ptr' = [ptr EXCEPT ![c] = t]
                /\ session' = [session EXCEPT ![c] = t]
       \/ ~OpenOn(c) /\ UNCHANGED <<ptr, tx, session>>
    /\ mux' = Check(p, {c}, online)
    /\ UNCHANGED <<status, online, watched, listen, sweep, poll, up, conn, reports, stopQ, asked, races>>

OnStatusNotification(p, c, s) ==
    /\ Enter(p)
    /\ status' = [status EXCEPT ![c] = s]
    /\ mux' = Check(p, {c}, online)
    /\ UNCHANGED <<ptr, online, tx, watched, listen, sweep, poll, up, chargePoint, races>>

OnOnlineStatusChanged_Late(isOnline) ==
    /\ up
    /\ isOnline \in reports
    /\ mux = MuxFree
    /\ reports' = reports \ {isOnline}
    /\ mux' = IF online = isOnline THEN MuxFree ELSE Check(None, Connectors, online)
    /\ online' = isOnline
    /\ UNCHANGED <<ptr, status, tx, watched, listen, pump, sweep, poll, up, conn, session, stopQ, asked, races>>
OnOnlineStatusChanged(isOnline) ==
    /\ up
    /\ isOnline \in reports
    /\ mux = MuxFree
    /\ reports' = reports \ {isOnline}
    /\ mux' = IF online = isOnline THEN MuxFree ELSE Check(None, Connectors, isOnline)
    /\ online' = isOnline
    /\ UNCHANGED <<ptr, status, tx, watched, listen, pump, sweep, poll, up, conn, session, stopQ, asked, races>>

\* The deferred call of the handlers above, and the loop of OnOnlineStatusChanged.
CheckListen ==
    /\ mux.pc = "check"
    /\ \/ /\ mux.todo = {}
          /\ Leave
          /\ UNCHANGED listen
       \/ \E c \in mux.todo :
             /\ CheckListenTransaction(c, mux.online)
             /\ mux' = [mux EXCEPT !.todo = @ \ {c}]
             /\ UNCHANGED pump
    /\ UNCHANGED <<memory, watched, sweep, poll, up, chargePoint, races>>

OnStopTransaction(p, t) ==
    /\ t \in stopQ
    /\ Enter(p)
    /\ stopQ' = stopQ \ {t}
    /\ mux' = [MuxFree EXCEPT !.pc = "unregister", !.by = p, !.t = t]
    /\ UNCHANGED <<memory, watched, listen, sweep, poll, up, conn, reports, session, asked, races>>

StopUnregister_Missing ==
    /\ mux.pc = "unregister"
    /\ mux' = [mux EXCEPT !.pc = "stop"]
    /\ UNCHANGED <<memory, watched, listen, pump, sweep, poll, up, chargePoint, races>>
StopUnregister ==
    /\ mux.pc = "unregister"
    /\ SendUnregister(mux.t)
    /\ mux' = [mux EXCEPT !.pc = "stop"]
    /\ UNCHANGED <<memory, watched, pump, sweep, poll, up, chargePoint, races>>

\* A transaction that a sweep has finished may keep its figures.  The connector
\* is released, whatever it holds.
StopRelease ==
    /\ mux.pc = "stop"
    /\ \E st \in {"stopped"} \cup ({tx[mux.t].st} \cap Finished) :
          tx' = [tx EXCEPT ![mux.t].st = st]
    /\ ptr' = [ptr EXCEPT ![tx[mux.t].c] = NoTx]
    /\ Leave
    /\ UNCHANGED <<status, online, watched, listen, sweep, poll, up, chargePoint, races>>

(***************************************************************************)
(* OnMeterValues without a transaction id, for a connector without one:    *)
(* UnregisterConnector walks the map and sends every key of the connector. *)
(***************************************************************************)
OnMeterValues(p, c) ==
    /\ up /\ conn
    /\ c \in asked
    /\ asked' = asked \ {c}
    /\ pump[p] = Reading
    /\ \/ /\ ptr[c] = NoTx
          /\ pump' = [pump EXCEPT ![p] = [pc |-> "heal", c |-> c, seen |-> {}]]
       \/ /\ ptr[c] # NoTx \/ session[c] # NoTx
          /\ UNCHANGED pump
    /\ UNCHANGED <<memory, watched, listen, mux, sweep, poll, up, conn, reports, session, stopQ, races>>

UnregisterConnector_Key(p) ==
    /\ pump[p].pc = "heal"
    /\ SendUnregister(ptr[pump[p].c])
    /\ pump' = [pump EXCEPT ![p] = Reading]
    /\ UNCHANGED <<memory, watched, mux, sweep, poll, up, chargePoint, races>>
UnregisterConnector(p) ==
    /\ pump[p].pc = "heal"
    /\ LET left == WatchedBy(pump[p].c) \ pump[p].seen
       IN \/ /\ left = {}
             /\ pump' = [pump EXCEPT ![p] = Reading]
             /\ UNCHANGED listen
          \/ \E k \in left :
                /\ SendUnregister(k)
                /\ pump' = [pump EXCEPT ![p].seen = @ \cup {k}]
    /\ UNCHANGED <<memory, watched, mux, sweep, poll, up, chargePoint, races>>

(***************************************************************************)
(* finishAbandonedTransaction: unregister, finish, and release under       *)
(* h.mux.                                                                  *)
(***************************************************************************)
PickTransaction(s) ==
    /\ up
    /\ sweep[s] = Resting
    /\ \E t \in TxIds :
          /\ tx[t].st = "open"
          /\ sweep' = [sweep EXCEPT ![s] = [pc |-> "unregister", t |-> t]]
    /\ UNCHANGED <<memory, watched, listen, mux, pump, poll, up, chargePoint, races>>

SweepUnregister(s) ==
    /\ sweep[s].pc = "unregister"
    /\ SendUnregister(sweep[s].t)
    /\ sweep' = [sweep EXCEPT ![s].pc = "write"]
    /\ UNCHANGED <<memory, watched, mux, pump, poll, up, chargePoint, races>>

WriteFinished(s) ==
    /\ sweep[s].pc = "write"
    /\ tx' = [tx EXCEPT ![sweep[s].t].st = "swept"]
    /\ sweep' = [sweep EXCEPT ![s].pc = "release"]
    /\ UNCHANGED <<ptr, status, online, watched, listen, mux, pump, poll, up, chargePoint, races>>

ReleaseConnector(s) ==
    /\ sweep[s].pc = "release"
    /\ mux = MuxFree
    /\ LET c == tx[sweep[s].t].c
       IN ptr' = [ptr EXCEPT ![c] = IF @ = sweep[s].t THEN NoTx ELSE @]
    /\ sweep' = [sweep EXCEPT ![s] = Resting]
    /\ UNCHANGED <<status, online, tx, watched, listen, mux, pump, poll, up, chargePoint, races>>

(***************************************************************************)
(* triggerMeterValues.                                                     *)
(***************************************************************************)
Ticker ==
    /\ up
    /\ poll = {}
    /\ poll' = {k \in Keys : watched[k] # None}
    /\ UNCHANGED <<memory, watched, listen, mux, pump, sweep, up, chargePoint, races>>

\* A key deleted meanwhile is not visited; a request to a charge point that is
\* not connected fails.
TriggerMeterValues ==
    /\ \E k \in poll :
          /\ poll' = poll \ {k}
          /\ asked' = IF conn /\ watched[k] # None THEN asked \cup {watched[k]} ELSE asked
    /\ UNCHANGED <<memory, watched, listen, mux, pump, sweep, up, conn, reports, session, stopQ, races>>

Writing == listen.op = "register" \/ (listen.op = "unregister" /\ watched[listen.key] # None)

\* listen writes the map while another goroutine iterates over it.
MapRace ==
    /\ Writing
    /\ poll # {} \/ \E p \in Pumps : pump[p].pc = "heal"
    /\ races < MaxRaces
    /\ races' = races + 1
    /\ up' = FALSE
    /\ watched' = [k \in Keys |-> None]
    /\ listen' = Idle
    /\ mux' = MuxFree
    /\ pump' = [p \in Pumps |-> Reading]
    /\ sweep' = [s \in Sweeps |-> Resting]
    /\ poll' = {}
    /\ conn' = FALSE
    /\ reports' = {}
    /\ asked' = {}
    /\ UNCHANGED <<memory, session, stopQ>>

KnownFinished(c) == ptr[c] # NoTx /\ tx[ptr[c]].st \in Finished

\* Everyone is taken for offline, so nothing is registered yet.
OnStart ==
    /\ ~up
    /\ up' = TRUE
    /\ online' = FALSE
    /\ ptr' = [c \in Connectors |-> IF KnownFinished(c) THEN NoTx ELSE ptr[c]]
    /\ mux' = Check(None, Connectors, FALSE)
    /\ UNCHANGED <<status, tx, watched, listen, pump, sweep, poll, chargePoint, races>>

(***************************************************************************)
(* The charge point.                                                       *)
(***************************************************************************)
Connect ==
    /\ up /\ ~conn /\ reports = {}
    /\ conn' = TRUE
    /\ reports' = {TRUE}
    /\ UNCHANGED <<memory, watched, goroutines, session, stopQ, asked, races>>

Disconnect ==
    /\ conn /\ reports = {}
    /\ conn' = FALSE
    /\ reports' = {FALSE}
    /\ asked' = {}
    /\ UNCHANGED <<memory, watched, goroutines, session, stopQ, races>>

\* The session ends; its StopTransaction is sent now or later, or is lost.
Unplug(c) ==
    /\ session[c] # NoTx
    /\ session' = [session EXCEPT ![c] = NoTx]
    /\ stopQ' \in {stopQ, stopQ \cup {session[c]}}
    /\ UNCHANGED <<memory, watched, goroutines, conn, reports, asked, races>>

-----------------------------------------------------------------------------
Init ==
    /\ ptr = [c \in Connectors |-> NoTx]
    /\ status \in [Connectors -> Statuses]
    /\ online = FALSE
    /\ tx = [t \in TxIds |-> Absent]
    /\ watched = [k \in Keys |-> None]
    /\ listen = Idle
    /\ mux = MuxFree
    /\ pump = [p \in Pumps |-> Reading]
    /\ sweep = [s \in Sweeps |-> Resting]
    /\ poll = {}
    /\ up = TRUE
    /\ conn = FALSE
    /\ reports = {}
    /\ session = [c \in Connectors |-> NoTx]
    /\ stopQ = {}
    /\ asked = {}
    /\ races = 0

Handler(p) ==
    \/ \E c \in Connectors : OnStartTransaction(p, c) \/ OnMeterValues(p, c)
    \/ \E c \in Connectors, s \in Statuses \ {""} : OnStatusNotification(p, c, s)
    \/ \E t \in TxIds : OnStopTransaction(p, t)

SweepStep(s) == SweepUnregister(s) \/ WriteFinished(s) \/ ReleaseConnector(s)

Next ==
    \/ ListenRegister \/ ListenUnregister
    \/ CheckListen \/ StopUnregister \/ StopRelease
    \/ \E b \in BOOLEAN : OnOnlineStatusChanged(b)
    \/ \E p \in Pumps : Handler(p) \/ UnregisterConnector(p)
    \/ \E s \in Sweeps : PickTransaction(s) \/ SweepStep(s)
    \/ Ticker \/ TriggerMeterValues
    \/ MapRace \/ OnStart
    \/ Connect \/ Disconnect \/ \E c \in Connectors : Unplug(c)

Spec == Init /\ [][Next]_vars

\* Goroutines run on, the ticker ticks, a supervisor restarts the process, and
\* a connected charge point answers a TriggerMessage.
FairSpec ==
    /\ Spec
    /\ WF_vars(ListenRegister \/ ListenUnregister)
    /\ SF_vars(CheckListen) /\ SF_vars(StopUnregister) /\ WF_vars(StopRelease)
    /\ \A p \in Pumps : SF_vars(UnregisterConnector(p))
    /\ \A s \in Sweeps : SF_vars(SweepStep(s))
    /\ WF_vars(Ticker) /\ WF_vars(TriggerMeterValues) /\ WF_vars(OnStart)
    /\ \A c \in Connectors : SF_vars(\E p \in Pumps : OnMeterValues(p, c))

-----------------------------------------------------------------------------
\* Every variable has its type, and what a stop or a sweep has in hand is stored.
TypeOK ==
    /\ ptr \in [Connectors -> Keys]
    /\ status \in [Connectors -> Statuses]
    /\ online \in BOOLEAN
    /\ tx \in [TxIds -> TxDoc]
    /\ watched \in [Keys -> Connectors \cup {None}]
    /\ listen \in Listen
    /\ mux \in Mux
    /\ pump \in [Pumps -> Pump]
    /\ sweep \in [Sweeps -> Sweep]
    /\ poll \subseteq Keys
    /\ up \in BOOLEAN /\ conn \in BOOLEAN
    /\ reports \subseteq BOOLEAN
    /\ session \in [Connectors -> Keys]
    /\ stopQ \subseteq TxIds
    /\ asked \subseteq Connectors
    /\ races \in 0..MaxRaces

\* Nobody is at work on connector c or on the transaction it holds.
Settled(c) ==
    /\ up
    /\ listen = Idle
    /\ mux = MuxFree
    /\ \A s \in Sweeps : sweep[s].t # ptr[c]

\* A connector that holds a transaction, is online and reports Charging is
\* polled under that transaction, after any order of handlers, online reports,
\* sweeps and clean-ups: a missing entry means a session without meter values.
ChargingIsPolled ==
    \A c \in Connectors :
        Settled(c) /\ ShouldListen(c, online) /\ session[c] = ptr[c] => watched[ptr[c]] = c

\* "removing all listeners and observers": a transaction that its charge point
\* has stopped is not polled again, although listen reads the transaction of a
\* connector after the handler that sent it has gone on.
StopEndsPolling ==
    listen = Idle => \A t \in TxIds : tx[t].st = "stopped" => watched[t] = None

\* What is left in the map for a connector without a transaction goes away:
\* the charge point answers a poll and the answer has no transaction.
LeftoversAreForgotten ==
    \A c \in Connectors :
        <>[](ptr[c] = NoTx /\ session[c] = NoTx /\ conn) => <>[](WatchedBy(c) = {})

=============================================================================
