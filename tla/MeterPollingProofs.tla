------------------------- MODULE MeterPollingProofs -------------------------
(***************************************************************************)
(* Who is polled, for any number of connectors, transactions, sweeps and   *)
(* deaths of the process: a stopped transaction is never polled again, and *)
(* a connector that charges is polled, if the charge point has one read    *)
(* pump at a time.                                                         *)
(***************************************************************************)
EXTENDS MeterPolling, TLAPS

LEMMA Constants ==
    /\ NoTx \notin TxIds /\ NoTx \in Keys /\ TxIds \subseteq Keys
    /\ Idle \in Listen /\ Idle.op = "select" /\ MuxFree \in Mux /\ MuxFree.pc = "free"
    /\ Reading \in Pump /\ Reading.pc = "read" /\ Resting \in Sweep /\ Resting.pc = "rest"
    /\ Absent \in TxDoc /\ Absent.st = "absent" /\ Absent.c = None
  <1>1. NoTx \notin TxIds /\ NoTx \in Keys /\ TxIds \subseteq Keys
    BY MeterPollingAssumption DEF NoTx, TxIds, Keys
  <1>2. Idle \in Listen /\ Idle.op = "select"
    BY <1>1 DEF Idle, Listen
  <1>3. MuxFree \in Mux /\ MuxFree.pc = "free"
    BY <1>1 DEF MuxFree, Mux
  <1>4. Reading \in Pump /\ Reading.pc = "read"
    BY DEF Reading, Pump
  <1>5. Resting \in Sweep /\ Resting.pc = "rest"
    BY <1>1 DEF Resting, Sweep
  <1>6. Absent \in TxDoc /\ Absent.st = "absent" /\ Absent.c = None
    BY DEF Absent, TxDoc
  <1> QED BY <1>1, <1>2, <1>3, <1>4, <1>5, <1>6

LEMMA SendsTyped ==
    /\ \A c \in Connectors : SendRegister(c) =>
          listen' \in Listen /\ listen'.op = "register" /\ listen'.c = c /\ listen.op = "select"
    /\ \A k \in Keys : SendUnregister(k) =>
          listen' \in Listen /\ listen'.op = "unregister" /\ listen'.key = k /\ listen.op = "select"
  <1>1. ASSUME NEW c \in Connectors, SendRegister(c)
        PROVE  listen' \in Listen /\ listen'.op = "register" /\ listen'.c = c /\ listen.op = "select"
    BY <1>1, Constants DEF SendRegister, Listen
  <1>2. ASSUME NEW k \in Keys, SendUnregister(k)
        PROVE  listen' \in Listen /\ listen'.op = "unregister" /\ listen'.key = k /\ listen.op = "select"
    BY <1>2, Constants DEF SendUnregister, Listen
  <1> QED BY <1>1, <1>2

\* What a handler leaves in mux when it is to check the connectors of cs.
LEMMA CheckTyped ==
    ASSUME NEW by \in Pumps \cup {None}, NEW cs \in SUBSET Connectors, NEW b \in BOOLEAN
    PROVE  /\ Check(by, cs, b) \in Mux /\ Check(by, cs, b).pc = "check"
           /\ Check(by, cs, b).todo = cs /\ Check(by, cs, b).online = b
  BY Constants DEF Check, Mux

LEMMA EnterTyped ==
    ASSUME TypeOK, NEW p \in Pumps, Enter(p)
    PROVE  /\ pump' \in [Pumps -> Pump] /\ pump'[p].pc = "handler"
           /\ \A q \in Pumps : q # p => pump'[q] = pump[q]
           /\ mux = MuxFree /\ up /\ conn /\ pump[p] = Reading
  BY DEF Enter, TypeOK, Pump

LEMMA LeaveTyped ==
    ASSUME TypeOK, Leave
    PROVE  /\ pump' \in [Pumps -> Pump] /\ mux' \in Mux /\ mux'.pc = "free"
           /\ \A p \in Pumps : pump'[p] = pump[p] \/ pump'[p].pc = "read"
  <1>1. \A p \in Pumps : pump'[p] = pump[p] \/ pump'[p] = Reading
    BY DEF Leave
  <1>2. pump' \in [Pumps -> Pump]
    BY Constants DEF Leave, TypeOK
  <1> QED BY <1>1, <1>2, Constants DEF Leave

\* A check sends the connector or the transaction it holds.
LEMMA CheckSends ==
    ASSUME TypeOK, NEW c \in Connectors, NEW b \in BOOLEAN, CheckListenTransaction(c, b)
    PROVE  /\ listen' \in Listen /\ listen.op = "select"
           /\ \/ ShouldListen(c, b) /\ listen'.op = "register" /\ listen'.c = c
              \/ ~ShouldListen(c, b) /\ listen'.op = "unregister" /\ listen'.key = ptr[c]
  <1>1. ptr[c] \in Keys
    BY DEF TypeOK
  <1> QED BY <1>1, SendsTyped DEF CheckListenTransaction

LEMMA TypeInit == Init => TypeOK
  <1> SUFFICES ASSUME Init PROVE TypeOK
    OBVIOUS
  <1>1. /\ ptr \in [Connectors -> Keys] /\ status \in [Connectors -> Statuses]
        /\ session \in [Connectors -> Keys] /\ stopQ \subseteq TxIds
    BY Constants DEF Init
  <1>2. /\ tx \in [TxIds -> TxDoc] /\ watched \in [Keys -> Connectors \cup {None}]
        /\ listen \in Listen /\ mux \in Mux
    BY Constants DEF Init
  <1>3. /\ pump \in [Pumps -> Pump] /\ sweep \in [Sweeps -> Sweep] /\ poll \subseteq Keys
    BY Constants DEF Init
  <1>4. /\ online \in BOOLEAN /\ up \in BOOLEAN /\ conn \in BOOLEAN
        /\ reports \subseteq BOOLEAN /\ asked \subseteq Connectors
    BY DEF Init
  <1>5. races \in 0..MaxRaces
    BY MeterPollingAssumption DEF Init
  <1> QED BY <1>1, <1>2, <1>3, <1>4, <1>5 DEF TypeOK

LEMMA TypeStep == TypeOK /\ [Next]_vars => TypeOK'
  <1> SUFFICES ASSUME TypeOK, [Next]_vars PROVE TypeOK'
    OBVIOUS
  <1> USE DEF memory, goroutines, chargePoint
  <1>1. CASE ListenRegister
    <2>1. watched' \in [Keys -> Connectors \cup {None}]
      BY <1>1 DEF ListenRegister, TypeOK, Listen
    <2> QED BY <1>1, <2>1, Constants DEF ListenRegister, TypeOK
  <1>2. CASE ListenUnregister
    <2>1. watched' \in [Keys -> Connectors \cup {None}]
      BY <1>2 DEF ListenUnregister, TypeOK
    <2> QED BY <1>2, <2>1, Constants DEF ListenUnregister, TypeOK
  <1>3. CASE CheckListen
    <2>1. UNCHANGED <<memory, watched, sweep, poll, up, chargePoint, races>>
      BY <1>3 DEF CheckListen
    <2>2. CASE Leave /\ UNCHANGED listen
      BY <2>1, <2>2, LeaveTyped DEF TypeOK
    <2>3. CASE \E c \in mux.todo : /\ CheckListenTransaction(c, mux.online)
                                   /\ mux' = [mux EXCEPT !.todo = @ \ {c}]
                                   /\ UNCHANGED pump
      <3>1. PICK c \in mux.todo : /\ CheckListenTransaction(c, mux.online)
                                  /\ mux' = [mux EXCEPT !.todo = @ \ {c}]
                                  /\ UNCHANGED pump
        BY <2>3
      <3>2. c \in Connectors /\ mux.online \in BOOLEAN /\ mux' \in Mux
        BY <3>1 DEF TypeOK, Mux
      <3>3. listen' \in Listen
        BY <3>1, <3>2, CheckSends
      <3> QED BY <2>1, <3>1, <3>2, <3>3 DEF TypeOK
    <2> QED BY <1>3, <2>2, <2>3 DEF CheckListen
  <1>4. CASE StopUnregister
    <2>1. mux.t \in Keys /\ mux' \in Mux
      BY <1>4 DEF StopUnregister, TypeOK, Mux
    <2>2. listen' \in Listen
      BY <1>4, <2>1, SendsTyped DEF StopUnregister
    <2> QED BY <1>4, <2>1, <2>2 DEF StopUnregister, TypeOK
  <1>5. CASE StopRelease
    <2>1. PICK st \in {"stopped"} \cup ({tx[mux.t].st} \cap Finished) :
              tx' = [tx EXCEPT ![mux.t].st = st]
      BY <1>5 DEF StopRelease
    <2>2. tx' \in [TxIds -> TxDoc]
      BY <2>1 DEF TypeOK, TxDoc, Finished
    <2>3. ptr' \in [Connectors -> Keys]
      BY <1>5, Constants DEF StopRelease, TypeOK
    <2> QED BY <1>5, <2>2, <2>3, LeaveTyped DEF StopRelease, TypeOK
  <1>6. ASSUME NEW b \in BOOLEAN, OnOnlineStatusChanged(b) PROVE TypeOK'
    <2>1. mux' \in Mux
      BY <1>6, Constants, CheckTyped DEF OnOnlineStatusChanged
    <2> QED BY <1>6, <2>1 DEF OnOnlineStatusChanged, TypeOK
  <1>7. ASSUME NEW p \in Pumps, NEW c \in Connectors, OnStartTransaction(p, c) PROVE TypeOK'
    <2>1. mux' \in Mux
      BY <1>7, CheckTyped DEF OnStartTransaction, TypeOK
    <2>2. /\ tx' \in [TxIds -> TxDoc] /\ ptr' \in [Connectors -> Keys]
          /\ session' \in [Connectors -> Keys]
      <3>1. CASE session' = [session EXCEPT ![c] = ptr[c]] /\ UNCHANGED <<ptr, tx>>
        BY <3>1 DEF TypeOK
      <3>2. CASE \E t \in TxIds : /\ tx' = [tx EXCEPT ![t] = [st |-> "open", c |-> c]]
                                  /\ ptr' = [ptr EXCEPT ![c] = t]
                                  /\ session' = [session EXCEPT ![c] = t]
        <4>1. [st |-> "open", c |-> c] \in TxDoc
          BY DEF TxDoc
        <4> QED BY <3>2, <4>1, Constants DEF TypeOK
      <3>3. CASE UNCHANGED <<ptr, tx, session>>
        BY <3>3 DEF TypeOK
      <3> QED BY <1>7, <3>1, <3>2, <3>3 DEF OnStartTransaction
    <2>3. UNCHANGED <<status, online, watched, listen, sweep, poll, up, conn, reports, stopQ, asked, races>>
      BY <1>7 DEF OnStartTransaction
    <2>4. pump' \in [Pumps -> Pump]
      BY <1>7, EnterTyped DEF OnStartTransaction
    <2> QED BY <2>1, <2>2, <2>3, <2>4 DEF TypeOK
  <1>8. ASSUME NEW p \in Pumps, NEW c \in Connectors, OnMeterValues(p, c) PROVE TypeOK'
    <2>1. pump' \in [Pumps -> Pump]
      BY <1>8 DEF OnMeterValues, TypeOK, Pump
    <2> QED BY <1>8, <2>1 DEF OnMeterValues, TypeOK
  <1>9. ASSUME NEW p \in Pumps, NEW c \in Connectors, NEW s \in Statuses,
               OnStatusNotification(p, c, s)
        PROVE  TypeOK'
    <2>1. mux' \in Mux
      BY <1>9, CheckTyped DEF OnStatusNotification, TypeOK
    <2>2. pump' \in [Pumps -> Pump]
      BY <1>9, EnterTyped DEF OnStatusNotification
    <2> QED BY <1>9, <2>1, <2>2 DEF OnStatusNotification, TypeOK
  <1>10. ASSUME NEW p \in Pumps, NEW t \in TxIds, OnStopTransaction(p, t) PROVE TypeOK'
    <2>1. mux' \in Mux
      BY <1>10, Constants DEF OnStopTransaction, Mux
    <2>2. pump' \in [Pumps -> Pump]
      BY <1>10, EnterTyped DEF OnStopTransaction
    <2> QED BY <1>10, <2>1, <2>2 DEF OnStopTransaction, TypeOK
  <1>11. ASSUME NEW p \in Pumps, UnregisterConnector(p) PROVE TypeOK'
    <2>1. UNCHANGED <<memory, watched, mux, sweep, poll, up, chargePoint, races>>
      BY <1>11 DEF UnregisterConnector
    <2>2. CASE pump' = [pump EXCEPT ![p] = Reading] /\ UNCHANGED listen
      BY <2>1, <2>2, Constants DEF TypeOK
    <2>3. ASSUME NEW k \in Keys, SendUnregister(k),
                 pump' = [pump EXCEPT ![p].seen = @ \cup {k}]
          PROVE  TypeOK'
      <3>1. pump' \in [Pumps -> Pump]
        BY <2>3 DEF TypeOK, Pump
      <3> QED BY <2>1, <2>3, <3>1, SendsTyped DEF TypeOK
    <2> QED BY <1>11, <2>2, <2>3 DEF UnregisterConnector, WatchedBy
  <1>12. ASSUME NEW s \in Sweeps, PickTransaction(s) PROVE TypeOK'
    <2>1. sweep' \in [Sweeps -> Sweep]
      BY <1>12, Constants DEF PickTransaction, TypeOK, Sweep
    <2> QED BY <1>12, <2>1 DEF PickTransaction, TypeOK
  <1>13. ASSUME NEW s \in Sweeps, SweepUnregister(s) PROVE TypeOK'
    <2>1. sweep' \in [Sweeps -> Sweep] /\ sweep[s].t \in Keys
      BY <1>13 DEF SweepUnregister, TypeOK, Sweep
    <2> QED BY <1>13, <2>1, SendsTyped DEF SweepUnregister, TypeOK
  <1>14. ASSUME NEW s \in Sweeps, WriteFinished(s) PROVE TypeOK'
    <2>1. sweep' \in [Sweeps -> Sweep]
      BY <1>14 DEF WriteFinished, TypeOK, Sweep
    <2>2. tx' \in [TxIds -> TxDoc]
      BY <1>14 DEF WriteFinished, TypeOK, TxDoc, Finished
    <2> QED BY <1>14, <2>1, <2>2 DEF WriteFinished, TypeOK
  <1>15. ASSUME NEW s \in Sweeps, ReleaseConnector(s) PROVE TypeOK'
    <2>1. sweep' \in [Sweeps -> Sweep]
      BY <1>15, Constants DEF ReleaseConnector, TypeOK
    <2>2. ptr' \in [Connectors -> Keys]
      BY <1>15, Constants DEF ReleaseConnector, TypeOK
    <2> QED BY <1>15, <2>1, <2>2 DEF ReleaseConnector, TypeOK
  <1>16. CASE Ticker
    BY <1>16 DEF Ticker, TypeOK
  <1>17. CASE TriggerMeterValues
    <2>1. asked' \subseteq Connectors /\ poll' \subseteq Keys
      BY <1>17 DEF TriggerMeterValues, TypeOK
    <2> QED BY <1>17, <2>1 DEF TriggerMeterValues, TypeOK
  <1>18. CASE MapRace
    <2>1. races' \in 0..MaxRaces
      BY <1>18, MeterPollingAssumption DEF MapRace, TypeOK
    <2> QED BY <1>18, <2>1, Constants DEF MapRace, TypeOK
  <1>19. CASE OnStart
    <2>1. mux' \in Mux
      BY <1>19, CheckTyped DEF OnStart
    <2>2. ptr' \in [Connectors -> Keys]
      BY <1>19, Constants DEF OnStart, TypeOK
    <2> QED BY <1>19, <2>1, <2>2 DEF OnStart, TypeOK
  <1>20. CASE Connect
    BY <1>20 DEF Connect, TypeOK
  <1>21. CASE Disconnect
    BY <1>21 DEF Disconnect, TypeOK
  <1>22. ASSUME NEW c \in Connectors, Unplug(c) PROVE TypeOK'
    <2>1. session[c] \in TxIds
      BY <1>22 DEF Unplug, TypeOK, Keys
    <2>2. stopQ' \subseteq TxIds /\ session' \in [Connectors -> Keys]
      BY <1>22, <2>1, Constants DEF Unplug, TypeOK
    <2> QED BY <1>22, <2>2 DEF Unplug, TypeOK
  <1>23. CASE UNCHANGED vars
    BY <1>23 DEF vars, TypeOK
  <1> QED BY <1>1, <1>2, <1>3, <1>4, <1>5, <1>6, <1>7, <1>8, <1>9, <1>10, <1>11, <1>12, <1>13,
             <1>14, <1>15, <1>16, <1>17, <1>18, <1>19, <1>20, <1>21, <1>22, <1>23
          DEF Next, Handler, SweepStep

-----------------------------------------------------------------------------
(***************************************************************************)
(* What is written down of a transaction agrees: a connector holds one of  *)
(* its own that was not stopped, everybody else has one that is stored,    *)
(* and the map has it under its own connector.                             *)
(***************************************************************************)
Stored(t) == t \in TxIds /\ tx[t].st # "absent"

Books ==
    /\ \A t \in TxIds : tx[t].st # "absent" => tx[t].c \in Connectors
    /\ \A c \in Connectors : ptr[c] # NoTx =>
          tx[ptr[c]].st \in {"open", "swept"} /\ tx[ptr[c]].c = c
    /\ \A c \in Connectors : session[c] # NoTx => Stored(session[c])
    /\ \A t \in stopQ : Stored(t)
    /\ mux.pc \in {"unregister", "stop"} => Stored(mux.t)
    /\ \A s \in Sweeps : sweep[s].pc # "rest" => Stored(sweep[s].t)
    /\ listen.op = "register" => listen.c \in Connectors
    /\ \A t \in TxIds : watched[t] # None => tx[t].c = watched[t]

LEMMA BooksInit == Init => Books
  <1> SUFFICES ASSUME Init PROVE Books
    OBVIOUS
  <1>1. /\ \A t \in TxIds : tx[t].st = "absent"
        /\ \A c \in Connectors : ptr[c] = NoTx /\ session[c] = NoTx
        /\ stopQ = {} /\ mux.pc = "free" /\ listen.op = "select"
        /\ \A s \in Sweeps : sweep[s].pc = "rest"
    BY Constants DEF Init
  <1>2. \A t \in TxIds : watched[t] = None
    BY Constants DEF Init
  <1> QED BY <1>1, <1>2 DEF Books

\* A connector's own transaction, and nobody else's.
LEMMA HeldByOne ==
    ASSUME TypeOK, Books, NEW c \in Connectors, ptr[c] # NoTx
    PROVE  /\ ptr[c] \in TxIds /\ Stored(ptr[c]) /\ tx[ptr[c]].c = c
           /\ tx[ptr[c]].st # "stopped"
  BY DEF TypeOK, Keys, Books, Stored

LEMMA BooksStep == TypeOK /\ Books /\ [Next]_vars => Books'
  <1> SUFFICES ASSUME TypeOK, Books, [Next]_vars PROVE Books'
    OBVIOUS
  <1> USE DEF memory, goroutines, chargePoint
  <1>0. TypeOK'
    BY TypeStep
  <1>1. ASSUME UNCHANGED <<tx, session, stopQ, watched>>,
               \A c \in Connectors : ptr'[c] \in {ptr[c], NoTx},
               mux'.pc \in {"unregister", "stop"} => Stored(mux'.t),
               \A s \in Sweeps : sweep'[s].pc # "rest" => Stored(sweep'[s].t),
               listen'.op = "register" => listen'.c \in Connectors
        PROVE  Books'
    <2>1. \A c \in Connectors : ptr'[c] # NoTx =>
             tx'[ptr'[c]].st \in {"open", "swept"} /\ tx'[ptr'[c]].c = c
      BY <1>1 DEF Books
    <2> QED BY <1>1, <2>1 DEF Books, Stored
  <1>2. CASE ListenRegister
    <2>1. /\ listen.c \in Connectors /\ watched' = [watched EXCEPT ![ptr[listen.c]] = listen.c]
          /\ listen'.op = "select"
          /\ UNCHANGED <<tx, ptr, session, stopQ, mux, sweep>>
      BY <1>2, Constants DEF ListenRegister, Books
    <2>2. \A t \in TxIds : watched'[t] # None => tx[t].c = watched'[t]
      <3> SUFFICES ASSUME NEW t \in TxIds, watched'[t] # None PROVE tx[t].c = watched'[t]
        OBVIOUS
      <3>1. t \in Keys
        BY Constants
      <3>2. CASE t = ptr[listen.c]
        <4>1. watched'[t] = listen.c
          BY <2>1, <3>1, <3>2 DEF TypeOK
        <4>2. tx[t].c = listen.c
          BY <2>1, <3>2, HeldByOne, Constants
        <4> QED BY <4>1, <4>2
      <3>3. CASE t # ptr[listen.c]
        BY <2>1, <3>1, <3>3 DEF TypeOK, Books
      <3> QED BY <3>2, <3>3
    <2> QED BY <2>1, <2>2 DEF Books, Stored
  <1>3. CASE ListenUnregister
    <2>1. /\ watched' = [watched EXCEPT ![listen.key] = None] /\ listen'.op = "select"
          /\ UNCHANGED <<tx, ptr, session, stopQ, mux, sweep>>
      BY <1>3, Constants DEF ListenUnregister
    <2>2. \A t \in TxIds : watched'[t] = watched[t] \/ watched'[t] = None
      BY <2>1, Constants DEF TypeOK
    <2> QED BY <2>1, <2>2 DEF Books, Stored
  <1>4. CASE CheckListen
    <2>1. UNCHANGED <<tx, ptr, session, stopQ, sweep, watched>>
      BY <1>4 DEF CheckListen
    <2>2. CASE Leave /\ UNCHANGED listen
      <3>1. mux'.pc = "free"
        BY <2>2, LeaveTyped
      <3> QED BY <1>1, <2>1, <2>2, <3>1 DEF Books
    <2>3. ASSUME NEW c \in mux.todo, CheckListenTransaction(c, mux.online),
                 mux' = [mux EXCEPT !.todo = @ \ {c}]
          PROVE  Books'
      <3>1. c \in Connectors /\ mux.online \in BOOLEAN /\ mux'.pc = mux.pc /\ mux'.t = mux.t
        BY <2>3 DEF TypeOK, Mux
      <3>2. listen'.op = "register" => listen'.c \in Connectors
        BY <2>3, <3>1, CheckSends
      <3> QED BY <1>1, <2>1, <3>1, <3>2 DEF Books
    <2> QED BY <1>4, <2>2, <2>3 DEF CheckListen
  <1>5. CASE StopUnregister
    <2>1. mux.t \in Keys /\ mux'.t = mux.t /\ Stored(mux.t)
      BY <1>5 DEF StopUnregister, TypeOK, Mux, Books
    <2>2. listen'.op = "unregister"
      BY <1>5, <2>1, SendsTyped DEF StopUnregister
    <2>3. UNCHANGED <<tx, ptr, session, stopQ, sweep, watched>>
      BY <1>5 DEF StopUnregister
    <2> QED BY <1>1, <2>1, <2>2, <2>3 DEF Books
  <1>6. CASE StopRelease
    <2>1. PICK st \in {"stopped"} \cup ({tx[mux.t].st} \cap Finished) :
              tx' = [tx EXCEPT ![mux.t].st = st]
      BY <1>6 DEF StopRelease
    <2>2. /\ ptr' = [ptr EXCEPT ![tx[mux.t].c] = NoTx] /\ mux'.pc = "free"
          /\ UNCHANGED <<session, stopQ, sweep, watched, listen>>
      BY <1>6, LeaveTyped DEF StopRelease
    <2>3. mux.t \in TxIds /\ tx[mux.t].c \in Connectors /\ st # "absent"
      BY <1>6 DEF StopRelease, Books, Stored, Finished
    <2>4. \A t \in TxIds : /\ tx'[t].c = tx[t].c /\ (Stored(t) => tx'[t].st # "absent")
                           /\ t # mux.t => tx'[t] = tx[t]
      BY <2>1, <2>3 DEF TypeOK, TxDoc, Stored
    <2>5. ASSUME NEW c \in Connectors, ptr'[c] # NoTx
          PROVE  tx'[ptr'[c]].st \in {"open", "swept"} /\ tx'[ptr'[c]].c = c
      <3>1. c # tx[mux.t].c /\ ptr'[c] = ptr[c]
        BY <2>2, <2>3, <2>5 DEF TypeOK
      <3>2. ptr[c] \in TxIds /\ tx[ptr[c]].c = c
        BY <2>5, <3>1, HeldByOne
      <3>3. ptr[c] # mux.t
        BY <3>1, <3>2
      <3> QED BY <2>4, <2>5, <3>1, <3>2, <3>3 DEF Books
    <2>6. \A t \in TxIds : tx'[t].st # "absent" => tx'[t].c \in Connectors
      BY <2>3, <2>4 DEF Books
    <2> QED BY <2>2, <2>4, <2>5, <2>6 DEF Books, Stored
  <1>7. ASSUME NEW b \in BOOLEAN, OnOnlineStatusChanged(b) PROVE Books'
    <2>1. mux'.pc \in {"free", "check"}
      BY <1>7, Constants, CheckTyped DEF OnOnlineStatusChanged
    <2> QED BY <1>1, <1>7, <2>1 DEF OnOnlineStatusChanged, Books
  <1>8. ASSUME NEW p \in Pumps, NEW c \in Connectors, OnStartTransaction(p, c) PROVE Books'
    <2>1. mux'.pc = "check" /\ UNCHANGED <<stopQ, sweep, watched, listen>>
      BY <1>8, CheckTyped DEF OnStartTransaction, TypeOK
    <2>2. CASE OpenOn(c) /\ session' = [session EXCEPT ![c] = ptr[c]] /\ UNCHANGED <<ptr, tx>>
      <3>1. Stored(ptr[c])
        BY <2>2, HeldByOne DEF OpenOn
      <3>2. \A d \in Connectors : session'[d] \in {session[d], ptr[c]}
        BY <2>2 DEF TypeOK
      <3> QED BY <2>1, <2>2, <3>1, <3>2 DEF Books, Stored
    <2>3. ASSUME NEW t \in TxIds, tx[t] = Absent,
                 tx' = [tx EXCEPT ![t] = [st |-> "open", c |-> c]],
                 ptr' = [ptr EXCEPT ![c] = t],
                 session' = [session EXCEPT ![c] = t]
          PROVE  Books'
      <3>1. tx[t].st = "absent" /\ tx[t].c = None
        BY <2>3, Constants
      <3>2. /\ tx'[t].st = "open" /\ tx'[t].c = c
            /\ \A u \in TxIds : u # t => tx'[u] = tx[u]
        BY <2>3 DEF TypeOK
      <3>3. /\ ptr'[c] = t /\ session'[c] = t
            /\ \A d \in Connectors : d # c => ptr'[d] = ptr[d] /\ session'[d] = session[d]
        BY <2>3 DEF TypeOK
      <3>4. watched[t] = None
        BY <3>1, MeterPollingAssumption DEF Books
      <3>5. \A u : Stored(u) => u # t /\ tx'[u] = tx[u]
        BY <3>1, <3>2 DEF Stored
      <3>6. \A d \in Connectors : ptr'[d] # NoTx =>
               tx'[ptr'[d]].st \in {"open", "swept"} /\ tx'[ptr'[d]].c = d
        <4> SUFFICES ASSUME NEW d \in Connectors, ptr'[d] # NoTx
                     PROVE  tx'[ptr'[d]].st \in {"open", "swept"} /\ tx'[ptr'[d]].c = d
          OBVIOUS
        <4>1. CASE d = c
          BY <3>2, <3>3, <4>1
        <4>2. CASE d # c
          <5>1. ptr'[d] = ptr[d] /\ tx'[ptr[d]] = tx[ptr[d]] /\ ptr[d] # NoTx
            BY <3>3, <3>5, <4>2, HeldByOne
          <5> QED BY <5>1 DEF Books
        <4> QED BY <4>1, <4>2
      <3>7. \A d \in Connectors : session'[d] # NoTx =>
               session'[d] \in TxIds /\ tx'[session'[d]].st # "absent"
        BY <3>2, <3>3, <3>5 DEF Books, Stored
      <3>8. \A u \in TxIds : watched[u] # None => tx'[u].c = watched[u]
        BY <3>2, <3>4 DEF Books
      <3>9. \A u \in TxIds : tx'[u].st # "absent" => tx'[u].c \in Connectors
        BY <3>2 DEF Books
      <3> QED BY <2>1, <3>5, <3>6, <3>7, <3>8, <3>9 DEF Books, Stored
    <2>4. CASE UNCHANGED <<ptr, tx, session>>
      BY <1>1, <2>1, <2>4 DEF Books
    <2> QED BY <1>8, <2>2, <2>3, <2>4 DEF OnStartTransaction
  <1>9. ASSUME NEW p \in Pumps, NEW c \in Connectors, OnMeterValues(p, c) PROVE Books'
    BY <1>1, <1>9 DEF OnMeterValues, Books
  <1>10. ASSUME NEW p \in Pumps, NEW c \in Connectors, NEW s \in Statuses,
                OnStatusNotification(p, c, s)
         PROVE  Books'
    <2>1. mux'.pc = "check"
      BY <1>10, CheckTyped DEF OnStatusNotification, TypeOK
    <2> QED BY <1>1, <1>10, <2>1 DEF OnStatusNotification, Books
  <1>11. ASSUME NEW p \in Pumps, NEW t \in TxIds, OnStopTransaction(p, t) PROVE Books'
    <2>1. mux'.t = t /\ stopQ' \subseteq stopQ /\ t \in stopQ
      BY <1>11 DEF OnStopTransaction, MuxFree
    <2>2. UNCHANGED <<tx, ptr, session, sweep, watched, listen>>
      BY <1>11 DEF OnStopTransaction
    <2> QED BY <2>1, <2>2 DEF Books, Stored
  <1>12. ASSUME NEW p \in Pumps, UnregisterConnector(p) PROVE Books'
    <2>1. listen'.op = "unregister" \/ UNCHANGED listen
      BY <1>12, SendsTyped DEF UnregisterConnector, WatchedBy
    <2> QED BY <1>1, <1>12, <2>1 DEF UnregisterConnector, Books
  <1>13. ASSUME NEW s \in Sweeps, PickTransaction(s) PROVE Books'
    <2>1. PICK t \in TxIds : /\ tx[t].st = "open"
                             /\ sweep' = [sweep EXCEPT ![s] = [pc |-> "unregister", t |-> t]]
      BY <1>13 DEF PickTransaction
    <2>2. \A r \in Sweeps : sweep'[r] = sweep[r] \/ sweep'[r].t = t
      BY <2>1 DEF TypeOK
    <2>3. \A r \in Sweeps : sweep'[r].pc # "rest" => Stored(sweep'[r].t)
      BY <2>1, <2>2 DEF Books, Stored
    <2> QED BY <1>1, <1>13, <2>3 DEF PickTransaction, Books
  <1>14. ASSUME NEW s \in Sweeps, SweepUnregister(s) PROVE Books'
    <2>1. sweep[s].t \in Keys /\ Stored(sweep[s].t)
      BY <1>14 DEF SweepUnregister, TypeOK, Sweep, Books
    <2>2. \A r \in Sweeps : sweep'[r] = sweep[r] \/ sweep'[r].t = sweep[s].t
      BY <1>14 DEF SweepUnregister, TypeOK, Sweep
    <2>3. \A r \in Sweeps : sweep'[r].pc # "rest" => Stored(sweep'[r].t)
      BY <2>1, <2>2 DEF Books
    <2>4. listen'.op = "unregister"
      BY <1>14, <2>1, SendsTyped DEF SweepUnregister
    <2> QED BY <1>1, <1>14, <2>3, <2>4 DEF SweepUnregister, Books
  <1>15. ASSUME NEW s \in Sweeps, WriteFinished(s) PROVE Books'
    <2>1. Stored(sweep[s].t) /\ tx' = [tx EXCEPT ![sweep[s].t].st = "swept"]
      BY <1>15 DEF WriteFinished, Books
    <2>2. \A r \in Sweeps : sweep'[r] = sweep[r] \/ sweep'[r].t = sweep[s].t
      BY <1>15 DEF WriteFinished, TypeOK, Sweep
    <2>3. \A t \in TxIds : tx'[t].c = tx[t].c /\ tx'[t].st \in {tx[t].st, "swept"}
      BY <2>1 DEF TypeOK, TxDoc
    <2>4. \A t \in TxIds : tx'[t].st # "absent" => tx[t].st # "absent" \/ t = sweep[s].t
      BY <2>1 DEF TypeOK
    <2>5. \A t \in TxIds : tx'[t].st # "absent" => tx'[t].c \in Connectors
      BY <2>1, <2>3, <2>4 DEF Books, Stored
    <2>6. UNCHANGED <<ptr, session, stopQ, mux, watched, listen>>
      BY <1>15 DEF WriteFinished
    <2>7. \A u : Stored(u) => tx'[u].st # "absent"
      BY <2>3 DEF Stored
    <2>8. \A c \in Connectors : ptr[c] # NoTx =>
             tx'[ptr[c]].st \in {"open", "swept"} /\ tx'[ptr[c]].c = c
      BY <2>3, HeldByOne DEF Books
    <2>9. \A r \in Sweeps : sweep'[r].pc # "rest" => Stored(sweep'[r].t)
      BY <2>1, <2>2 DEF Books
    <2> QED BY <2>3, <2>5, <2>6, <2>7, <2>8, <2>9 DEF Books, Stored
  <1>16. ASSUME NEW s \in Sweeps, ReleaseConnector(s) PROVE Books'
    <2>1. \A c \in Connectors : ptr'[c] \in {ptr[c], NoTx}
      BY <1>16 DEF ReleaseConnector, TypeOK
    <2>2. \A r \in Sweeps : sweep'[r] = sweep[r] \/ sweep'[r].pc = "rest"
      BY <1>16, Constants DEF ReleaseConnector, TypeOK
    <2>3. UNCHANGED <<tx, session, stopQ, mux, watched, listen>>
      BY <1>16 DEF ReleaseConnector
    <2> QED BY <1>1, <2>1, <2>2, <2>3 DEF Books
  <1>17. CASE Ticker \/ TriggerMeterValues \/ Connect \/ Disconnect
    <2>1. UNCHANGED <<tx, ptr, session, stopQ, mux, sweep, watched, listen>>
      BY <1>17 DEF Ticker, TriggerMeterValues, Connect, Disconnect
    <2> QED BY <1>1, <2>1 DEF Books
  <1>18. CASE MapRace
    <2>1. /\ listen'.op = "select" /\ mux'.pc = "free"
          /\ \A s \in Sweeps : sweep'[s].pc = "rest"
          /\ \A t \in TxIds : watched'[t] = None
          /\ UNCHANGED <<tx, ptr, session, stopQ>>
      BY <1>18, Constants DEF MapRace
    <2> QED BY <2>1 DEF Books, Stored
  <1>19. CASE OnStart
    <2>1. mux'.pc = "check" /\ \A c \in Connectors : ptr'[c] \in {ptr[c], NoTx}
      BY <1>19, CheckTyped DEF OnStart
    <2> QED BY <1>1, <1>19, <2>1 DEF OnStart, Books
  <1>20. ASSUME NEW c \in Connectors, Unplug(c) PROVE Books'
    <2>1. /\ \A d \in Connectors : session'[d] \in {session[d], NoTx}
          /\ stopQ' \subseteq stopQ \cup {session[c]} /\ session[c] # NoTx
          /\ UNCHANGED <<tx, ptr, mux, sweep, watched, listen>>
      BY <1>20 DEF Unplug, TypeOK
    <2> QED BY <2>1 DEF Books, Stored
  <1>21. CASE UNCHANGED vars
    BY <1>1, <1>21 DEF vars, Books
  <1> QED BY <1>2, <1>3, <1>4, <1>5, <1>6, <1>7, <1>8, <1>9, <1>10, <1>11, <1>12, <1>13,
             <1>14, <1>15, <1>16, <1>17, <1>18, <1>19, <1>20, <1>21
          DEF Next, Handler, SweepStep

-----------------------------------------------------------------------------
(***************************************************************************)
(* The map changes only when listen does what it has received, and only a  *)
(* handler under h.mux asks it to register.                                *)
(***************************************************************************)
LEMMA MapKept ==
    ASSUME TypeOK, [Next]_vars, ~ListenRegister, ~ListenUnregister, ~MapRace
    PROVE  /\ UNCHANGED watched
           /\ \/ UNCHANGED listen
              \/ listen.op = "select" /\ (listen'.op = "unregister" \/ CheckListen)
  <1> DEFINE Goal == /\ UNCHANGED watched
                     /\ \/ UNCHANGED listen
                        \/ listen.op = "select" /\ (listen'.op = "unregister" \/ CheckListen)
  <1> USE DEF memory, goroutines, chargePoint
  <1>1. CASE CheckListen
    <2>1. UNCHANGED watched
      BY <1>1 DEF CheckListen
    <2>2. ASSUME NEW c \in mux.todo, CheckListenTransaction(c, mux.online)
          PROVE  listen.op = "select"
      <3>1. c \in Connectors /\ mux.online \in BOOLEAN
        BY DEF TypeOK, Mux
      <3> QED BY <2>2, <3>1, CheckSends
    <2> QED BY <1>1, <2>1, <2>2 DEF CheckListen
  <1>2. CASE StopUnregister
    <2>1. mux.t \in Keys
      BY DEF TypeOK, Mux
    <2> QED BY <1>2, <2>1, SendsTyped DEF StopUnregister
  <1>3. CASE StopRelease \/ Ticker \/ TriggerMeterValues \/ OnStart \/ Connect \/ Disconnect
    BY <1>3 DEF StopRelease, Ticker, TriggerMeterValues, OnStart, Connect, Disconnect
  <1>4. ASSUME NEW b \in BOOLEAN, OnOnlineStatusChanged(b) PROVE Goal
    BY <1>4 DEF OnOnlineStatusChanged
  <1>5. ASSUME NEW p \in Pumps, Handler(p) PROVE Goal
    BY <1>5 DEF Handler, OnStartTransaction, OnMeterValues, OnStatusNotification, OnStopTransaction
  <1>6. ASSUME NEW p \in Pumps, UnregisterConnector(p) PROVE Goal
    BY <1>6, SendsTyped DEF UnregisterConnector, WatchedBy
  <1>7. ASSUME NEW s \in Sweeps, PickTransaction(s) \/ WriteFinished(s) \/ ReleaseConnector(s)
        PROVE  Goal
    BY <1>7 DEF PickTransaction, WriteFinished, ReleaseConnector
  <1>8. ASSUME NEW s \in Sweeps, SweepUnregister(s) PROVE Goal
    <2>1. sweep[s].t \in Keys
      BY DEF TypeOK, Sweep
    <2> QED BY <1>8, <2>1, SendsTyped DEF SweepUnregister
  <1>9. ASSUME NEW c \in Connectors, Unplug(c) PROVE Goal
    BY <1>9 DEF Unplug
  <1>10. CASE UNCHANGED vars
    BY <1>10 DEF vars
  <1> QED BY <1>1, <1>2, <1>3, <1>4, <1>5, <1>6, <1>7, <1>8, <1>9, <1>10 DEF Next, SweepStep

\* Nobody but the stop itself touches a stop that has unregistered.
LEMMA StopGoesOn ==
    ASSUME TypeOK, [Next]_vars, mux'.pc = "stop"
    PROVE  StopUnregister \/ (UNCHANGED mux /\ ~CheckListen)
  <1> DEFINE Goal == StopUnregister \/ (UNCHANGED mux /\ ~CheckListen)
  <1> USE DEF memory, goroutines, chargePoint
  <1>1. CASE CheckListen
    <2>1. mux.pc = "check"
      BY <1>1 DEF CheckListen
    <2>2. CASE Leave
      BY <2>2, LeaveTyped
    <2>3. CASE \E c \in mux.todo : mux' = [mux EXCEPT !.todo = @ \ {c}]
      BY <2>1, <2>3 DEF TypeOK, Mux
    <2> QED BY <1>1, <2>2, <2>3 DEF CheckListen
  <1>2. CASE StopRelease \/ MapRace
    BY <1>2, LeaveTyped, Constants DEF StopRelease, MapRace
  <1>3. CASE OnStart
    BY <1>3, CheckTyped DEF OnStart
  <1>4. ASSUME NEW b \in BOOLEAN, OnOnlineStatusChanged(b) PROVE Goal
    BY <1>4, CheckTyped, Constants DEF OnOnlineStatusChanged
  <1>5. ASSUME NEW p \in Pumps, NEW c \in Connectors, OnStartTransaction(p, c) PROVE Goal
    BY <1>5, CheckTyped DEF OnStartTransaction, TypeOK
  <1>6. ASSUME NEW p \in Pumps, NEW c \in Connectors, NEW s \in Statuses,
               OnStatusNotification(p, c, s)
        PROVE  Goal
    BY <1>6, CheckTyped DEF OnStatusNotification, TypeOK
  <1>7. ASSUME NEW p \in Pumps, NEW t \in TxIds, OnStopTransaction(p, t) PROVE Goal
    BY <1>7 DEF OnStopTransaction, MuxFree
  <1>8. ASSUME UNCHANGED mux PROVE Goal
    BY <1>1, <1>8
  <1>9. CASE ListenRegister \/ ListenUnregister \/ Ticker \/ TriggerMeterValues \/ Connect
             \/ Disconnect \/ UNCHANGED vars
    BY <1>8, <1>9 DEF ListenRegister, ListenUnregister, Ticker, TriggerMeterValues, Connect,
       Disconnect, vars
  <1>10. ASSUME NEW p \in Pumps, NEW c \in Connectors, OnMeterValues(p, c) PROVE Goal
    BY <1>8, <1>10 DEF OnMeterValues
  <1>11. ASSUME NEW s \in Sweeps, PickTransaction(s) \/ SweepStep(s) PROVE Goal
    BY <1>8, <1>11 DEF PickTransaction, SweepStep, SweepUnregister, WriteFinished, ReleaseConnector
  <1>12. ASSUME NEW p \in Pumps, UnregisterConnector(p) PROVE Goal
    BY <1>8, <1>12 DEF UnregisterConnector
  <1>13. ASSUME NEW c \in Connectors, Unplug(c) PROVE Goal
    BY <1>8, <1>13 DEF Unplug
  <1> QED BY <1>1, <1>2, <1>3, <1>4, <1>5, <1>6, <1>7, <1>9, <1>10, <1>11, <1>12, <1>13
          DEF Next, Handler

\* A transaction is stopped by its stop only.
LEMMA StoppedByStop ==
    ASSUME TypeOK, [Next]_vars, NEW t \in TxIds, tx'[t].st = "stopped"
    PROVE  tx[t].st = "stopped" \/ (StopRelease /\ t = mux.t)
  <1> DEFINE Goal == tx[t].st = "stopped" \/ (StopRelease /\ t = mux.t)
  <1> USE DEF memory, goroutines, chargePoint
  <1>1. ASSUME UNCHANGED tx PROVE Goal
    BY <1>1
  <1>2. CASE StopRelease
    <2>1. t # mux.t => tx'[t] = tx[t]
      BY <1>2 DEF StopRelease, TypeOK
    <2> QED BY <1>2, <2>1
  <1>3. ASSUME NEW p \in Pumps, NEW c \in Connectors, OnStartTransaction(p, c) PROVE Goal
    <2>1. tx'[t] = tx[t] \/ tx'[t].st = "open"
      BY <1>3 DEF OnStartTransaction, TypeOK
    <2> QED BY <2>1
  <1>4. ASSUME NEW s \in Sweeps, WriteFinished(s) PROVE Goal
    <2>1. tx'[t] = tx[t] \/ tx'[t].st = "swept"
      BY <1>4 DEF WriteFinished, TypeOK, TxDoc
    <2> QED BY <2>1
  <1>5. CASE ListenRegister \/ ListenUnregister \/ CheckListen \/ StopUnregister
             \/ Ticker \/ TriggerMeterValues \/ MapRace \/ OnStart \/ Connect \/ Disconnect
    BY <1>1, <1>5 DEF ListenRegister, ListenUnregister, CheckListen, StopUnregister, Ticker,
       TriggerMeterValues, MapRace, OnStart, Connect, Disconnect
  <1>6. ASSUME NEW b \in BOOLEAN, OnOnlineStatusChanged(b) PROVE Goal
    BY <1>1, <1>6 DEF OnOnlineStatusChanged
  <1>7. ASSUME NEW p \in Pumps, NEW c \in Connectors, OnMeterValues(p, c) PROVE Goal
    BY <1>1, <1>7 DEF OnMeterValues
  <1>8. ASSUME NEW p \in Pumps, NEW c \in Connectors, NEW s, OnStatusNotification(p, c, s)
        PROVE  Goal
    BY <1>1, <1>8 DEF OnStatusNotification
  <1>9. ASSUME NEW p \in Pumps, NEW u \in TxIds, OnStopTransaction(p, u) PROVE Goal
    BY <1>1, <1>9 DEF OnStopTransaction
  <1>10. ASSUME NEW p \in Pumps, UnregisterConnector(p) PROVE Goal
    BY <1>1, <1>10 DEF UnregisterConnector
  <1>11. ASSUME NEW s \in Sweeps, PickTransaction(s) \/ SweepUnregister(s) \/ ReleaseConnector(s)
         PROVE  Goal
    BY <1>1, <1>11 DEF PickTransaction, SweepUnregister, ReleaseConnector
  <1>12. ASSUME NEW c \in Connectors, Unplug(c) PROVE Goal
    BY <1>1, <1>12 DEF Unplug
  <1>13. CASE UNCHANGED vars
    BY <1>1, <1>13 DEF vars
  <1> QED BY <1>2, <1>3, <1>4, <1>5, <1>6, <1>7, <1>8, <1>9, <1>10, <1>11, <1>12, <1>13
          DEF Next, Handler, SweepStep

(***************************************************************************)
(* Stopped transactions: from the unregister of a stop on, its transaction *)
(* is out of the map or about to be taken out.                             *)
(***************************************************************************)
TakenOut(t) == listen.op = "unregister" /\ listen.key = t
Gone(t) == watched[t] = None \/ TakenOut(t)

StopInv ==
    /\ mux.pc = "stop" => listen.op # "register" /\ Gone(mux.t)
    /\ \A t \in TxIds : tx[t].st = "stopped" => Gone(t)

LEMMA GoneKept ==
    ASSUME TypeOK, [Next]_vars, NEW t \in TxIds, Gone(t),
           ~(listen.op = "register" /\ ptr[listen.c] = t)
    PROVE  Gone(t)'
  <1>0. t \in Keys
    BY Constants
  <1>1. CASE ListenRegister
    <2>1. listen.op = "register" /\ watched' = [watched EXCEPT ![ptr[listen.c]] = listen.c]
      BY <1>1 DEF ListenRegister
    <2>2. watched'[t] = watched[t] /\ watched[t] = None
      BY <1>0, <2>1 DEF TypeOK, Gone, TakenOut
    <2> QED BY <2>2 DEF Gone
  <1>2. CASE ListenUnregister
    <2>1. watched' = [watched EXCEPT ![listen.key] = None]
      BY <1>2 DEF ListenUnregister
    <2>2. watched'[t] = None
      BY <1>0, <2>1 DEF TypeOK, Gone, TakenOut
    <2> QED BY <2>2 DEF Gone
  <1>3. CASE MapRace
    BY <1>0, <1>3 DEF MapRace, Gone
  <1>4. CASE ~ListenRegister /\ ~ListenUnregister /\ ~MapRace
    BY <1>4, MapKept DEF Gone, TakenOut
  <1> QED BY <1>1, <1>2, <1>3, <1>4

LEMMA StopStep == TypeOK /\ Books /\ StopInv /\ [Next]_vars => StopInv'
  <1> SUFFICES ASSUME TypeOK, Books, StopInv, [Next]_vars PROVE StopInv'
    OBVIOUS
  <1>1. ASSUME mux'.pc = "stop" PROVE listen'.op # "register" /\ Gone(mux.t)'
    <2>1. CASE StopUnregister
      <3>1. mux'.t = mux.t /\ mux.t \in Keys
        BY <2>1 DEF StopUnregister, TypeOK, Mux
      <3>2. listen'.op = "unregister" /\ listen'.key = mux.t
        BY <2>1, <3>1, SendsTyped DEF StopUnregister
      <3> QED BY <3>1, <3>2 DEF Gone, TakenOut
    <2>2. CASE UNCHANGED mux /\ ~CheckListen
      <3>1. /\ mux.pc = "stop" /\ listen.op # "register" /\ Gone(mux.t) /\ mux.t \in TxIds
        BY <1>1, <2>2 DEF StopInv, Books, Stored
      <3>2. PICK t \in TxIds : t = mux.t
        BY <3>1
      <3>3. Gone(t)'
        BY <3>1, <3>2, GoneKept
      <3>4. ~ListenRegister
        BY <3>1 DEF ListenRegister
      <3>5. listen'.op # "register"
        <4>1. CASE ListenUnregister \/ MapRace
          BY <4>1, Constants DEF ListenUnregister, MapRace
        <4>2. CASE ~ListenUnregister /\ ~MapRace
          BY <2>2, <3>1, <3>4, <4>2, MapKept
        <4> QED BY <4>1, <4>2
      <3> QED BY <2>2, <3>2, <3>3, <3>5 DEF Gone, TakenOut
    <2> QED BY <1>1, <2>1, <2>2, StopGoesOn
  <1>2. ASSUME NEW t \in TxIds, tx'[t].st = "stopped" PROVE Gone(t)'
    <2>1. CASE tx[t].st = "stopped"
      <3>1. Gone(t)
        BY <2>1 DEF StopInv
      <3>2. ~(listen.op = "register" /\ ptr[listen.c] = t)
        BY <2>1, HeldByOne, Constants DEF Books
      <3> QED BY <3>1, <3>2, GoneKept
    <2>2. CASE StopRelease /\ t = mux.t
      <3>1. Gone(t) /\ listen.op # "register"
        BY <2>2 DEF StopRelease, StopInv
      <3> QED BY <3>1, GoneKept
    <2> QED BY <1>2, <2>1, <2>2, StoppedByStop
  <1> QED BY <1>1, <1>2 DEF StopInv

\* A transaction that its charge point has stopped is never polled again, with
\* any number of read pumps, sweeps, late readings of a connector's pointer and
\* deaths of the process.
THEOREM StoppedIsSilent == Spec => []StopEndsPolling
  <1>1. Init => StopInv
    <2> SUFFICES ASSUME Init PROVE StopInv
      OBVIOUS
    <2>1. mux.pc = "free" /\ \A t \in TxIds : tx[t].st = "absent"
      BY Constants DEF Init
    <2> QED BY <2>1 DEF StopInv
  <1>2. TypeOK /\ Books /\ StopInv /\ [Next]_vars => TypeOK' /\ Books' /\ StopInv'
    BY TypeStep, BooksStep, StopStep
  <1>3. StopInv => StopEndsPolling
    BY Constants DEF StopInv, StopEndsPolling, Gone, TakenOut
  <1> QED BY <1>1, <1>2, <1>3, TypeInit, BooksInit, PTL DEF Spec

-----------------------------------------------------------------------------
(***************************************************************************)
(* Charging connectors.  One that should be polled is in the map and not   *)
(* about to be taken out, or somebody is still to see to it: listen, the   *)
(* handler under h.mux, or a sweep or a stop that will release it.         *)
(***************************************************************************)
InMap(c) == watched[ptr[c]] = c /\ ~TakenOut(ptr[c])
Sent(c) == listen.op = "register" /\ listen.c = c
ToCheck(c) == mux.pc = "check" /\ c \in mux.todo
BeingStopped(c) == mux.pc \in {"unregister", "stop"} /\ tx[mux.t].c = c
BeingSwept(c) == \E s \in Sweeps : sweep[s].pc # "rest" /\ sweep[s].t = ptr[c]
Due(c) == up /\ ShouldListen(c, online)

Polled(c) ==
    Due(c) => InMap(c) \/ Sent(c) \/ ToCheck(c) \/ BeingStopped(c) \/ BeingSwept(c)

\* A clean-up runs for a connector without a transaction, and a check uses the
\* online status of the moment.
CleanUps ==
    \A p \in Pumps : pump[p].pc = "heal" => pump[p].c \in Connectors /\ ptr[pump[p].c] = NoTx
Checks == mux.pc = "check" => mux.online = online

PollInv == CleanUps /\ Checks /\ \A c \in Connectors : Polled(c)

\* A charge point has one connection at a time, so one read pump serves it.
OnePump == \A p, q \in Pumps : p = q

LEMMA PollInit == Init => PollInv
  <1> SUFFICES ASSUME Init PROVE PollInv
    OBVIOUS
  <1>1. \A p \in Pumps : pump[p].pc = "read"
    BY Constants DEF Init
  <1>2. mux.pc = "free" /\ \A c \in Connectors : ptr[c] = NoTx
    BY Constants DEF Init
  <1> QED BY <1>1, <1>2 DEF PollInv, CleanUps, Checks, Polled, Due, ShouldListen

LEMMA CleanUpsStep ==
    ASSUME OnePump, TypeOK, CleanUps, [Next]_vars PROVE CleanUps'
  <1> USE DEF memory, goroutines, chargePoint
  <1>1. ASSUME \A c \in Connectors : ptr'[c] \in {ptr[c], NoTx},
               \A p \in Pumps : pump'[p] = pump[p] \/ pump'[p].pc # "heal"
        PROVE  CleanUps'
    BY <1>1 DEF CleanUps
  <1>2. CASE ListenRegister \/ ListenUnregister \/ StopUnregister \/ Ticker \/ TriggerMeterValues
             \/ Connect \/ Disconnect
    BY <1>1, <1>2 DEF ListenRegister, ListenUnregister, StopUnregister, Ticker,
       TriggerMeterValues, Connect, Disconnect
  <1>3. CASE CheckListen
    <2>1. UNCHANGED ptr
      BY <1>3 DEF CheckListen
    <2>2. \A p \in Pumps : pump'[p] = pump[p] \/ pump'[p].pc # "heal"
      BY <1>3, LeaveTyped DEF CheckListen
    <2> QED BY <1>1, <2>1, <2>2
  <1>4. CASE StopRelease
    <2>1. \A c \in Connectors : ptr'[c] \in {ptr[c], NoTx}
      BY <1>4 DEF StopRelease, TypeOK
    <2>2. \A p \in Pumps : pump'[p] = pump[p] \/ pump'[p].pc # "heal"
      BY <1>4, LeaveTyped DEF StopRelease
    <2> QED BY <1>1, <2>1, <2>2
  <1>5. ASSUME NEW b \in BOOLEAN, OnOnlineStatusChanged(b) PROVE CleanUps'
    BY <1>1, <1>5 DEF OnOnlineStatusChanged
  <1>6. ASSUME NEW p \in Pumps, NEW c \in Connectors, OnStartTransaction(p, c) PROVE CleanUps'
    <2>1. \A q \in Pumps : pump'[q].pc = "handler"
      BY <1>6, EnterTyped DEF OnStartTransaction, OnePump
    <2> QED BY <2>1 DEF CleanUps
  <1>7. ASSUME NEW p \in Pumps, NEW c \in Connectors, OnMeterValues(p, c) PROVE CleanUps'
    <2>1. CASE ptr[c] = NoTx /\ pump' = [pump EXCEPT ![p] = [pc |-> "heal", c |-> c, seen |-> {}]]
      <3>1. \A q \in Pumps : pump'[q] = pump[q] \/ pump'[q].c = c
        BY <2>1 DEF TypeOK
      <3>2. UNCHANGED ptr
        BY <1>7 DEF OnMeterValues
      <3> QED BY <2>1, <3>1, <3>2 DEF CleanUps
    <2>2. CASE UNCHANGED pump
      BY <1>1, <1>7, <2>2 DEF OnMeterValues
    <2> QED BY <1>7, <2>1, <2>2 DEF OnMeterValues
  <1>8. ASSUME NEW p \in Pumps, NEW c \in Connectors, NEW s, OnStatusNotification(p, c, s)
        PROVE  CleanUps'
    <2>1. UNCHANGED ptr /\ \A q \in Pumps : pump'[q] = pump[q] \/ pump'[q].pc # "heal"
      BY <1>8, EnterTyped DEF OnStatusNotification
    <2> QED BY <1>1, <2>1
  <1>9. ASSUME NEW p \in Pumps, NEW t \in TxIds, OnStopTransaction(p, t) PROVE CleanUps'
    <2>1. UNCHANGED ptr /\ \A q \in Pumps : pump'[q] = pump[q] \/ pump'[q].pc # "heal"
      BY <1>9, EnterTyped DEF OnStopTransaction
    <2> QED BY <1>1, <2>1
  <1>10. ASSUME NEW p \in Pumps, UnregisterConnector(p) PROVE CleanUps'
    <2>1. UNCHANGED ptr
      BY <1>10 DEF UnregisterConnector
    <2>2. CASE pump' = [pump EXCEPT ![p] = Reading]
      <3>1. \A q \in Pumps : pump'[q] = pump[q] \/ pump'[q].pc # "heal"
        BY <2>2, Constants DEF TypeOK
      <3> QED BY <1>1, <2>1, <3>1
    <2>3. ASSUME NEW k, pump' = [pump EXCEPT ![p].seen = @ \cup {k}] PROVE CleanUps'
      <3>1. \A q \in Pumps : pump'[q].pc = pump[q].pc /\ pump'[q].c = pump[q].c
        BY <2>3 DEF TypeOK, Pump
      <3> QED BY <2>1, <3>1 DEF CleanUps
    <2> QED BY <1>10, <2>2, <2>3 DEF UnregisterConnector
  <1>11. ASSUME NEW s \in Sweeps, PickTransaction(s) \/ SweepUnregister(s) \/ WriteFinished(s)
         PROVE  CleanUps'
    BY <1>1, <1>11 DEF PickTransaction, SweepUnregister, WriteFinished
  <1>12. ASSUME NEW s \in Sweeps, ReleaseConnector(s) PROVE CleanUps'
    <2>1. \A c \in Connectors : ptr'[c] \in {ptr[c], NoTx}
      BY <1>12 DEF ReleaseConnector, TypeOK
    <2> QED BY <1>1, <1>12, <2>1 DEF ReleaseConnector
  <1>13. CASE MapRace
    BY <1>1, <1>13, Constants DEF MapRace
  <1>14. CASE OnStart
    BY <1>1, <1>14 DEF OnStart
  <1>15. ASSUME NEW c \in Connectors, Unplug(c) PROVE CleanUps'
    BY <1>1, <1>15 DEF Unplug
  <1>16. CASE UNCHANGED vars
    BY <1>1, <1>16 DEF vars
  <1> QED BY <1>2, <1>3, <1>4, <1>5, <1>6, <1>7, <1>8, <1>9, <1>10, <1>11, <1>12, <1>13, <1>14,
             <1>15, <1>16
          DEF Next, Handler, SweepStep

LEMMA PollStep ==
    ASSUME TypeOK, Books, PollInv, [Next]_vars
    PROVE  Checks' /\ \A c \in Connectors : Polled(c)'
  <1> USE DEF memory, goroutines, chargePoint
  <1> DEFINE Goal == Checks' /\ \A c \in Connectors : Polled(c)'
  <1>0. CleanUps /\ Checks /\ \A c \in Connectors : Polled(c)
    BY DEF PollInv
  \* Nothing of what the invariant speaks of changes.
  <1>1. ASSUME UNCHANGED <<ptr, status, online, up, watched, listen, mux, sweep, tx>> PROVE Goal
    BY <1>0, <1>1 DEF Checks, Polled, Due, ShouldListen, InMap, TakenOut, Sent, ToCheck,
       BeingStopped, BeingSwept
  \* Nobody is under h.mux, and a handler enters for connectors that it will check.
  <1>2. ASSUME mux = MuxFree, NEW cs \in SUBSET Connectors,
               mux'.pc = "check" /\ mux'.todo = cs /\ mux'.online = online',
               UNCHANGED <<up, watched, listen, sweep>>,
               \A c \in Connectors \ cs : ptr'[c] = ptr[c] /\ status'[c] = status[c],
               online' = online \/ cs = Connectors
        PROVE  Goal
    <2>1. Checks'
      BY <1>2 DEF Checks
    <2>2. ASSUME NEW c \in Connectors, Due(c)'
          PROVE  InMap(c)' \/ Sent(c)' \/ ToCheck(c)' \/ BeingSwept(c)'
      <3>1. CASE c \in cs
        BY <1>2, <3>1 DEF ToCheck
      <3>2. CASE c \notin cs
        <4>1. ptr'[c] = ptr[c] /\ status'[c] = status[c] /\ online' = online
          BY <1>2, <3>2
        <4>2. Due(c)
          <5>1. up' /\ online' /\ ptr'[c] # NoTx /\ status'[c] \in {"", "Charging"}
            BY <2>2 DEF Due, ShouldListen
          <5>2. up' = up
            BY <1>2
          <5>3. up /\ online
            BY <4>1, <5>1, <5>2, Zenon
          <5> QED BY <4>1, <5>1, <5>3 DEF Due, ShouldListen
        <4>3. InMap(c) \/ Sent(c) \/ BeingSwept(c)
          BY <1>0, <1>2, <4>2, Constants DEF Polled, ToCheck, BeingStopped
        <4> QED BY <1>2, <4>1, <4>3 DEF InMap, TakenOut, Sent, BeingSwept
      <3> QED BY <3>1, <3>2
    <2> QED BY <2>1, <2>2 DEF Polled
  <1>3. CASE ListenRegister
    <2>1. /\ listen.op = "register" /\ watched' = [watched EXCEPT ![ptr[listen.c]] = listen.c]
          /\ listen'.op = "select" /\ listen.c \in Connectors
          /\ UNCHANGED <<ptr, status, online, up, mux, sweep, tx>>
      BY <1>3, Constants DEF ListenRegister, Books
    <2>2. ASSUME NEW c \in Connectors, Due(c)
          PROVE  InMap(c)' \/ ToCheck(c) \/ BeingStopped(c) \/ BeingSwept(c)
      <3>1. ptr[c] \in Keys /\ ptr[c] # NoTx
        BY <2>2 DEF TypeOK, Due, ShouldListen
      <3>2. InMap(c) \/ Sent(c) => watched'[ptr[c]] = c
        <4>1. CASE ptr[listen.c] = ptr[c]
          <5>1. listen.c = c
            BY <2>1, <3>1, <4>1, HeldByOne
          <5> QED BY <2>1, <3>1, <5>1 DEF TypeOK
        <4>2. CASE ptr[listen.c] # ptr[c]
          BY <2>1, <3>1, <4>2 DEF TypeOK, InMap, Sent
        <4> QED BY <4>1, <4>2
      <3> QED BY <1>0, <2>1, <2>2, <3>2 DEF Polled, InMap, TakenOut
    <2> QED BY <1>0, <2>1, <2>2 DEF Checks, Polled, Due, ShouldListen, ToCheck, BeingStopped, BeingSwept
  <1>4. CASE ListenUnregister
    <2>1. /\ listen.op = "unregister" /\ watched' = [watched EXCEPT ![listen.key] = None]
          /\ listen'.op = "select"
          /\ UNCHANGED <<ptr, status, online, up, mux, sweep, tx>>
      BY <1>4, Constants DEF ListenUnregister
    <2>2. ASSUME NEW c \in Connectors, Due(c)
          PROVE  InMap(c)' \/ ToCheck(c) \/ BeingStopped(c) \/ BeingSwept(c)
      <3>1. ptr[c] \in Keys
        BY DEF TypeOK
      <3>2. InMap(c) => watched'[ptr[c]] = c
        BY <2>1, <3>1 DEF TypeOK, InMap, TakenOut
      <3> QED BY <1>0, <2>1, <2>2, <3>2 DEF Polled, InMap, TakenOut, Sent
    <2> QED BY <1>0, <2>1, <2>2 DEF Checks, Polled, Due, ShouldListen, ToCheck, BeingStopped, BeingSwept
  <1>5. CASE CheckListen
    <2>1. mux.pc = "check" /\ UNCHANGED <<ptr, status, online, up, watched, sweep, tx>>
      BY <1>5 DEF CheckListen
    <2>2. CASE mux.todo = {} /\ Leave /\ UNCHANGED listen
      <3>1. mux'.pc = "free"
        BY <2>2, LeaveTyped
      <3>2. \A c \in Connectors : ~ToCheck(c) /\ ~BeingStopped(c)
        BY <2>1, <2>2 DEF ToCheck, BeingStopped
      <3> QED BY <1>0, <2>1, <2>2, <3>1, <3>2
              DEF Checks, Polled, Due, ShouldListen, InMap, TakenOut, Sent, BeingSwept
    <2>3. ASSUME NEW d \in mux.todo, CheckListenTransaction(d, mux.online),
                 mux' = [mux EXCEPT !.todo = @ \ {d}]
          PROVE  Goal
      <3>1. /\ d \in Connectors /\ mux.online \in BOOLEAN /\ mux.online = online
            /\ mux'.pc = "check" /\ mux'.online = mux.online /\ mux'.todo = mux.todo \ {d}
        BY <1>0, <2>1, <2>3 DEF TypeOK, Mux, Checks
      <3>2. /\ listen.op = "select"
            /\ \/ ShouldListen(d, online) /\ listen'.op = "register" /\ listen'.c = d
               \/ ~ShouldListen(d, online) /\ listen'.op = "unregister" /\ listen'.key = ptr[d]
        BY <2>3, <3>1, CheckSends
      <3>3. ASSUME NEW c \in Connectors, Due(c)
            PROVE  InMap(c)' \/ Sent(c)' \/ ToCheck(c)' \/ BeingSwept(c)
        <4>1. InMap(c) \/ ToCheck(c) \/ BeingSwept(c)
          BY <1>0, <2>1, <3>2, <3>3 DEF Polled, Sent, BeingStopped
        <4>2. ptr[c] # NoTx /\ ShouldListen(c, online)
          BY <3>3 DEF Due, ShouldListen
        <4>3. CASE InMap(c)
          <5>1. listen'.op = "unregister" => listen'.key # ptr[c]
            BY <3>1, <3>2, <4>2, HeldByOne
          <5> QED BY <2>1, <4>3, <5>1 DEF InMap, TakenOut
        <4>4. CASE ToCheck(c)
          BY <3>1, <3>2, <4>2, <4>4 DEF ToCheck, Sent
        <4> QED BY <4>1, <4>3, <4>4
      <3>4. Checks'
        BY <2>1, <3>1 DEF Checks
      <3> QED BY <2>1, <3>3, <3>4 DEF Polled, Due, ShouldListen, BeingSwept
    <2> QED BY <1>5, <2>2, <2>3 DEF CheckListen
  <1>6. CASE StopUnregister
    <2>1. /\ mux.pc = "unregister" /\ mux'.pc = "stop" /\ mux'.t = mux.t /\ mux.t \in Keys
          /\ UNCHANGED <<ptr, status, online, up, watched, sweep, tx>>
      BY <1>6 DEF StopUnregister, TypeOK, Mux
    <2>2. listen'.op = "unregister" /\ listen'.key = mux.t /\ listen.op = "select"
      BY <1>6, <2>1, SendsTyped DEF StopUnregister
    <2>3. ASSUME NEW c \in Connectors, Due(c)
          PROVE  InMap(c)' \/ BeingStopped(c)' \/ BeingSwept(c)
      <3>1. InMap(c) \/ BeingStopped(c) \/ BeingSwept(c)
        BY <1>0, <2>1, <2>2, <2>3 DEF Polled, Sent, ToCheck
      <3>2. CASE InMap(c)
        <4>1. CASE ptr[c] = mux.t
          <5>1. tx[mux.t].c = c
            BY <2>3, <4>1, HeldByOne DEF Due, ShouldListen
          <5> QED BY <2>1, <5>1 DEF BeingStopped
        <4>2. CASE ptr[c] # mux.t
          BY <2>1, <2>2, <3>2, <4>2 DEF InMap, TakenOut
        <4> QED BY <4>1, <4>2
      <3>3. CASE BeingStopped(c)
        BY <2>1, <3>3 DEF BeingStopped
      <3> QED BY <3>1, <3>2, <3>3
    <2> QED BY <2>1, <2>3 DEF Checks, Polled, Due, ShouldListen, BeingSwept
  <1>7. CASE StopRelease
    <2>1. /\ mux.pc = "stop" /\ ptr' = [ptr EXCEPT ![tx[mux.t].c] = NoTx] /\ mux'.pc = "free"
          /\ UNCHANGED <<status, online, up, watched, listen, sweep>>
      BY <1>7, LeaveTyped DEF StopRelease
    <2>2. ASSUME NEW c \in Connectors, Due(c)'
          PROVE  InMap(c)' \/ Sent(c)' \/ BeingSwept(c)'
      <3>1. c # tx[mux.t].c /\ ptr'[c] = ptr[c]
        BY <2>1, <2>2 DEF Due, ShouldListen, TypeOK
      <3>2. InMap(c) \/ Sent(c) \/ BeingSwept(c)
        BY <1>0, <2>1, <2>2, <3>1 DEF Polled, Due, ShouldListen, ToCheck, BeingStopped
      <3> QED BY <2>1, <3>1, <3>2 DEF InMap, TakenOut, Sent, BeingSwept
    <2> QED BY <2>1, <2>2 DEF Checks, Polled
  <1>8. ASSUME NEW b \in BOOLEAN, OnOnlineStatusChanged(b) PROVE Goal
    <2>1. mux = MuxFree /\ online' = b /\ UNCHANGED <<ptr, status, up, watched, listen, sweep, tx>>
      BY <1>8 DEF OnOnlineStatusChanged
    <2>2. CASE online = b
      BY <1>1, <1>8, <2>1, <2>2 DEF OnOnlineStatusChanged
    <2>3. CASE online # b
      <3>1. mux' = Check(None, Connectors, b)
        BY <1>8, <2>3 DEF OnOnlineStatusChanged
      <3>2. mux'.pc = "check" /\ mux'.todo = Connectors /\ mux'.online = online'
        BY <2>1, <3>1, CheckTyped
      <3> QED BY <1>2, <2>1, <3>2
    <2> QED BY <2>2, <2>3
  <1>9. ASSUME NEW p \in Pumps, NEW d \in Connectors, OnStartTransaction(p, d) PROVE Goal
    <2>1. /\ mux = MuxFree /\ mux' = Check(p, {d}, online)
          /\ UNCHANGED <<status, online, up, watched, listen, sweep>>
      BY <1>9, EnterTyped DEF OnStartTransaction
    <2>2. mux'.pc = "check" /\ mux'.todo = {d} /\ mux'.online = online'
      BY <2>1, CheckTyped DEF TypeOK
    <2>3. \A c \in Connectors \ {d} : ptr'[c] = ptr[c]
      BY <1>9 DEF OnStartTransaction, TypeOK
    <2> QED BY <1>2, <2>1, <2>2, <2>3
  <1>10. ASSUME NEW p \in Pumps, NEW d \in Connectors, NEW s, OnStatusNotification(p, d, s)
         PROVE  Goal
    <2>1. /\ mux = MuxFree /\ mux' = Check(p, {d}, online)
          /\ UNCHANGED <<ptr, online, up, watched, listen, sweep>>
      BY <1>10, EnterTyped DEF OnStatusNotification
    <2>2. mux'.pc = "check" /\ mux'.todo = {d} /\ mux'.online = online'
      BY <2>1, CheckTyped DEF TypeOK
    <2>3. \A c \in Connectors \ {d} : status'[c] = status[c]
      BY <1>10 DEF OnStatusNotification, TypeOK
    <2> QED BY <1>2, <2>1, <2>2, <2>3
  <1>11. ASSUME NEW p \in Pumps, NEW d \in Connectors, OnMeterValues(p, d) PROVE Goal
    BY <1>1, <1>11 DEF OnMeterValues
  <1>12. ASSUME NEW p \in Pumps, NEW t \in TxIds, OnStopTransaction(p, t) PROVE Goal
    <2>1. /\ mux.pc = "free" /\ mux'.pc = "unregister"
          /\ UNCHANGED <<ptr, status, online, up, watched, listen, sweep, tx>>
      BY <1>12, EnterTyped, Constants DEF OnStopTransaction, MuxFree
    <2>2. \A c \in Connectors : ~ToCheck(c) /\ ~BeingStopped(c)
      BY <2>1 DEF ToCheck, BeingStopped
    <2> QED BY <1>0, <2>1, <2>2
            DEF Checks, Polled, Due, ShouldListen, InMap, TakenOut, Sent, BeingSwept
  <1>13. ASSUME NEW p \in Pumps, UnregisterConnector(p) PROVE Goal
    <2>1. /\ pump[p].pc = "heal"
          /\ UNCHANGED <<ptr, status, online, up, watched, mux, sweep, tx>>
      BY <1>13 DEF UnregisterConnector
    <2>2. CASE UNCHANGED listen
      BY <1>1, <2>1, <2>2
    <2>3. ASSUME NEW k \in WatchedBy(pump[p].c), SendUnregister(k) PROVE Goal
      <3>1. k \in Keys /\ watched[k] = pump[p].c /\ ptr[pump[p].c] = NoTx
        BY <1>0, <2>1 DEF WatchedBy, CleanUps
      <3>2. listen'.op = "unregister" /\ listen'.key = k /\ listen.op = "select"
        BY <2>3, <3>1, SendsTyped
      <3>3. ASSUME NEW c \in Connectors, Due(c)
            PROVE  InMap(c)' \/ ToCheck(c) \/ BeingStopped(c) \/ BeingSwept(c)
        <4>1. ptr[c] # NoTx
          BY <3>3 DEF Due, ShouldListen
        <4>2. InMap(c) => ptr[c] # k
          BY <3>1, <4>1 DEF InMap
        <4>3. InMap(c) => InMap(c)'
          BY <2>1, <3>2, <4>2 DEF InMap, TakenOut
        <4> QED BY <1>0, <3>2, <3>3, <4>3 DEF Polled, Sent
      <3> QED BY <1>0, <2>1, <3>3 DEF Checks, Polled, Due, ShouldListen, ToCheck, BeingStopped, BeingSwept
    <2> QED BY <1>13, <2>2, <2>3 DEF UnregisterConnector
  <1>14. ASSUME NEW s \in Sweeps, NEW u, NEW pc, UNCHANGED <<ptr, status, online, up, watched, mux>>,
                \A t \in TxIds : tx'[t].c = tx[t].c,
                sweep'[s].pc = pc, sweep'[s].t = u, pc # "rest",
                \A r \in Sweeps : r # s => sweep'[r] = sweep[r],
                sweep[s].pc # "rest" => u = sweep[s].t,
                \/ UNCHANGED listen
                \/ listen.op = "select" /\ listen'.op = "unregister" /\ listen'.key = u
         PROVE  Goal
    <2>1. ASSUME NEW c \in Connectors, Due(c)
          PROVE  InMap(c)' \/ Sent(c)' \/ ToCheck(c)' \/ BeingStopped(c)' \/ BeingSwept(c)'
      <3>1. CASE u = ptr[c]
        BY <1>14, <3>1 DEF BeingSwept
      <3>2. CASE u # ptr[c]
        <4>1. InMap(c) => InMap(c)'
          BY <1>14, <3>2 DEF InMap, TakenOut
        <4>2. Sent(c) => Sent(c)'
          BY <1>14 DEF Sent
        <4>3. ToCheck(c) => ToCheck(c)'
          BY <1>14 DEF ToCheck
        <4>4. BeingStopped(c) => BeingStopped(c)'
          BY <1>14 DEF BeingStopped, Books, Stored
        <4>5. BeingSwept(c) => BeingSwept(c)'
          BY <1>14, <3>2 DEF BeingSwept
        <4> QED BY <1>0, <2>1, <4>1, <4>2, <4>3, <4>4, <4>5 DEF Polled
      <3> QED BY <3>1, <3>2
    <2>2. \A c \in Connectors : Due(c)' => Due(c)
      BY <1>14 DEF Due, ShouldListen
    <2> QED BY <1>0, <1>14, <2>1, <2>2 DEF Checks, Polled
  <1>15. ASSUME NEW s \in Sweeps, PickTransaction(s) PROVE Goal
    <2>1. sweep[s].pc = "rest" /\ UNCHANGED <<ptr, status, online, up, watched, mux, tx, listen>>
      BY <1>15, Constants DEF PickTransaction
    <2>2. PICK t \in TxIds : sweep' = [sweep EXCEPT ![s] = [pc |-> "unregister", t |-> t]]
      BY <1>15 DEF PickTransaction
    <2>3. /\ sweep'[s].pc = "unregister" /\ sweep'[s].t = t
          /\ \A r \in Sweeps : r # s => sweep'[r] = sweep[r]
      BY <2>2 DEF TypeOK
    <2> QED BY <1>14, <2>1, <2>3
  <1>16. ASSUME NEW s \in Sweeps, SweepUnregister(s) PROVE Goal
    <2>1. sweep[s] \in Sweep /\ sweep[s].t \in Keys
      BY DEF TypeOK, Sweep
    <2>2. UNCHANGED <<ptr, status, online, up, watched, mux, tx>>
      BY <1>16 DEF SweepUnregister
    <2>3. /\ sweep'[s].pc = "write" /\ sweep'[s].t = sweep[s].t
          /\ \A r \in Sweeps : r # s => sweep'[r] = sweep[r]
      BY <1>16, <2>1 DEF SweepUnregister, TypeOK, Sweep
    <2>4. listen.op = "select" /\ listen'.op = "unregister" /\ listen'.key = sweep[s].t
      BY <1>16, <2>1, SendsTyped DEF SweepUnregister
    <2> QED BY <1>14, <2>2, <2>3, <2>4
  <1>17. ASSUME NEW s \in Sweeps, WriteFinished(s) PROVE Goal
    <2>1. sweep[s] \in Sweep
      BY DEF TypeOK
    <2>2. UNCHANGED <<ptr, status, online, up, watched, mux, listen>>
      BY <1>17 DEF WriteFinished
    <2>3. /\ sweep'[s].pc = "release" /\ sweep'[s].t = sweep[s].t
          /\ \A r \in Sweeps : r # s => sweep'[r] = sweep[r]
      BY <1>17, <2>1 DEF WriteFinished, TypeOK, Sweep
    <2>4. \A t \in TxIds : tx'[t].c = tx[t].c
      BY <1>17 DEF WriteFinished, TypeOK, TxDoc
    <2> QED BY <1>14, <2>2, <2>3, <2>4
  <1>18. ASSUME NEW s \in Sweeps, ReleaseConnector(s) PROVE Goal
    <2> DEFINE d == tx[sweep[s].t].c
    <2>1. /\ mux.pc = "free" /\ sweep[s].pc = "release"
          /\ ptr' = [ptr EXCEPT ![d] = IF @ = sweep[s].t THEN NoTx ELSE @]
          /\ sweep' = [sweep EXCEPT ![s] = Resting]
          /\ UNCHANGED <<status, online, up, watched, listen, mux, tx>>
      BY <1>18, Constants DEF ReleaseConnector
    <2>2. ASSUME NEW c \in Connectors, Due(c)'
          PROVE  InMap(c)' \/ Sent(c)' \/ BeingSwept(c)'
      <3>1. ptr'[c] # NoTx
        BY <2>2 DEF Due, ShouldListen
      <3>2. ptr'[c] = ptr[c] /\ (c = d => ptr[c] # sweep[s].t)
        BY <2>1, <3>1 DEF TypeOK
      <3>3. ptr[c] # sweep[s].t
        BY <3>1, <3>2, HeldByOne
      <3>4. InMap(c) \/ Sent(c) \/ BeingSwept(c)
        BY <1>0, <2>1, <2>2, <3>2 DEF Polled, Due, ShouldListen, ToCheck, BeingStopped
      <3>5. \A r \in Sweeps : r # s => sweep'[r] = sweep[r]
        BY <2>1 DEF TypeOK
      <3> QED BY <2>1, <3>2, <3>3, <3>4, <3>5 DEF InMap, TakenOut, Sent, BeingSwept
    <2> QED BY <1>0, <2>1, <2>2 DEF Checks, Polled
  <1>19. CASE Ticker \/ TriggerMeterValues \/ Connect \/ Disconnect
    BY <1>1, <1>19 DEF Ticker, TriggerMeterValues, Connect, Disconnect
  <1>20. CASE MapRace
    <2>1. up' = FALSE /\ mux'.pc = "free"
      BY <1>20, Constants DEF MapRace
    <2> QED BY <2>1 DEF Checks, Polled, Due
  <1>21. CASE OnStart
    <2>1. online' = FALSE /\ mux'.online = FALSE
      BY <1>21, CheckTyped DEF OnStart
    <2> QED BY <2>1 DEF Checks, Polled, Due, ShouldListen
  <1>22. ASSUME NEW c \in Connectors, Unplug(c) PROVE Goal
    BY <1>1, <1>22 DEF Unplug
  <1>23. CASE UNCHANGED vars
    BY <1>1, <1>23 DEF vars
  <1> QED BY <1>3, <1>4, <1>5, <1>6, <1>7, <1>8, <1>9, <1>10, <1>11, <1>12, <1>13, <1>15, <1>16,
             <1>17, <1>18, <1>19, <1>20, <1>21, <1>22, <1>23
          DEF Next, Handler, SweepStep

\* While one read pump serves a charge point, a connector that holds a
\* transaction, is online and charges is polled as soon as nobody is at work on
\* it.  With two pumps it need not be: the clean-up of the older one takes the
\* entry of a session that has started since.
THEOREM ChargingStaysPolled ==
    ASSUME OnePump PROVE Spec => []ChargingIsPolled
  <1> DEFINE Inv == TypeOK /\ Books /\ PollInv
  <1>1. Init => Inv
    BY TypeInit, BooksInit, PollInit
  <1>2. Inv /\ [Next]_vars => Inv'
    BY TypeStep, BooksStep, CleanUpsStep, PollStep DEF PollInv
  <1>3. Inv => ChargingIsPolled
    <2> SUFFICES ASSUME PollInv, NEW c \in Connectors, Settled(c), ShouldListen(c, online)
                 PROVE  watched[ptr[c]] = c
      BY DEF ChargingIsPolled
    <2>1. up /\ listen.op = "select" /\ mux.pc = "free" /\ \A s \in Sweeps : sweep[s].t # ptr[c]
      BY Constants DEF Settled
    <2>2. InMap(c)
      BY <2>1 DEF PollInv, Polled, Due, Sent, ToCheck, BeingStopped, BeingSwept
    <2> QED BY <2>2 DEF InMap
  <1> QED BY <1>1, <1>2, <1>3, PTL DEF Spec
=============================================================================
