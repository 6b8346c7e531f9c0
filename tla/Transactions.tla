---------------------------- MODULE Transactions ----------------------------
(***************************************************************************)
(* The life of an OCPP 1.6 charging transaction in SystemHandler           *)
(* (server/system_handler.go) and in the MongoDB collections it writes.    *)
(*                                                                         *)
(* The OCPP handlers hold h.mux from their first to their last statement,  *)
(* but they write the database several times on the way, and the sweep     *)
(* goroutines that close abandoned transactions touch the database without *)
(* the lock.  So a handler is a sequence of steps of the one goroutine     *)
(* that holds the mutex ("job"), a sweep is a process of its own, and the  *)
(* process may die between any two steps.                                  *)
(*                                                                         *)
(* Left to other modules: the poller of meter values (trigger.go) and the  *)
(* connector status it depends on, the power limit stored on a connector,  *)
(* the price of a session and the consumption curve saved with it.  No     *)
(* guard here reads them.  Times are kept as ages in ticks of two          *)
(* thresholds, GraceAge and StaleAge.                                      *)
(***************************************************************************)
EXTENDS Integers, FiniteSets

CONSTANTS
    Connectors,     \* physical outlets; each belongs to one charge point
    ChargePoints,
    ChargePointOf,  \* [Connectors -> ChargePoints]
    NoConnector,
    NoChargePoint,
    Ticker,         \* the goroutine of sweepTransactions
    Goroutines,     \* goroutines spawned by status and boot notifications
    MaxTx,          \* bound: transaction ids are 1..MaxTx
    MaxMeter,       \* bound: the energy register of a session
    GraceAge,       \* transactionReleaseGrace, in ticks
    StaleAge,       \* transactionStaleAfter, in ticks
    ReportAges,     \* ages a charge point's own timestamps may have on arrival
    FaultKinds,     \* the database calls that may fail in this instance
    MaxFaults,      \* bound: how many of them fail
    MaxCrashes,     \* bound: how many times the process dies
    LateStops       \* TRUE: a StopTransaction may be handled after the
                    \* connector's next StartTransaction

NoTx == -1
NoStop == -1
NoSample == 0    \* a reading of 0 is never recorded
TxIds == 1..MaxTx
Readings == 0..MaxMeter
Ages == 0..StaleAge
Sweepers == Goroutines \cup {Ticker}

ASSUME BoundsAssumption ==
    /\ MaxTx \in Nat /\ MaxMeter \in Nat
    /\ MaxFaults \in Nat /\ MaxCrashes \in Nat
    /\ GraceAge \in Nat /\ StaleAge \in Nat /\ GraceAge <= StaleAge
    /\ ReportAges \subseteq Ages
    /\ LateStops \in BOOLEAN

ASSUME TopologyAssumption ==
    /\ ChargePointOf \in [Connectors -> ChargePoints]
    /\ NoConnector \notin Connectors /\ NoChargePoint \notin ChargePoints
    /\ Ticker \notin Goroutines

VARIABLES
    up,         \* the process is running
    nextId,     \* newTransactionId
    ptr,        \* connector.CurrentTransactionId, in memory
    registered, \* the ids in ChargePointState.transactions (the active gauge)
    tx,         \* the transactions collection, by transaction_id
    dbPtr,      \* the connectors collection: current_transaction_id
    samples,    \* the meter_values collection: the newest reading, by
                \* transaction_id
    startAge,   \* how long ago time_start is
    sampleAge,  \* how long ago the newest meter value was taken
    job,        \* the handler that holds h.mux and what it does next
    sweep,      \* the goroutines in checkAndFinish/reconcile...Transactions
    session,    \* what is going on at each outlet, as its charger sees it
    stopQ,      \* StopTransactions a charger has not seen answered: the meter
    faults,
    crashes

memVars == <<up, nextId, ptr, registered>>
dbVars == <<tx, dbPtr, samples>>
ageVars == <<startAge, sampleAge>>
chargerVars == <<session, stopQ>>
vars == <<memVars, dbVars, ageVars, job, sweep, chargerVars, faults, crashes>>

(***************************************************************************)
(* Records.                                                                *)
(***************************************************************************)
StoppedBySystem == "stopped by system"
AbortedBySystem == "aborted by system"
ByCharger == "by charger"
Reasons == {"", ByCharger, StoppedBySystem, AbortedBySystem}

Absent == [st |-> "absent", connector |-> NoConnector, meterStop |-> 0,
           reason |-> ""]
TxDoc == [st : {"absent", "open", "finished"},
          connector : Connectors \cup {NoConnector},
          meterStop : Readings, reason : Reasons]

\* The document OnStartTransaction inserts for connector c.
OpenDoc(c) == [Absent EXCEPT !.st = "open", !.connector = c]

Free == [pc |-> "free", c |-> NoConnector, t |-> NoTx, meter |-> 0]
Job == [pc : {"free", "add", "link", "write", "purge", "release"},
        c : Connectors \cup {NoConnector}, t : TxIds \cup {NoTx},
        meter : Readings]

Idle == [pc |-> "idle", cp |-> NoChargePoint, todo |-> {}, t |-> NoTx, found |-> NoSample]
Sweep == [pc : {"idle", "query", "next", "read", "write", "release", "purge"},
          cp : ChargePoints \cup {NoChargePoint}, todo : SUBSET TxIds,
          t : TxIds \cup {NoTx}, found : Readings]

NoSession == [st |-> "none", id |-> NoTx, energy |-> 0]
Session == [st : {"none", "starting", "on"}, id : TxIds \cup {NoTx},
            energy : Readings]

Stored(t) == tx[t].st # "absent"
Open(t) == tx[t].st = "open"
Finished(t) == tx[t].st = "finished"
StoredIds == {t \in TxIds : Stored(t)}

\* The last of a set of ids, as a set: empty if there is none.
NewestOf(S) == {m \in S : \A n \in S : n <= m}
Smaller(a, b) == IF a <= b THEN a ELSE b

(***************************************************************************)
(* Database calls.  Every call opens its own connection, so one may fail   *)
(* and the next succeed; the handlers log the error and carry on.          *)
(***************************************************************************)
Fails(call) == /\ call \in FaultKinds
               /\ faults < MaxFaults
               /\ faults' = faults + 1

UpdateConnector(c, id) ==
    \/ dbPtr' = [dbPtr EXCEPT ![c] = id] /\ UNCHANGED faults
    \/ UNCHANGED dbPtr /\ Fails("UpdateConnector")

UpdateTransaction(t, doc) == tx' = [tx EXCEPT ![t] = doc] /\ UNCHANGED faults

DeleteTransactionMeterValues(t) ==
    \/ /\ samples' = [samples EXCEPT ![t] = NoSample]
       /\ sampleAge' = [sampleAge EXCEPT ![t] = 0]
       /\ UNCHANGED faults
    \/ UNCHANGED <<samples, sampleAge>> /\ Fails("DeleteTransactionMeterValues")

\* last_activity of the aggregation: the later of time_start and the newest
\* meter value.
ActivityAge(t) == IF samples[t] = NoSample THEN startAge[t]
                  ELSE Smaller(startAge[t], sampleAge[t])

\* GetUnfinishedTransactions: open, and either idle beyond StaleAge or idle
\* beyond GraceAge on a connector whose document points elsewhere.
GetUnfinishedTransactions_PointerOnly ==
    {t \in TxIds : Open(t) /\ dbPtr[tx[t].connector] # t /\ ActivityAge(t) >= GraceAge}
GetUnfinishedTransactions ==
    {t \in TxIds : /\ Open(t)
                   /\ \/ /\ dbPtr[tx[t].connector] # t
                         /\ ActivityAge(t) >= GraceAge
                      \/ ActivityAge(t) >= StaleAge}

GetUnfinishedTransactionsForChargePoint(cp) ==
    {t \in TxIds : Open(t) /\ ChargePointOf[tx[t].connector] = cp}

(***************************************************************************)
(* The charge points: environment.  A session is "starting" from the first *)
(* StartTransaction until one is answered; an unanswered request is sent   *)
(* again.  The stop carries the register of the session.                   *)
(***************************************************************************)
QueueEmpty(c) == \A t \in TxIds : stopQ[t] # NoStop => tx[t].connector # c

PlugIn(c) == /\ session[c] = NoSession
             /\ LateStops \/ QueueEmpty(c)
             /\ session' = [session EXCEPT ![c].st = "starting"]
             /\ UNCHANGED <<memVars, dbVars, ageVars, job, sweep, stopQ, faults, crashes>>

Draw(c) == /\ session[c].st # "none"
           /\ session[c].energy < MaxMeter
           /\ session' = [session EXCEPT ![c].energy = @ + 1]
           /\ UNCHANGED <<memVars, dbVars, ageVars, job, sweep, stopQ, faults, crashes>>

Unplug(c) == /\ session[c].st = "on"
             /\ session' = [session EXCEPT ![c] = NoSession]
             /\ stopQ' = [stopQ EXCEPT ![session[c].id] = session[c].energy]
             /\ UNCHANGED <<memVars, dbVars, ageVars, job, sweep, faults, crashes>>

\* The answer to StartTransaction, or its loss.
Answer(c, s) == session' = [session EXCEPT ![c] = s] \/ UNCHANGED session

\* The answer to StopTransaction, or its loss.
Acknowledge(t) == stopQ' = [stopQ EXCEPT ![t] = NoStop] \/ UNCHANGED stopQ

Older(age) == IF age < StaleAge THEN age + 1 ELSE age

\* Time passes.  Only the ages of open transactions and of stored meter values
\* are ever read.
Tick ==
    /\ startAge' = [t \in TxIds |-> IF Open(t) THEN Older(startAge[t])
                                    ELSE startAge[t]]
    /\ sampleAge' = [t \in TxIds |-> IF samples[t] # NoSample THEN Older(sampleAge[t])
                                     ELSE sampleAge[t]]
    /\ UNCHANGED <<memVars, dbVars, job, sweep, chargerVars, faults, crashes>>

(***************************************************************************)
(* OnStartTransaction.  Enter runs up to the claim of the connector in     *)
(* memory, or to an early answer; then AddTransaction, then                *)
(* UpdateConnector and the answer.                                         *)
(***************************************************************************)
MuxFree == up /\ job = Free

\* The claim of connector c for a new transaction, after "cleared" has been
\* dropped from the registered ones.
Claim(c, cleared) ==
    /\ nextId \in TxIds
    /\ nextId' = nextId + 1
    /\ ptr' = [ptr EXCEPT ![c] = nextId]
    /\ registered' = (registered \ cleared) \cup {nextId}
    /\ job' = [Free EXCEPT !.pc = "add", !.c = c, !.t = nextId]
    /\ UNCHANGED <<up, tx, samples, ageVars, sweep, chargerVars, crashes>>

\* The connector claims a transaction and the lookup fails: Blocked.
StartBlocked(c) ==
    /\ ptr[c] # NoTx
    /\ Fails("GetTransaction")
    /\ Answer(c, NoSession)
    /\ UNCHANGED <<memVars, dbVars, ageVars, job, sweep, stopQ, crashes>>

\* A repeated request: the connector already holds an open transaction of its
\* own, whose id is the answer.
StartRepeated(c) ==
    /\ ptr[c] # NoTx /\ Open(ptr[c]) /\ tx[ptr[c]].connector = c
    /\ Answer(c, [session[c] EXCEPT !.st = "on", !.id = ptr[c]])
    /\ UNCHANGED <<memVars, dbVars, ageVars, job, sweep, stopQ, faults, crashes>>

\* ConcurrentTx: the id held is an open transaction of another connector.
StartRefused(c) ==
    /\ ptr[c] # NoTx /\ Open(ptr[c]) /\ tx[ptr[c]].connector # c
    /\ Answer(c, NoSession)
    /\ UNCHANGED <<memVars, dbVars, ageVars, job, sweep, stopQ, faults, crashes>>

\* The pointer left behind by a finished transaction is cleared first.
StartOverFinished(c) ==
    /\ ptr[c] # NoTx /\ Finished(ptr[c])
    /\ UpdateConnector(c, NoTx)
    /\ Claim(c, {ptr[c]})

\* No pointer, or one to a document that does not exist.
StartFresh_LinkFirst(c) ==
    /\ ptr[c] \notin StoredIds
    /\ Claim(c, {})
    /\ dbPtr' = [dbPtr EXCEPT ![c] = nextId]
    /\ UNCHANGED faults
StartFresh(c) ==
    /\ ptr[c] \notin StoredIds
    /\ Claim(c, {})
    /\ UNCHANGED <<dbPtr, faults>>

OnStartTransaction(c) ==
    /\ MuxFree
    /\ session[c].st = "starting"
    /\ \/ StartBlocked(c)
       \/ StartRepeated(c)
       \/ StartRefused(c)
       \/ StartOverFinished(c)
       \/ StartFresh(c)

\* AddTransaction.  A second document with the id of a stored one would stay
\* hidden behind it: every lookup is FindOne by transaction_id.
AddTransaction ==
    /\ job.pc = "add"
    /\ \/ /\ tx' = IF Stored(job.t) THEN tx
                   ELSE [tx EXCEPT ![job.t] = OpenDoc(job.c)]
          /\ \E age \in ReportAges : startAge' = [startAge EXCEPT ![job.t] = age]
          /\ UNCHANGED faults
       \/ UNCHANGED <<tx, startAge>> /\ Fails("AddTransaction")
    /\ job' = [job EXCEPT !.pc = "link"]
    /\ UNCHANGED <<memVars, dbPtr, samples, sampleAge, sweep, chargerVars, crashes>>

LinkConnector ==
    /\ job.pc = "link"
    /\ UpdateConnector(job.c, ptr[job.c])
    /\ Answer(job.c, [session[job.c] EXCEPT !.st = "on", !.id = job.t])
    /\ job' = Free
    /\ UNCHANGED <<memVars, tx, samples, ageVars, sweep, stopQ, crashes>>

(***************************************************************************)
(* OnStopTransaction.  Enter reads the samples and the document and        *)
(* decides; then UpdateTransaction, DeleteTransactionMeterValues, and the  *)
(* release of the connector, with the answer.                              *)
(***************************************************************************)
\* The document cannot be read: the handler answers and leaves it all alone.
StopUnreadable(t) ==
    /\ \/ ~Stored(t) /\ UNCHANGED faults
       \/ Fails("GetTransaction")
    /\ Acknowledge(t)
    /\ UNCHANGED <<session, job>>

\* Finished already, with at least the energy reported now.
StopRepeated(t) ==
    /\ Finished(t) /\ tx[t].meterStop >= stopQ[t]
    /\ job' = [Free EXCEPT !.pc = "release", !.c = tx[t].connector, !.t = t]
    /\ UNCHANGED <<chargerVars, faults>>

\* Open, or closed with lower figures that the charger's own overwrite.
StopTaken(t) ==
    /\ Stored(t)
    /\ Finished(t) => tx[t].meterStop < stopQ[t]
    /\ job' = [pc |-> "write", c |-> tx[t].connector, t |-> t, meter |-> stopQ[t]]
    /\ UNCHANGED <<chargerVars, faults>>

OnStopTransaction(t) ==
    /\ MuxFree
    /\ stopQ[t] # NoStop
    /\ registered' = registered \ {t}
    /\ StopUnreadable(t) \/ StopRepeated(t) \/ StopTaken(t)
    /\ UNCHANGED <<up, nextId, ptr, dbVars, ageVars, sweep, crashes>>

FinishedBy(reason, c, meter) ==
    [st |-> "finished", connector |-> c, meterStop |-> meter, reason |-> reason]

StopWrite ==
    /\ job.pc = "write"
    /\ \/ /\ UpdateTransaction(job.t, FinishedBy(ByCharger, job.c, job.meter))
          /\ job' = [job EXCEPT !.pc = "purge"]
       \/ /\ UNCHANGED tx /\ Fails("UpdateTransaction")
          /\ job' = [job EXCEPT !.pc = "release"]
    /\ UNCHANGED <<memVars, dbPtr, samples, ageVars, sweep, chargerVars, crashes>>

StopPurge ==
    /\ job.pc = "purge"
    /\ DeleteTransactionMeterValues(job.t)
    /\ job' = [job EXCEPT !.pc = "release"]
    /\ UNCHANGED <<memVars, tx, dbPtr, startAge, sweep, chargerVars, crashes>>

\* The closure releaseConnector of OnStopTransaction: it does not look at the
\* transaction the connector holds by now.
StopRelease ==
    /\ job.pc = "release"
    /\ ptr' = [ptr EXCEPT ![job.c] = NoTx]
    /\ UpdateConnector(job.c, NoTx)
    /\ Acknowledge(job.t)
    /\ job' = Free
    /\ UNCHANGED <<up, nextId, registered, tx, samples, ageVars, sweep, session, crashes>>

(***************************************************************************)
(* OnMeterValues, without h.mux.  A reading is recorded under the id it    *)
(* carries, or under the one its connector holds if it carries none,       *)
(* whether or not that transaction is finished and whether or not the      *)
(* outlet is in a session: a charger may report an idle outlet by the      *)
(* clock.  One the database does not take is lost as if it had never been  *)
(* sent.                                                                   *)
(***************************************************************************)
Record(t, reading, age) ==
    LET newest == samples[t] = NoSample \/ age <= sampleAge[t]
    IN /\ samples' = [samples EXCEPT ![t] = IF newest THEN reading ELSE @]
       /\ sampleAge' = [sampleAge EXCEPT ![t] = IF newest THEN age ELSE @]

\* The register of outlet c: of the session that is on, or any.
RegisterOf(c) == IF session[c].st = "none" THEN Readings \ {0}
                 ELSE {session[c].energy} \ {0}

OnMeterValues(c) ==
    /\ up
    /\ \E t \in {session[c].id, ptr[c]} \ {NoTx} :
          /\ Stored(t)
          /\ \E reading \in RegisterOf(c), age \in ReportAges : Record(t, reading, age)
    /\ UNCHANGED <<memVars, tx, dbPtr, startAge, job, sweep, chargerVars, faults, crashes>>

(***************************************************************************)
(* OnStatusNotification writes the connector back as memory has it, and    *)
(* starts a sweep when the status is Available; OnBootNotification starts  *)
(* a reconciliation of the charge point.  The goroutines are bounded.      *)
(***************************************************************************)
Spawn(g, cp) == /\ sweep[g] = Idle
                /\ sweep' = [sweep EXCEPT ![g].pc = "query", ![g].cp = cp]

OnStatusNotification(c, available) ==
    /\ MuxFree
    /\ UpdateConnector(c, ptr[c])
    /\ IF available THEN \E g \in Goroutines : Spawn(g, NoChargePoint)
       ELSE UNCHANGED sweep
    /\ UNCHANGED <<memVars, tx, samples, ageVars, job, chargerVars, crashes>>

OnBootNotification(cp) ==
    /\ MuxFree
    /\ \E g \in Goroutines : Spawn(g, cp)
    /\ UNCHANGED <<memVars, dbVars, ageVars, job, chargerVars, faults, crashes>>

\* The ticker of sweepTransactions.
SweepTransactions ==
    /\ up
    /\ Spawn(Ticker, NoChargePoint)
    /\ UNCHANGED <<memVars, dbVars, ageVars, job, chargerVars, faults, crashes>>

(***************************************************************************)
(* checkAndFinishTransactions (cp = NoChargePoint) and                     *)
(* reconcileChargePointTransactions: one query, then                       *)
(* finishAbandonedTransaction for one result after the other.  The copies  *)
(* of the documents returned by the query are what is written back; all    *)
(* that was not set before a transaction finishes is unset in them.        *)
(***************************************************************************)
Query(s) ==
    /\ sweep[s].pc = "query"
    /\ LET found == IF sweep[s].cp = NoChargePoint THEN GetUnfinishedTransactions
                    ELSE GetUnfinishedTransactionsForChargePoint(sweep[s].cp)
       IN \/ /\ sweep' = [sweep EXCEPT ![s].pc = "next", ![s].todo = found]
             /\ UNCHANGED faults
          \/ /\ Fails("GetUnfinishedTransactions")
             /\ sweep' = [sweep EXCEPT ![s] = Idle]
    /\ UNCHANGED <<memVars, dbVars, ageVars, job, chargerVars, crashes>>

\* reconcileChargePointTransactions leaves a transaction that still reports;
\* a failed read of its newest meter value counts as none.
StillReporting(s, t) ==
    /\ sweep[s].cp # NoChargePoint
    /\ samples[t] # NoSample
    /\ sampleAge[t] < GraceAge

PickTransaction(s) ==
    /\ sweep[s].pc = "next"
    /\ \E t \in sweep[s].todo :
          \/ /\ StillReporting(s, t)
             /\ sweep' = [sweep EXCEPT ![s].todo = @ \ {t}]
             /\ UNCHANGED faults
          \/ /\ \/ ~StillReporting(s, t) /\ UNCHANGED faults
                \/ StillReporting(s, t) /\ Fails("ReadTransactionMeterValue")
             /\ sweep' = [sweep EXCEPT ![s].pc = "read", ![s].t = t, ![s].todo = @ \ {t}]
    /\ UNCHANGED <<memVars, dbVars, ageVars, job, chargerVars, crashes>>

SweepDone(s) ==
    /\ sweep[s].pc = "next" /\ sweep[s].todo = {}
    /\ sweep' = [sweep EXCEPT ![s] = Idle]
    /\ UNCHANGED <<memVars, dbVars, ageVars, job, chargerVars, faults, crashes>>

\* A failed read counts as no meter value.
ReadSamples_Destructive(s) ==
    /\ sweep[s].pc = "read"
    /\ sweep' = [sweep EXCEPT ![s].pc = "write", ![s].found = samples[sweep[s].t]]
    /\ samples' = [samples EXCEPT ![sweep[s].t] = NoSample]
    /\ UNCHANGED <<memVars, tx, dbPtr, ageVars, job, chargerVars, faults, crashes>>
ReadSamples(s) ==
    /\ sweep[s].pc = "read"
    /\ \/ /\ sweep' = [sweep EXCEPT ![s].pc = "write", ![s].found = samples[sweep[s].t]]
          /\ UNCHANGED faults
       \/ /\ sweep' = [sweep EXCEPT ![s].pc = "write"]
          /\ Fails("ReadTransactionMeterValue")
    /\ UNCHANGED <<memVars, dbVars, ageVars, job, chargerVars, crashes>>

\* The document finishAbandonedTransaction makes of its copy.
SystemFigures(c, found) ==
    IF found = NoSample THEN FinishedBy(AbortedBySystem, c, 0)
    ELSE FinishedBy(StoppedBySystem, c, found)

WriteFinished_StillOpen(s) ==
    /\ sweep[s].pc = "write"
    /\ UpdateTransaction(sweep[s].t,
            [SystemFigures(tx[sweep[s].t].connector, sweep[s].found) EXCEPT !.st = "open"])
    /\ sweep' = [sweep EXCEPT ![s].pc = "release", ![s].found = NoSample]
    /\ UNCHANGED <<memVars, dbPtr, samples, ageVars, job, chargerVars, crashes>>
WriteFinished(s) ==
    /\ sweep[s].pc = "write"
    /\ \/ UpdateTransaction(sweep[s].t,
                SystemFigures(tx[sweep[s].t].connector, sweep[s].found))
       \/ UNCHANGED tx /\ Fails("UpdateTransaction")
    /\ sweep' = [sweep EXCEPT ![s].pc = "release", ![s].found = NoSample]
    /\ UNCHANGED <<memVars, dbPtr, samples, ageVars, job, chargerVars, crashes>>

\* Under h.mux; the connector is released only if it still holds the
\* transaction.
ReleaseConnector(s) ==
    /\ MuxFree
    /\ sweep[s].pc = "release"
    /\ LET t == sweep[s].t
           c == tx[t].connector
       IN /\ registered' = registered \ {t}
          /\ IF ptr[c] = t
             THEN ptr' = [ptr EXCEPT ![c] = NoTx] /\ UpdateConnector(c, NoTx)
             ELSE UNCHANGED <<ptr, dbPtr, faults>>
    /\ sweep' = [sweep EXCEPT ![s].pc = "purge"]
    /\ UNCHANGED <<up, nextId, tx, samples, ageVars, job, chargerVars, crashes>>

PurgeSamples(s) ==
    /\ sweep[s].pc = "purge"
    /\ DeleteTransactionMeterValues(sweep[s].t)
    /\ sweep' = [sweep EXCEPT ![s].pc = "next", ![s].t = NoTx]
    /\ UNCHANGED <<memVars, tx, dbPtr, startAge, job, chargerVars, crashes>>

SweepStep(s) == \/ Query(s) \/ PickTransaction(s) \/ SweepDone(s)
                \/ ReadSamples(s) \/ WriteFinished(s)
                \/ ReleaseConnector(s) \/ PurgeSamples(s)

(***************************************************************************)
(* The process dies, and comes back through OnStart.                       *)
(***************************************************************************)
Crash ==
    /\ up
    /\ crashes < MaxCrashes
    /\ crashes' = crashes + 1
    /\ up' = FALSE
    /\ nextId' = 1
    /\ ptr' = [c \in Connectors |-> NoTx]
    /\ registered' = {}
    /\ job' = Free
    /\ sweep' = [s \in Sweepers |-> Idle]
    /\ UNCHANGED <<dbVars, ageVars, chargerVars, faults>>

\* releaseFinishedTransaction: a pointer is cleared only when its transaction
\* is positively known to be finished.  "unread" are the connectors whose
\* lookup fails, "unsaved" the ones whose UpdateConnector does.
KnownFinished_Any(c) == dbPtr[c] # NoTx
KnownFinished_Never(c) == FALSE
KnownFinished(c) == dbPtr[c] # NoTx /\ Finished(dbPtr[c])

LoadConnectors_OnAGuess(unread, unsaved) ==
    LET released == {c \in Connectors : c \in unread \/ KnownFinished(c)}
    IN /\ ptr' = [c \in Connectors |-> IF c \in released THEN NoTx ELSE dbPtr[c]]
       /\ registered' = {dbPtr[c] : c \in Connectors \ released} \ {NoTx}
       /\ dbPtr' = [c \in Connectors |-> IF c \in released \ unsaved THEN NoTx ELSE dbPtr[c]]
LoadConnectors_NotSaved(unread, unsaved) ==
    LET released == {c \in Connectors \ unread : KnownFinished(c)}
    IN /\ ptr' = [c \in Connectors |-> IF c \in released THEN NoTx ELSE dbPtr[c]]
       /\ registered' = {dbPtr[c] : c \in Connectors \ released} \ {NoTx}
       /\ UNCHANGED dbPtr
LoadConnectors(unread, unsaved) ==
    LET released == {c \in Connectors \ unread : KnownFinished(c)}
    IN /\ ptr' = [c \in Connectors |-> IF c \in released THEN NoTx ELSE dbPtr[c]]
       /\ registered' = {dbPtr[c] : c \in Connectors \ released} \ {NoTx}
       /\ dbPtr' = [c \in Connectors |-> IF c \in released \ unsaved THEN NoTx ELSE dbPtr[c]]

LoadLastId_Skips ==
    \/ StoredIds = {} /\ nextId' = 1
    \/ \E last \in NewestOf(StoredIds) : nextId' = last + 2
LoadLastId ==
    \/ StoredIds = {} /\ nextId' = 1
    \/ \E last \in NewestOf(StoredIds) : nextId' = last + 1

OnStart ==
    /\ ~up
    /\ up' = TRUE
    /\ \/ LoadConnectors({}, {}) /\ LoadLastId /\ UNCHANGED faults
       \/ /\ \E unread \in SUBSET Connectors : LoadConnectors(unread, {})
          /\ LoadLastId
          /\ Fails("GetTransaction")
       \/ /\ \E unsaved \in SUBSET Connectors : LoadConnectors({}, unsaved)
          /\ LoadLastId
          /\ Fails("UpdateConnector")
       \/ LoadConnectors({}, {}) /\ nextId' = 1 /\ Fails("GetLastTransaction")
    /\ UNCHANGED <<tx, samples, ageVars, job, sweep, chargerVars, crashes>>

-----------------------------------------------------------------------------
Init ==
    /\ up = TRUE
    /\ nextId = 1
    /\ ptr = [c \in Connectors |-> NoTx]
    /\ registered = {}
    /\ tx = [t \in TxIds |-> Absent]
    /\ dbPtr = [c \in Connectors |-> NoTx]
    /\ samples = [t \in TxIds |-> NoSample]
    /\ startAge = [t \in TxIds |-> 0]
    /\ sampleAge = [t \in TxIds |-> 0]
    /\ job = Free
    /\ sweep = [s \in Sweepers |-> Idle]
    /\ session = [c \in Connectors |-> NoSession]
    /\ stopQ = [t \in TxIds |-> NoStop]
    /\ faults = 0
    /\ crashes = 0

JobStep == AddTransaction \/ LinkConnector \/ StopWrite \/ StopPurge \/ StopRelease

Next ==
    \/ \E c \in Connectors : PlugIn(c) \/ Draw(c) \/ Unplug(c)
    \/ Tick
    \/ \E c \in Connectors : OnStartTransaction(c)
    \/ \E t \in TxIds : OnStopTransaction(t)
    \/ JobStep
    \/ \E c \in Connectors : OnMeterValues(c)
    \/ \E c \in Connectors, available \in BOOLEAN : OnStatusNotification(c, available)
    \/ \E cp \in ChargePoints : OnBootNotification(cp)
    \/ SweepTransactions
    \/ \E s \in Sweepers : SweepStep(s)
    \/ Crash
    \/ OnStart

Spec == Init /\ [][Next]_vars

\* The goroutines run on: a handler that has the mutex reaches its end, a
\* sweep works through its list, the ticker fires again, time passes and a
\* dead process is started again.  Charge points promise nothing.
Fairness ==
    /\ WF_vars(Tick)
    /\ WF_vars(JobStep)
    /\ WF_vars(OnStart)
    /\ WF_vars(SweepTransactions)
    /\ \A s \in Sweepers : SF_vars(SweepStep(s))

FairSpec == Spec /\ Fairness

-----------------------------------------------------------------------------
(***************************************************************************)
(* Properties.                                                             *)
(***************************************************************************)
\* Every variable has its type; the mutex holder and the sweeps know the
\* transaction and the connector their next step is about.
TypeOK ==
    /\ up \in BOOLEAN
    /\ nextId \in 1..(MaxTx + 1)
    /\ ptr \in [Connectors -> TxIds \cup {NoTx}]
    /\ registered \subseteq TxIds
    /\ tx \in [TxIds -> TxDoc]
    /\ dbPtr \in [Connectors -> TxIds \cup {NoTx}]
    /\ samples \in [TxIds -> Readings]
    /\ startAge \in [TxIds -> Ages]
    /\ sampleAge \in [TxIds -> Ages]
    /\ job \in Job
    /\ sweep \in [Sweepers -> Sweep]
    /\ session \in [Connectors -> Session]
    /\ stopQ \in [TxIds -> Readings \cup {NoStop}]
    /\ faults \in 0..MaxFaults
    /\ crashes \in 0..MaxCrashes
    /\ job.pc # "free" => job.c \in Connectors /\ job.t \in TxIds
    /\ \A s \in Sweepers :
          sweep[s].pc \in {"read", "write", "release", "purge"} => sweep[s].t \in TxIds


\* The collection is a log: no id is entered twice or out of order, whoever
\* restarts in between, and a finished transaction is never open again,
\* whatever stale copy a sweep writes back.
Log == INSTANCE TransactionLog
    WITH Ids <- TxIds, Owners <- Connectors, NoOwner <- NoConnector,
         state <- [t \in TxIds |-> tx[t].st],
         owner <- [t \in TxIds |-> tx[t].connector]

ImplementsLog == Log!LogSpec

\* OnStartTransaction never inserts a second document under a stored id: the
\* counter is ahead of the collection whenever the process runs, also after a
\* death between the increment and the insert.
NoDuplicateDocument ==
    /\ job.pc = "add" => job.t \notin StoredIds
    /\ up => \A t \in StoredIds : t < nextId

\* The connector document never points at a transaction that is not there, or
\* at one of another connector: the insert comes before the link, so a process
\* that dies in between leaves an orphan for the sweep, not a dead end.
HeldTransactionExists ==
    \A c \in Connectors :
        dbPtr[c] # NoTx => dbPtr[c] \in StoredIds /\ tx[dbPtr[c]].connector = c

\* A driver whose session is running and recorded as open holds the connector:
\* no handler, sweep or restart gives it to the next driver.
LiveSessionHoldsConnector ==
    \A c \in Connectors :
        up /\ session[c].st = "on" /\ Open(session[c].id) => ptr[c] = session[c].id

\* The connector is released only once the transaction is durably finished.
ReleasedOnlyOnceFinished ==
    [][\A c \in Connectors :
           dbPtr[c] # NoTx /\ dbPtr'[c] # dbPtr[c] => ~Open(dbPtr[c])]_vars

\* The meter values of a transaction are deleted only after the transaction
\* has been saved as finished.
SamplesOutliveOpen ==
    [][\A t \in TxIds : samples[t] # NoSample /\ samples'[t] = NoSample => Finished(t)]_vars

\* Whenever no handler is at work, memory and database agree on what every
\* connector holds, and the gauge of active transactions counts no other.
MemoryMatchesDatabase ==
    MuxFree => /\ ptr = dbPtr
               /\ registered \subseteq {ptr[c] : c \in Connectors}

\* What the charge point reported in its StopTransaction stands: no sweep puts
\* its own figures in their place.
RealStopStands ==
    [][\A t \in TxIds : tx[t].reason = ByCharger => tx'[t].reason = ByCharger]_vars

\* A reconciliation after BootNotification leaves alone what is alive: it takes
\* up no transaction that started or reported within the grace period.
BootSparesLiveSessions ==
    [][\A s \in Sweepers :
           /\ sweep[s].cp # NoChargePoint
           /\ sweep[s].pc = "next" /\ sweep'[s].pc = "read"
           => ActivityAge(sweep'[s].t) >= GraceAge]_vars

\* A transaction for which no meter value arrives any more is closed in the
\* end: by its stop, or by the sweep if that was lost, its handler failed or
\* the charger fell silent.
Reports(t) == /\ samples'[t] # NoSample
              /\ samples[t] = NoSample \/ sampleAge'[t] < sampleAge[t]
AbandonedIsClosed ==
    \A t \in TxIds : <>[][~Reports(t)]_vars => <>[]~Open(t)

\* Not a property of this code: that a transaction is closed in the end when no
\* outlet is in a session for it.  After a lost stop the readings of the idle
\* outlet, which carry no id, are recorded under the transaction its connector
\* still holds, and no sweep finds it idle.
Running(t) == \E c \in Connectors :
                 session[c].st # "none" /\ (session[c].id = t \/ ptr[c] = t)
LostStopIsClosed == \A t \in TxIds : <>[]~Running(t) => <>[]~Open(t)

\* A connector that holds a finished transaction is freed without waiting for
\* the next driver.
DeadPointerReleased ==
    \A c \in Connectors, t \in TxIds :
        (ptr[c] = t /\ Finished(t)) ~> (ptr[c] # t)

=============================================================================
