------------------------- MODULE TransactionsProofs -------------------------
(***************************************************************************)
(* Proofs about Transactions, for every set of connectors, charge points   *)
(* and goroutines, every bound and every selection of failing calls.       *)
(***************************************************************************)
EXTENDS Transactions, TLAPS

\* What the goroutines carry from one step to the next: a document that
\* exists has a connector, the stop in progress knows the connector of its
\* transaction, a sweep only has transactions that exist, and nothing runs in
\* a dead process.
References ==
    /\ \A t \in TxIds : Stored(t) => tx[t].connector \in Connectors
    /\ job.pc \in {"write", "purge", "release"} =>
          Stored(job.t) /\ job.c = tx[job.t].connector
    /\ job.pc # "free" => up
    /\ \A s \in Sweepers :
          /\ sweep[s].todo \subseteq StoredIds
          /\ sweep[s].pc \in {"read", "write", "release", "purge"} =>
                sweep[s].t \in StoredIds

TypeInv == TypeOK /\ References

\* The records the handlers start from have their types.
LEMMA Records ==
    /\ Absent \in TxDoc
    /\ Free \in Job
    /\ Idle \in Sweep
    /\ NoSession \in Session
    /\ \A c \in Connectors : OpenDoc(c) \in TxDoc
  <1>0. 0 \in Readings
    BY BoundsAssumption DEF Readings
  <1>1. Absent \in TxDoc
    BY <1>0 DEF Absent, TxDoc, Reasons
  <1>2. Free \in Job
    BY <1>0 DEF Free, Job
  <1>3. Idle \in Sweep
    BY <1>0 DEF Idle, Sweep, NoSample
  <1>4. NoSession \in Session
    BY <1>0 DEF NoSession, Session
  <1>5. ASSUME NEW c \in Connectors PROVE OpenDoc(c) \in TxDoc
    BY <1>0 DEF OpenDoc, Absent, TxDoc, Reasons
  <1> QED BY <1>1, <1>2, <1>3, <1>4, <1>5

\* A session stays one when its request is answered with a transaction id.
LEMMA AnsweredSession ==
    ASSUME NEW s \in Session, NEW t \in TxIds
    PROVE  [s EXCEPT !.st = "on", !.id = t] \in Session
  BY DEF Session

LEMMA TypeInit == Init => TypeInv
  <1> SUFFICES ASSUME Init PROVE TypeInv
    OBVIOUS
  <1>1. TypeOK
    BY Records, BoundsAssumption DEF Init, TypeOK, TxIds, Ages, Readings, NoSample, Free, Idle
  <1>2. References
    BY DEF Init, References, Stored, Absent, Free, Idle
  <1> QED BY <1>1, <1>2 DEF TypeInv

LEMMA ChargerSteps ==
    ASSUME TypeInv, NEW c \in Connectors, PlugIn(c) \/ Draw(c) \/ Unplug(c)
    PROVE  TypeInv'
  <1> USE BoundsAssumption DEF TypeInv, TypeOK, References, memVars, dbVars, ageVars,
        Stored, StoredIds
  <1>1. CASE PlugIn(c)
    BY <1>1 DEF PlugIn, Session
  <1>2. CASE Draw(c)
    <2>1. session[c].energy + 1 \in Readings
      BY <1>2 DEF Draw, Session, Readings
    <2>2. session' \in [Connectors -> Session]
      BY <1>2, <2>1 DEF Draw, Session
    <2> QED BY <1>2, <2>2 DEF Draw
  <1>3. CASE Unplug(c)
    <2>1. session[c].energy \in Readings
      BY DEF Session
    <2>2. stopQ' \in [TxIds -> Readings \cup {NoStop}]
      BY <1>3, <2>1 DEF Unplug
    <2> QED BY <1>3, <2>2, Records DEF Unplug
  <1> QED BY <1>1, <1>2, <1>3

LEMMA TickStep == ASSUME TypeInv, Tick PROVE TypeInv'
  BY BoundsAssumption DEF Tick, TypeInv, TypeOK, References, memVars, dbVars, chargerVars,
       Stored, StoredIds, Older, Ages

LEMMA StartSteps ==
    ASSUME TypeInv, NEW c \in Connectors, OnStartTransaction(c)
    PROVE  TypeInv'
  <1> USE BoundsAssumption DEF TypeInv, TypeOK, References, memVars, dbVars, ageVars,
        chargerVars, Stored, StoredIds, OnStartTransaction, MuxFree
  <1>1. CASE StartBlocked(c)
    <2>1. session' \in [Connectors -> Session]
      BY <1>1, Records DEF StartBlocked, Answer
    <2> QED BY <1>1, <2>1 DEF StartBlocked, Fails
  <1>2. CASE StartRepeated(c)
    <2>1. session' \in [Connectors -> Session]
      <3>1. session[c] \in Session /\ ptr[c] \in TxIds
        BY <1>2 DEF StartRepeated
      <3>2. [session[c] EXCEPT !.st = "on", !.id = ptr[c]] \in Session
        BY <3>1, AnsweredSession
      <3> QED BY <1>2, <3>2 DEF StartRepeated, Answer
    <2> QED BY <1>2, <2>1 DEF StartRepeated
  <1>3. CASE StartRefused(c)
    <2>1. session' \in [Connectors -> Session]
      BY <1>3, Records DEF StartRefused, Answer
    <2> QED BY <1>3, <2>1 DEF StartRefused
  <1>4. ASSUME NEW cleared, Claim(c, cleared),
               dbPtr' \in [Connectors -> TxIds \cup {NoTx}], faults' \in 0..MaxFaults
        PROVE  TypeInv'
    <2>1. nextId \in TxIds /\ nextId' \in 1..(MaxTx + 1)
      BY <1>4 DEF Claim, TxIds
    <2>2. job' = [Free EXCEPT !.pc = "add", !.c = c, !.t = nextId]
      BY <1>4 DEF Claim
    <2>3. job' \in Job /\ job'.pc = "add" /\ job'.c = c /\ job'.t = nextId
      BY <2>1, <2>2, Records DEF Free, Job
    <2> QED BY <1>4, <2>1, <2>3 DEF Claim
  <1>5. CASE StartOverFinished(c)
    BY <1>4, <1>5 DEF StartOverFinished, UpdateConnector, Fails
  <1>6. CASE StartFresh(c)
    BY <1>4, <1>6 DEF StartFresh
  <1> QED BY <1>1, <1>2, <1>3, <1>5, <1>6

LEMMA AddStep == ASSUME TypeInv, AddTransaction PROVE TypeInv'
  <1> USE BoundsAssumption DEF TypeInv, TypeOK, References, memVars, dbVars, ageVars,
        chargerVars, Stored, StoredIds, AddTransaction
  <1>1. /\ job.t \in TxIds /\ job.c \in Connectors
        /\ job' \in Job /\ job'.pc = "link" /\ job'.c = job.c /\ job'.t = job.t
    BY DEF Job
  <1>2. OpenDoc(job.c) \in TxDoc /\ OpenDoc(job.c).st = "open"
        /\ OpenDoc(job.c).connector = job.c
    BY <1>1, Records DEF OpenDoc, Absent
  <1>3. /\ tx' \in [TxIds -> TxDoc]
        /\ \A t \in TxIds : Stored(t) => tx'[t] = tx[t]
        /\ \A t \in TxIds : Stored(t)' => tx'[t].connector \in Connectors
    BY <1>1, <1>2
  <1>4. startAge' \in [TxIds -> Ages] /\ faults' \in 0..MaxFaults
    BY <1>1 DEF Fails
  <1> QED BY <1>1, <1>3, <1>4

LEMMA LinkStep == ASSUME TypeInv, LinkConnector PROVE TypeInv'
  <1> USE BoundsAssumption DEF TypeInv, TypeOK, References, memVars, dbVars, ageVars,
        chargerVars, Stored, StoredIds, LinkConnector
  <1>1. job.t \in TxIds /\ job.c \in Connectors
    BY DEF Job
  <1>2. session' \in [Connectors -> Session]
    <2>1. [session[job.c] EXCEPT !.st = "on", !.id = job.t] \in Session
      BY <1>1, AnsweredSession
    <2> QED BY <1>1, <2>1 DEF Answer
  <1>3. dbPtr' \in [Connectors -> TxIds \cup {NoTx}] /\ faults' \in 0..MaxFaults
    BY <1>1 DEF UpdateConnector, Fails
  <1>4. job' \in Job /\ job'.pc = "free"
    BY Records DEF Free
  <1> QED BY <1>2, <1>3, <1>4

LEMMA StopSteps ==
    ASSUME TypeInv, NEW t \in TxIds, OnStopTransaction(t)
    PROVE  TypeInv'
  <1> USE BoundsAssumption DEF TypeInv, TypeOK, References, memVars, dbVars, ageVars,
        chargerVars, Stored, StoredIds, OnStopTransaction, MuxFree
  <1>1. CASE StopUnreadable(t)
    <2>1. faults' \in 0..MaxFaults
      BY <1>1 DEF StopUnreadable, Fails
    <2>2. stopQ' \in [TxIds -> Readings \cup {NoStop}]
      BY <1>1 DEF StopUnreadable, Acknowledge
    <2> QED BY <1>1, <2>1, <2>2 DEF StopUnreadable
  <1>2. CASE StopRepeated(t)
    <2>1. Stored(t) /\ tx[t].connector \in Connectors
      BY <1>2 DEF StopRepeated, Finished
    <2>2. job' = [Free EXCEPT !.pc = "release", !.c = tx[t].connector, !.t = t]
      BY <1>2 DEF StopRepeated
    <2>3. /\ job' \in Job /\ job'.pc = "release"
          /\ job'.c = tx[t].connector /\ job'.t = t
      BY <2>1, <2>2, Records DEF Free, Job
    <2> QED BY <1>2, <2>1, <2>3 DEF StopRepeated
  <1>3. CASE StopTaken(t)
    <2>1. Stored(t) /\ tx[t].connector \in Connectors /\ stopQ[t] \in Readings
      BY <1>3 DEF StopTaken
    <2>2. /\ job' \in Job /\ job'.pc = "write"
          /\ job'.c = tx[t].connector /\ job'.t = t
      BY <1>3, <2>1 DEF StopTaken, Job
    <2> QED BY <1>3, <2>1, <2>2 DEF StopTaken
  <1> QED BY <1>1, <1>2, <1>3

\* A finished document of a connector has its type.
LEMMA FinishedDoc ==
    ASSUME NEW reason \in {ByCharger, StoppedBySystem, AbortedBySystem},
           NEW c \in Connectors, NEW meter \in Readings
    PROVE  /\ FinishedBy(reason, c, meter) \in TxDoc
           /\ FinishedBy(reason, c, meter).st = "finished"
           /\ FinishedBy(reason, c, meter).connector = c
  BY DEF FinishedBy, TxDoc, Reasons

LEMMA StopWriteStep == ASSUME TypeInv, StopWrite PROVE TypeInv'
  <1> USE BoundsAssumption DEF TypeInv, TypeOK, References, memVars, dbVars, ageVars,
        chargerVars, Stored, StoredIds, StopWrite
  <1>1. /\ job.t \in StoredIds /\ job.c = tx[job.t].connector
        /\ job.c \in Connectors /\ job.meter \in Readings
    BY DEF Job
  <1>2. /\ job' \in Job /\ job'.pc \in {"purge", "release"}
        /\ job'.c = job.c /\ job'.t = job.t
    BY DEF Job
  <1>3. /\ tx' \in [TxIds -> TxDoc]
        /\ \A t \in TxIds : Stored(t)' = Stored(t) /\ tx'[t].connector = tx[t].connector
    <2> DEFINE doc == FinishedBy(ByCharger, job.c, job.meter)
    <2>1. doc \in TxDoc /\ doc.st = "finished" /\ doc.connector = job.c
      BY <1>1, FinishedDoc
    <2>2. tx' = tx \/ tx' = [tx EXCEPT ![job.t] = doc]
      BY DEF UpdateTransaction
    <2> HIDE DEF doc
    <2> QED BY <1>1, <2>1, <2>2
  <1>4. faults' \in 0..MaxFaults
    BY DEF UpdateTransaction, Fails
  <1> QED BY <1>1, <1>2, <1>3, <1>4

LEMMA StopPurgeStep == ASSUME TypeInv, StopPurge PROVE TypeInv'
  <1> USE BoundsAssumption DEF TypeInv, TypeOK, References, memVars, dbVars, ageVars,
        chargerVars, Stored, StoredIds, StopPurge
  <1>1. /\ job' \in Job /\ job'.pc = "release"
        /\ job'.c = job.c /\ job'.t = job.t
    BY DEF Job
  <1>2. /\ samples' \in [TxIds -> Readings] /\ sampleAge' \in [TxIds -> Ages]
        /\ faults' \in 0..MaxFaults
    BY DEF DeleteTransactionMeterValues, Fails, Readings, Ages, NoSample
  <1> QED BY <1>1, <1>2

LEMMA StopReleaseStep == ASSUME TypeInv, StopRelease PROVE TypeInv'
  <1> USE BoundsAssumption DEF TypeInv, TypeOK, References, memVars, dbVars, ageVars,
        chargerVars, Stored, StoredIds, StopRelease
  <1>1. job' \in Job /\ job'.pc = "free"
    BY Records DEF Free
  <1>2. /\ dbPtr' \in [Connectors -> TxIds \cup {NoTx}]
        /\ ptr' \in [Connectors -> TxIds \cup {NoTx}]
        /\ faults' \in 0..MaxFaults
    BY DEF UpdateConnector, Fails
  <1>3. stopQ' \in [TxIds -> Readings \cup {NoStop}]
    BY DEF Acknowledge
  <1> QED BY <1>1, <1>2, <1>3

LEMMA MeterStep ==
    ASSUME TypeInv, NEW c \in Connectors, OnMeterValues(c)
    PROVE  TypeInv'
  <1> USE BoundsAssumption DEF TypeInv, TypeOK, References, memVars, dbVars, ageVars,
        chargerVars, Stored, StoredIds, OnMeterValues
  <1>1. RegisterOf(c) \subseteq Readings /\ session[c].id \in TxIds \cup {NoTx}
    BY DEF Session, RegisterOf
  <1>2. samples' \in [TxIds -> Readings] /\ sampleAge' \in [TxIds -> Ages]
    <2>1. PICK t \in TxIds, reading \in Readings, age \in Ages : Record(t, reading, age)
      BY <1>1
    <2> QED BY <2>1 DEF Record
  <1> QED BY <1>2

LEMMA SpawnSteps ==
    ASSUME TypeInv,
           \/ \E c \in Connectors, available \in BOOLEAN : OnStatusNotification(c, available)
           \/ \E cp \in ChargePoints : OnBootNotification(cp)
           \/ SweepTransactions
    PROVE  TypeInv'
  <1> USE BoundsAssumption DEF TypeInv, TypeOK, References, memVars, dbVars, ageVars,
        chargerVars, Stored, StoredIds, MuxFree
  <1>1. ASSUME NEW g \in Sweepers, NEW cp \in ChargePoints \cup {NoChargePoint}, Spawn(g, cp)
        PROVE  /\ sweep' \in [Sweepers -> Sweep]
               /\ \A s \in Sweepers : \/ sweep'[s] = sweep[s]
                                      \/ sweep'[s].pc = "query" /\ sweep'[s].todo = {}
    <2>1. sweep' = [sweep EXCEPT ![g] = [Idle EXCEPT !.pc = "query", !.cp = cp]]
      BY <1>1 DEF Spawn
    <2>2. [Idle EXCEPT !.pc = "query", !.cp = cp] \in Sweep
      BY Records DEF Idle, Sweep
    <2> QED BY <2>1, <2>2 DEF Idle
  <1>2. ASSUME NEW c \in Connectors, NEW available \in BOOLEAN,
               OnStatusNotification(c, available)
        PROVE  TypeInv'
    <2>1. dbPtr' \in [Connectors -> TxIds \cup {NoTx}] /\ faults' \in 0..MaxFaults
      BY <1>2 DEF OnStatusNotification, UpdateConnector, Fails
    <2>2. CASE available
      BY <1>1, <1>2, <2>1, <2>2 DEF OnStatusNotification, Sweepers
    <2>3. CASE ~available
      BY <1>2, <2>1, <2>3 DEF OnStatusNotification
    <2> QED BY <2>2, <2>3
  <1>3. ASSUME NEW cp \in ChargePoints, OnBootNotification(cp) PROVE TypeInv'
    BY <1>1, <1>3 DEF OnBootNotification, Sweepers
  <1>4. CASE SweepTransactions
    BY <1>1, <1>4 DEF SweepTransactions, Sweepers
  <1> QED BY <1>2, <1>3, <1>4

\* The steps of a sweep that only change its own record: it is enough that the
\* new record has its type and its transactions exist.
LEMMA OwnRecordStep ==
    ASSUME TypeInv, NEW s \in Sweepers, NEW r \in Sweep,
           sweep' = [sweep EXCEPT ![s] = r],
           r.todo \subseteq StoredIds,
           r.pc \in {"read", "write", "release", "purge"} => r.t \in StoredIds,
           faults' \in 0..MaxFaults,
           UNCHANGED <<memVars, dbVars, ageVars, job, chargerVars, crashes>>
    PROVE  TypeInv'
  BY DEF TypeInv, TypeOK, References, memVars, dbVars, ageVars, chargerVars, Stored, StoredIds

LEMMA QuerySteps ==
    ASSUME TypeInv, NEW s \in Sweepers,
           Query(s) \/ PickTransaction(s) \/ SweepDone(s) \/ ReadSamples(s)
    PROVE  TypeInv'
  <1> USE BoundsAssumption DEF TypeInv, TypeOK, References
  <1>0. sweep[s] \in Sweep
    OBVIOUS
  <1>1. CASE Query(s)
    <2>1. faults' \in 0..MaxFaults
      BY <1>1 DEF Query, Fails
    <2>2. PICK found \in SUBSET StoredIds :
             \/ sweep' = [sweep EXCEPT ![s] = [sweep[s] EXCEPT !.pc = "next", !.todo = found]]
             \/ sweep' = [sweep EXCEPT ![s] = Idle]
      BY <1>1 DEF Query, GetUnfinishedTransactions, GetUnfinishedTransactionsForChargePoint,
           StoredIds, Stored, Open
    <2>3. CASE sweep' = [sweep EXCEPT ![s] = [sweep[s] EXCEPT !.pc = "next", !.todo = found]]
      <3> DEFINE r == [sweep[s] EXCEPT !.pc = "next", !.todo = found]
      <3>1. r \in Sweep /\ r.todo = found /\ r.pc = "next"
        BY <1>0 DEF Sweep, StoredIds
      <3> QED BY <1>1, <2>1, <2>3, <3>1, OwnRecordStep DEF Query
    <2>4. CASE sweep' = [sweep EXCEPT ![s] = Idle]
      BY <1>1, <2>1, <2>4, Records, OwnRecordStep DEF Query, Idle
    <2> QED BY <2>2, <2>3, <2>4
  <1>2. CASE PickTransaction(s)
    <2>1. faults' \in 0..MaxFaults
      <3>1. UNCHANGED faults \/ Fails("ReadTransactionMeterValue")
        BY <1>2 DEF PickTransaction
      <3> QED BY <3>1 DEF Fails
    <2>2. PICK t \in sweep[s].todo :
             \/ sweep' = [sweep EXCEPT ![s] = [sweep[s] EXCEPT !.todo = @ \ {t}]]
             \/ sweep' = [sweep EXCEPT ![s] = [sweep[s] EXCEPT !.pc = "read", !.t = t,
                                                              !.todo = @ \ {t}]]
      <3>1. PICK t \in sweep[s].todo :
               \/ sweep' = [sweep EXCEPT ![s].todo = @ \ {t}]
               \/ sweep' = [sweep EXCEPT ![s].pc = "read", ![s].t = t, ![s].todo = @ \ {t}]
        BY <1>2 DEF PickTransaction
      <3>2. CASE sweep' = [sweep EXCEPT ![s].todo = @ \ {t}]
        BY <3>2
      <3>3. CASE sweep' = [sweep EXCEPT ![s].pc = "read", ![s].t = t, ![s].todo = @ \ {t}]
        BY <3>3
      <3> QED BY <3>1, <3>2, <3>3
    <2>3. t \in StoredIds /\ sweep[s].todo \subseteq StoredIds /\ sweep[s].pc = "next"
      BY <1>2 DEF PickTransaction
    <2>4. CASE sweep' = [sweep EXCEPT ![s] = [sweep[s] EXCEPT !.todo = @ \ {t}]]
      <3> DEFINE r == [sweep[s] EXCEPT !.todo = @ \ {t}]
      <3>1. r \in Sweep /\ r.todo \subseteq StoredIds /\ r.pc = "next"
        BY <1>0, <2>3 DEF Sweep, StoredIds
      <3> QED BY <1>2, <2>1, <2>4, <3>1, OwnRecordStep DEF PickTransaction
    <2>5. CASE sweep' = [sweep EXCEPT ![s] = [sweep[s] EXCEPT !.pc = "read", !.t = t,
                                                              !.todo = @ \ {t}]]
      <3> DEFINE r == [sweep[s] EXCEPT !.pc = "read", !.t = t, !.todo = @ \ {t}]
      <3>1. r \in Sweep /\ r.todo \subseteq StoredIds /\ r.t = t
        BY <1>0, <2>3 DEF Sweep, StoredIds
      <3>2. sweep' = [sweep EXCEPT ![s] = r]
        BY <2>5
      <3> HIDE DEF r
      <3> QED BY <1>2, <2>1, <2>3, <3>1, <3>2, OwnRecordStep DEF PickTransaction
    <2> QED BY <2>2, <2>4, <2>5
  <1>3. CASE SweepDone(s)
    BY <1>3, Records, OwnRecordStep DEF SweepDone, Idle
  <1>4. CASE ReadSamples(s)
    <2>1. faults' \in 0..MaxFaults
      BY <1>4 DEF ReadSamples, Fails
    <2>2. PICK r \in Sweep :
             /\ sweep' = [sweep EXCEPT ![s] = r]
             /\ r.todo = sweep[s].todo /\ r.t = sweep[s].t
      <3>1. CASE sweep' = [sweep EXCEPT ![s].pc = "write", ![s].found = samples[sweep[s].t]]
        <4> DEFINE r == [sweep[s] EXCEPT !.pc = "write", !.found = samples[sweep[s].t]]
        <4>1. samples[sweep[s].t] \in Readings
          BY <1>4 DEF ReadSamples, StoredIds
        <4>2. r \in Sweep /\ r.todo = sweep[s].todo /\ r.t = sweep[s].t
          BY <1>0, <4>1 DEF Sweep
        <4>3. sweep' = [sweep EXCEPT ![s] = r]
          BY <3>1
        <4> QED BY <4>2, <4>3
      <3>2. CASE sweep' = [sweep EXCEPT ![s].pc = "write"]
        <4> DEFINE r == [sweep[s] EXCEPT !.pc = "write"]
        <4>1. r \in Sweep /\ r.todo = sweep[s].todo /\ r.t = sweep[s].t
          BY <1>0 DEF Sweep
        <4>2. sweep' = [sweep EXCEPT ![s] = r]
          BY <3>2
        <4> QED BY <4>1, <4>2
      <3> QED BY <1>4, <3>1, <3>2 DEF ReadSamples
    <2>4. sweep[s].t \in StoredIds
      BY <1>4 DEF ReadSamples
    <2> QED BY <1>4, <2>1, <2>2, <2>4, OwnRecordStep DEF ReadSamples
  <1> QED BY <1>1, <1>2, <1>3, <1>4

LEMMA WriteStep ==
    ASSUME TypeInv, NEW s \in Sweepers, WriteFinished(s)
    PROVE  TypeInv'
  <1> USE BoundsAssumption DEF TypeInv, TypeOK, References, memVars, dbVars, ageVars,
        chargerVars, Stored, StoredIds
  <1>1. /\ sweep[s].t \in StoredIds /\ tx[sweep[s].t].connector \in Connectors
        /\ sweep[s].found \in Readings /\ sweep[s] \in Sweep
    BY DEF WriteFinished, Sweep
  <1> DEFINE doc == SystemFigures(tx[sweep[s].t].connector, sweep[s].found)
  <1>2. doc \in TxDoc /\ doc.st = "finished" /\ doc.connector = tx[sweep[s].t].connector
    <2>1. 0 \in Readings
      BY DEF Readings
    <2> QED BY <1>1, <2>1, FinishedDoc DEF SystemFigures
  <1>3. tx' = tx \/ tx' = [tx EXCEPT ![sweep[s].t] = doc]
    BY DEF WriteFinished, UpdateTransaction
  <1> HIDE DEF doc
  <1>4. /\ tx' \in [TxIds -> TxDoc]
        /\ \A t \in TxIds : Stored(t)' = Stored(t) /\ tx'[t].connector = tx[t].connector
    BY <1>1, <1>2, <1>3
  <1> DEFINE r == [sweep[s] EXCEPT !.pc = "release", !.found = NoSample]
  <1>5. sweep' = [sweep EXCEPT ![s] = r]
    BY DEF WriteFinished
  <1>6. r \in Sweep /\ r.todo = sweep[s].todo /\ r.t = sweep[s].t
    <2>1. NoSample \in Readings
      BY DEF Readings, NoSample
    <2> QED BY <1>1, <2>1 DEF Sweep
  <1> HIDE DEF r
  <1>7. faults' \in 0..MaxFaults
    BY DEF WriteFinished, UpdateTransaction, Fails
  <1>8. UNCHANGED <<memVars, dbPtr, samples, ageVars, job, chargerVars, crashes>>
    BY DEF WriteFinished
  <1>9. TypeOK'
    BY <1>1, <1>4, <1>5, <1>6, <1>7, <1>8
  <1>10. References'
    BY <1>1, <1>4, <1>5, <1>6, <1>8
  <1> QED BY <1>9, <1>10

LEMMA ReleaseStep ==
    ASSUME TypeInv, NEW s \in Sweepers, ReleaseConnector(s)
    PROVE  TypeInv'
  <1> USE BoundsAssumption DEF TypeInv, TypeOK, References, memVars, dbVars, ageVars,
        chargerVars, Stored, StoredIds
  <1>1. sweep[s].t \in StoredIds /\ sweep[s] \in Sweep
    BY DEF ReleaseConnector
  <1>2. /\ ptr' \in [Connectors -> TxIds \cup {NoTx}]
        /\ dbPtr' \in [Connectors -> TxIds \cup {NoTx}]
        /\ faults' \in 0..MaxFaults
        /\ registered' \subseteq TxIds
    BY <1>1 DEF ReleaseConnector, UpdateConnector, Fails
  <1> DEFINE r == [sweep[s] EXCEPT !.pc = "purge"]
  <1>3. sweep' = [sweep EXCEPT ![s] = r]
    BY DEF ReleaseConnector
  <1>4. r \in Sweep /\ r.todo = sweep[s].todo /\ r.t = sweep[s].t
    BY <1>1 DEF Sweep
  <1> HIDE DEF r
  <1>5. UNCHANGED <<up, nextId, tx, samples, ageVars, job, chargerVars, crashes>>
    BY DEF ReleaseConnector
  <1> QED BY <1>1, <1>2, <1>3, <1>4, <1>5

LEMMA PurgeStep ==
    ASSUME TypeInv, NEW s \in Sweepers, PurgeSamples(s)
    PROVE  TypeInv'
  <1> USE BoundsAssumption DEF TypeInv, TypeOK, References, memVars, dbVars, ageVars,
        chargerVars, Stored, StoredIds
  <1>1. sweep[s] \in Sweep
    OBVIOUS
  <1>2. /\ samples' \in [TxIds -> Readings] /\ sampleAge' \in [TxIds -> Ages]
        /\ faults' \in 0..MaxFaults
    BY DEF PurgeSamples, DeleteTransactionMeterValues, Fails, Readings, Ages, NoSample
  <1> DEFINE r == [sweep[s] EXCEPT !.pc = "next", !.t = NoTx]
  <1>3. sweep' = [sweep EXCEPT ![s] = r]
    BY DEF PurgeSamples
  <1>4. r \in Sweep /\ r.todo = sweep[s].todo /\ r.pc = "next"
    BY <1>1 DEF Sweep
  <1> HIDE DEF r
  <1>5. UNCHANGED <<memVars, tx, dbPtr, startAge, job, chargerVars, crashes>>
    BY DEF PurgeSamples
  <1> QED BY <1>2, <1>3, <1>4, <1>5

LEMMA CrashStep == ASSUME TypeInv, Crash PROVE TypeInv'
  <1> USE BoundsAssumption DEF TypeInv, TypeOK, References, memVars, dbVars, ageVars,
        chargerVars, Stored, StoredIds
  <1>1. job' \in Job /\ job'.pc = "free"
    BY Records DEF Crash, Free
  <1>2. /\ sweep' \in [Sweepers -> Sweep]
        /\ \A s \in Sweepers : sweep'[s].pc = "idle" /\ sweep'[s].todo = {}
    BY Records DEF Crash, Idle
  <1>3. /\ up' = FALSE /\ nextId' \in 1..(MaxTx + 1) /\ registered' \subseteq TxIds
        /\ ptr' \in [Connectors -> TxIds \cup {NoTx}]
        /\ crashes' \in 0..MaxCrashes
        /\ UNCHANGED <<dbVars, ageVars, chargerVars, faults>>
    BY DEF Crash
  <1>4. TypeOK'
    BY <1>1, <1>2, <1>3
  <1>5. References'
    BY <1>1, <1>2, <1>3
  <1> QED BY <1>4, <1>5

LEMMA LoadLastIdType == ASSUME TypeInv, LoadLastId PROVE nextId' \in 1..(MaxTx + 1)
  BY BoundsAssumption DEF LoadLastId, NewestOf, StoredIds, TxIds

LEMMA OnStartStep == ASSUME TypeInv, OnStart PROVE TypeInv'
  <1> USE BoundsAssumption DEF TypeInv, TypeOK, References, memVars, dbVars, ageVars,
        chargerVars, Stored, StoredIds
  <1>1. nextId' \in 1..(MaxTx + 1)
    BY LoadLastIdType DEF OnStart
  <1>2. faults' \in 0..MaxFaults
    BY DEF OnStart, Fails
  <1>3. PICK unread \in SUBSET Connectors, unsaved \in SUBSET Connectors :
           LoadConnectors(unread, unsaved)
    BY DEF OnStart
  <1>4. /\ ptr' \in [Connectors -> TxIds \cup {NoTx}]
        /\ dbPtr' \in [Connectors -> TxIds \cup {NoTx}]
        /\ registered' \subseteq TxIds
    BY <1>3 DEF LoadConnectors
  <1>5. up' = TRUE /\ UNCHANGED <<tx, samples, ageVars, job, sweep, chargerVars, crashes>>
    BY DEF OnStart
  <1> QED BY <1>1, <1>2, <1>4, <1>5

LEMMA TypeStep == TypeInv /\ [Next]_vars => TypeInv'
  <1> SUFFICES ASSUME TypeInv, [Next]_vars PROVE TypeInv'
    OBVIOUS
  <1>1. CASE UNCHANGED vars
    BY <1>1 DEF TypeInv, TypeOK, References, vars, memVars, dbVars, ageVars, chargerVars,
         Stored, StoredIds
  <1>2. CASE JobStep
    BY <1>2, AddStep, LinkStep, StopWriteStep, StopPurgeStep, StopReleaseStep DEF JobStep
  <1>3. CASE \E s \in Sweepers : SweepStep(s)
    BY <1>3, QuerySteps, WriteStep, ReleaseStep, PurgeStep DEF SweepStep
  <1> QED BY <1>1, <1>2, <1>3, ChargerSteps, TickStep, StartSteps, StopSteps, MeterStep,
       SpawnSteps, CrashStep, OnStartStep DEF Next

\* Every variable keeps its type and every step of a handler or of a sweep is
\* about a transaction that exists, for every instance and every fault.
THEOREM TypeCorrect == Spec => []TypeOK
  <1>1. TypeInv => TypeOK
    BY DEF TypeInv
  <1> QED BY <1>1, TypeInit, TypeStep, PTL DEF Spec

-----------------------------------------------------------------------------
(***************************************************************************)
(* Transaction ids.  The counter is ahead of every stored id while the     *)
(* process runs; between the increment in OnStartTransaction and the       *)
(* insert, that alone does not say that the id to be inserted is new, so   *)
(* the invariant also orders the id in hand against the stored ones.       *)
(***************************************************************************)
IdsInv ==
    /\ up => \A t \in StoredIds : t < nextId
    /\ job.pc = "add" => job.t < nextId /\ \A t \in StoredIds : t < job.t

\* How a step may touch the documents: most leave the collection alone, a stop
\* or a sweep rewrites a stored document as finished, and only AddTransaction
\* inserts.
Rewrites(t) ==
    /\ Stored(t)
    /\ \E doc \in TxDoc : /\ doc.st = "finished" /\ doc.connector = tx[t].connector
                          /\ tx' = [tx EXCEPT ![t] = doc]

Inserts ==
    /\ job.pc = "add" /\ ~Stored(job.t)
    /\ tx' = [tx EXCEPT ![job.t] = OpenDoc(job.c)]

LEMMA StopWriteRewrites ==
    ASSUME TypeInv, StopWrite
    PROVE  UNCHANGED tx \/ Rewrites(job.t)
  <1>1. job.c \in Connectors /\ job.meter \in Readings /\ Stored(job.t)
        /\ job.c = tx[job.t].connector
    BY DEF TypeInv, TypeOK, References, StopWrite, Job
  <1> QED BY <1>1, FinishedDoc DEF StopWrite, UpdateTransaction, Rewrites

LEMMA WriteFinishedRewrites ==
    ASSUME TypeInv, NEW s \in Sweepers, WriteFinished(s)
    PROVE  UNCHANGED tx \/ Rewrites(sweep[s].t)
  <1>1. /\ tx[sweep[s].t].connector \in Connectors /\ sweep[s].found \in Readings
        /\ sweep[s].t \in TxIds /\ Stored(sweep[s].t)
    BY DEF TypeInv, TypeOK, References, WriteFinished, Sweep, StoredIds
  <1>2. 0 \in Readings
    BY BoundsAssumption DEF Readings
  <1> DEFINE doc == SystemFigures(tx[sweep[s].t].connector, sweep[s].found)
  <1>3. doc \in TxDoc /\ doc.st = "finished" /\ doc.connector = tx[sweep[s].t].connector
    BY <1>1, <1>2, FinishedDoc DEF SystemFigures
  <1>4. tx' = tx \/ tx' = [tx EXCEPT ![sweep[s].t] = doc]
    BY DEF WriteFinished, UpdateTransaction
  <1> HIDE DEF doc
  <1> QED BY <1>1, <1>3, <1>4 DEF Rewrites

LEMMA DocumentSteps ==
    ASSUME TypeInv, [Next]_vars
    PROVE  UNCHANGED tx \/ Inserts \/ \E t \in TxIds : Rewrites(t)
  <1>1. CASE UNCHANGED vars
    BY <1>1 DEF vars, dbVars
  <1>2. CASE \E c \in Connectors : PlugIn(c) \/ Draw(c) \/ Unplug(c)
    BY <1>2 DEF PlugIn, Draw, Unplug, dbVars
  <1>3. CASE Tick
    BY <1>3 DEF Tick, dbVars
  <1>4. CASE \E c \in Connectors : OnStartTransaction(c)
    BY <1>4 DEF OnStartTransaction, StartBlocked, StartRepeated, StartRefused,
         StartOverFinished, StartFresh, Claim, dbVars
  <1>5. CASE \E t \in TxIds : OnStopTransaction(t)
    BY <1>5 DEF OnStopTransaction, dbVars
  <1>6. CASE AddTransaction
    BY <1>6 DEF AddTransaction, Inserts
  <1>7. CASE LinkConnector \/ StopPurge \/ StopRelease
    BY <1>7 DEF LinkConnector, StopPurge, StopRelease
  <1>8. CASE StopWrite
    <2>1. job.t \in TxIds
      BY <1>8 DEF TypeInv, TypeOK, StopWrite
    <2> QED BY <1>8, <2>1, StopWriteRewrites
  <1>9. CASE \E c \in Connectors : OnMeterValues(c)
    BY <1>9 DEF OnMeterValues
  <1>10. CASE \/ \E c \in Connectors, available \in BOOLEAN : OnStatusNotification(c, available)
              \/ \E cp \in ChargePoints : OnBootNotification(cp)
              \/ SweepTransactions
    BY <1>10 DEF OnStatusNotification, OnBootNotification, SweepTransactions, dbVars
  <1>11. ASSUME NEW s \in Sweepers, SweepStep(s)
         PROVE  UNCHANGED tx \/ \E t \in TxIds : Rewrites(t)
    <2>1. CASE WriteFinished(s)
      <3>1. sweep[s].t \in TxIds
        BY <2>1 DEF TypeInv, TypeOK, WriteFinished
      <3> QED BY <2>1, <3>1, WriteFinishedRewrites
    <2>2. CASE ~WriteFinished(s)
      BY <1>11, <2>2 DEF SweepStep, Query, PickTransaction, SweepDone, ReadSamples,
           ReleaseConnector, PurgeSamples, dbVars
    <2> QED BY <2>1, <2>2
  <1>12. CASE Crash \/ OnStart
    BY <1>12 DEF Crash, OnStart, dbVars
  <1> QED BY <1>1, <1>2, <1>3, <1>4, <1>5, <1>6, <1>7, <1>8, <1>9, <1>10, <1>11, <1>12
       DEF Next, JobStep

\* Documents are neither removed nor given to another connector.
LEMMA DocumentsStay ==
    ASSUME TypeInv, [Next]_vars
    PROVE  \A t \in TxIds : Stored(t) => Stored(t)' /\ tx'[t].connector = tx[t].connector
  <1>1. job.pc = "add" => job.t \in TxIds /\ job.c \in Connectors
    BY DEF TypeInv, TypeOK
  <1>2. tx \in [TxIds -> TxDoc]
    BY DEF TypeInv, TypeOK
  <1> QED BY <1>1, <1>2, DocumentSteps DEF Rewrites, Inserts, Stored

LEMMA IdsInit == Init => IdsInv
  <1> SUFFICES ASSUME Init PROVE IdsInv
    OBVIOUS
  <1>1. StoredIds = {}
    BY DEF Init, StoredIds, Stored, Absent
  <1>2. job.pc = "free"
    BY DEF Init, Free
  <1> QED BY <1>1, <1>2 DEF IdsInv

\* The steps that neither take an id nor insert, and during which the process
\* neither dies nor starts.
Quiet ==
    /\ UNCHANGED <<up, nextId>>
    /\ job'.pc = "add" => job' = job
    /\ UNCHANGED tx \/ \E t \in TxIds : Rewrites(t)

LEMMA QuietKeepsIds == ASSUME TypeInv, IdsInv, Quiet PROVE IdsInv'
  <1>1. StoredIds' = StoredIds
    BY DEF Quiet, Rewrites, StoredIds, Stored, TypeInv, TypeOK
  <1> QED BY <1>1 DEF IdsInv, Quiet

LEMMA StartTakesId ==
    ASSUME TypeInv, IdsInv, NEW c \in Connectors, OnStartTransaction(c)
    PROVE  IdsInv'
  <1>1. CASE StartBlocked(c) \/ StartRepeated(c) \/ StartRefused(c)
    BY <1>1, QuietKeepsIds DEF StartBlocked, StartRepeated, StartRefused, Quiet, memVars, dbVars
  <1>2. ASSUME NEW cleared, Claim(c, cleared) PROVE IdsInv'
    <2>1. job' = [Free EXCEPT !.pc = "add", !.c = c, !.t = nextId]
      BY <1>2 DEF Claim
    <2>2. job'.t = nextId
      BY <2>1 DEF Free
    <2>3. nextId \in Int /\ nextId' = nextId + 1 /\ UNCHANGED <<up, tx>>
      BY <1>2 DEF Claim, TypeInv, TypeOK
    <2>4. StoredIds' = StoredIds
      BY <2>3 DEF StoredIds, Stored
    <2>5. \A t \in StoredIds : t \in Int /\ t < nextId
      BY DEF OnStartTransaction, MuxFree, IdsInv, StoredIds, TxIds
    <2> QED BY <2>2, <2>3, <2>4, <2>5 DEF IdsInv
  <1> QED BY <1>1, <1>2 DEF OnStartTransaction, StartOverFinished, StartFresh

LEMMA AddKeepsIds == ASSUME TypeInv, IdsInv, AddTransaction PROVE IdsInv'
  <1>1. job.t \in TxIds /\ job'.pc = "link" /\ UNCHANGED <<up, nextId>>
    BY DEF AddTransaction, TypeInv, TypeOK, Job, memVars
  <1>2. StoredIds' \subseteq StoredIds \cup {job.t}
    BY <1>1 DEF AddTransaction, StoredIds, Stored, TypeInv, TypeOK
  <1> QED BY <1>1, <1>2 DEF IdsInv, AddTransaction

\* OnStart reads the last id, provided the query does not fail.
LEMMA StartRestoresIds ==
    ASSUME "GetLastTransaction" \notin FaultKinds, TypeInv, IdsInv, OnStart
    PROVE  IdsInv'
  <1>1. LoadLastId
    BY DEF OnStart, Fails
  <1>2. \A t \in StoredIds : t < nextId'
    BY <1>1 DEF LoadLastId, NewestOf, StoredIds, TxIds
  <1>3. StoredIds' = StoredIds /\ job' = job /\ job.pc = "free"
    BY DEF OnStart, StoredIds, Stored, TypeInv, TypeOK, References
  <1> QED BY <1>2, <1>3 DEF IdsInv

LEMMA IdsStep ==
    ASSUME "GetLastTransaction" \notin FaultKinds, TypeInv, IdsInv, [Next]_vars
    PROVE  IdsInv'
  <1> USE DEF Quiet, memVars, dbVars
  <1>1. CASE UNCHANGED vars
    BY <1>1, QuietKeepsIds DEF vars
  <1>2. CASE \E c \in Connectors : PlugIn(c) \/ Draw(c) \/ Unplug(c)
    BY <1>2, QuietKeepsIds DEF PlugIn, Draw, Unplug
  <1>3. CASE Tick
    BY <1>3, QuietKeepsIds DEF Tick
  <1>4. CASE \E t \in TxIds : OnStopTransaction(t)
    <2>1. PICK t \in TxIds : OnStopTransaction(t)
      BY <1>4
    <2>2. job'.pc = "add" => job' = job
      <3>1. CASE StopUnreadable(t)
        BY <3>1 DEF StopUnreadable
      <3>2. CASE StopRepeated(t)
        BY <3>2 DEF StopRepeated, Free
      <3>3. CASE StopTaken(t)
        BY <3>3 DEF StopTaken
      <3> QED BY <2>1, <3>1, <3>2, <3>3 DEF OnStopTransaction
    <2> QED BY <2>1, <2>2, QuietKeepsIds DEF OnStopTransaction
  <1>5. CASE LinkConnector \/ StopPurge \/ StopRelease
    <2>1. job'.pc # "add"
      BY <1>5 DEF LinkConnector, StopPurge, StopRelease, Free, TypeInv, TypeOK, Job
    <2> QED BY <1>5, <2>1, QuietKeepsIds DEF LinkConnector, StopPurge, StopRelease
  <1>6. CASE StopWrite
    <2>1. job.t \in TxIds /\ job'.pc # "add"
      BY <1>6 DEF StopWrite, TypeInv, TypeOK, Job
    <2> QED BY <1>6, <2>1, StopWriteRewrites, QuietKeepsIds DEF StopWrite
  <1>7. CASE \E c \in Connectors : OnMeterValues(c)
    BY <1>7, QuietKeepsIds DEF OnMeterValues
  <1>8. CASE \/ \E c \in Connectors, available \in BOOLEAN : OnStatusNotification(c, available)
             \/ \E cp \in ChargePoints : OnBootNotification(cp)
             \/ SweepTransactions
    BY <1>8, QuietKeepsIds DEF OnStatusNotification, OnBootNotification, SweepTransactions
  <1>9. ASSUME NEW s \in Sweepers, SweepStep(s) PROVE IdsInv'
    <2>1. CASE WriteFinished(s)
      <3>1. sweep[s].t \in TxIds
        BY <2>1 DEF TypeInv, TypeOK, WriteFinished
      <3> QED BY <2>1, <3>1, WriteFinishedRewrites, QuietKeepsIds DEF WriteFinished
    <2>2. CASE ~WriteFinished(s)
      BY <1>9, <2>2, QuietKeepsIds DEF SweepStep, Query, PickTransaction, SweepDone,
           ReadSamples, ReleaseConnector, PurgeSamples
    <2> QED BY <2>1, <2>2
  <1>10. CASE Crash
    BY <1>10 DEF Crash, IdsInv, Free
  <1> QED BY <1>1, <1>2, <1>3, <1>4, <1>5, <1>6, <1>7, <1>8, <1>9, <1>10,
       StartTakesId, AddKeepsIds, StartRestoresIds DEF Next, JobStep

\* As long as OnStart can read the last transaction, no id is ever inserted
\* twice: for any number of connectors, deaths and failures of other calls.
THEOREM NoIdReused ==
    ASSUME "GetLastTransaction" \notin FaultKinds
    PROVE  Spec => []NoDuplicateDocument
  <1>1. TypeInv /\ IdsInv => NoDuplicateDocument
    BY DEF IdsInv, NoDuplicateDocument, TypeInv, TypeOK, StoredIds, TxIds
  <1>2. TypeInv /\ IdsInv /\ [Next]_vars => TypeInv' /\ IdsInv'
    BY TypeStep, IdsStep
  <1> QED BY <1>1, <1>2, TypeInit, IdsInit, PTL DEF Spec

-----------------------------------------------------------------------------
(***************************************************************************)
(* The collection is a log.  An insert is Enter because of IdsInv, a       *)
(* rewrite of an open document is Finish, and a rewrite of a finished one  *)
(* is a stutter: it moves neither the state nor the owner.                 *)
(***************************************************************************)
LEMMA LogInitially == Init => Log!LogInit
  <1> SUFFICES ASSUME Init PROVE Log!LogInit
    OBVIOUS
  <1>1. \A t \in TxIds : tx[t] = Absent
    BY DEF Init
  <1>2. Absent.st = "absent" /\ Absent.connector = NoConnector
    BY DEF Absent
  <1> QED BY <1>1, <1>2 DEF Log!LogInit

LEMMA LogStep ==
    ASSUME TypeInv, IdsInv, [Next]_vars
    PROVE  [Log!LogNext]_(Log!logVars)
  <1> DEFINE state == [t \in TxIds |-> tx[t].st]
             owner == [t \in TxIds |-> tx[t].connector]
  <1>0. tx \in [TxIds -> TxDoc]
    BY DEF TypeInv, TypeOK
  <1>1. CASE UNCHANGED tx
    BY <1>1 DEF Log!logVars
  <1>2. CASE Inserts
    <2>1. job.t \in TxIds /\ job.c \in Connectors
      BY <1>2 DEF Inserts, TypeInv, TypeOK
    <2>2. \A u \in TxIds : state[u] # "absent" => u < job.t
      BY <1>2 DEF Inserts, IdsInv, StoredIds, Stored
    <2>3. OpenDoc(job.c).st = "open" /\ OpenDoc(job.c).connector = job.c
      BY DEF OpenDoc, Absent
    <2>4. tx' = [tx EXCEPT ![job.t] = OpenDoc(job.c)]
      BY <1>2 DEF Inserts
    <2>5. state' = [state EXCEPT ![job.t] = "open"] /\ owner' = [owner EXCEPT ![job.t] = job.c]
      BY <1>0, <2>1, <2>3, <2>4
    <2> HIDE DEF state, owner
    <2>6. \E o \in Connectors : /\ \A u \in TxIds : state[u] # "absent" => u < job.t
                                /\ state' = [state EXCEPT ![job.t] = "open"]
                                /\ owner' = [owner EXCEPT ![job.t] = o]
      BY <2>1, <2>2, <2>5
    <2>7. \E o \in Connectors : Log!Enter(job.t, o)
      BY <2>6 DEF Log!Enter, state, owner
    <2> QED BY <2>1, <2>7 DEF Log!LogNext
  <1>3. ASSUME NEW t \in TxIds, Rewrites(t) PROVE [Log!LogNext]_(Log!logVars)
    <2>1. PICK doc \in TxDoc : /\ doc.st = "finished" /\ doc.connector = tx[t].connector
                               /\ tx' = [tx EXCEPT ![t] = doc]
      BY <1>3 DEF Rewrites
    <2>2. state' = [state EXCEPT ![t] = "finished"] /\ owner' = owner
      BY <1>0, <2>1
    <2>3. state[t] \in {"open", "finished"}
      BY <1>0, <1>3 DEF Rewrites, Stored, TxDoc
    <2>4. CASE state[t] = "open"
      <3>1. Log!Finish(t)
        BY <2>2, <2>4 DEF Log!Finish
      <3> QED BY <3>1 DEF Log!LogNext
    <2>5. CASE state[t] = "finished"
      <3>1. state' = state
        BY <2>2, <2>5
      <3> QED BY <2>2, <3>1 DEF Log!logVars
    <2> QED BY <2>3, <2>4, <2>5
  <1> QED BY <1>1, <1>2, <1>3, DocumentSteps

\* As long as OnStart can read the last transaction, the collection is the log
\* its readers expect, whatever the interleaving of handlers and sweeps and
\* whatever else fails.
THEOREM CollectionIsLog ==
    ASSUME "GetLastTransaction" \notin FaultKinds
    PROVE  Spec => ImplementsLog
  <1>1. TypeInv /\ IdsInv /\ [Next]_vars => TypeInv' /\ IdsInv'
    BY TypeStep, IdsStep
  <1>2. TypeInv /\ IdsInv /\ [Next]_vars => [Log!LogNext]_(Log!logVars)
    BY LogStep
  <1> QED BY <1>1, <1>2, TypeInit, IdsInit, LogInitially, PTL DEF Spec, ImplementsLog, Log!LogSpec

-----------------------------------------------------------------------------
(***************************************************************************)
(* Meter values.  The steps that delete them come after the one that saves *)
(* the transaction, and by DocumentSteps nobody opens it again in between. *)
(***************************************************************************)
SavedInv ==
    /\ job.pc = "purge" => Finished(job.t)
    /\ \A s \in Sweepers : sweep[s].pc \in {"release", "purge"} => Finished(sweep[s].t)

LEMMA FinishedStays ==
    ASSUME TypeInv, [Next]_vars
    PROVE  \A t \in TxIds : Finished(t) => tx'[t].st = "finished"
  <1>1. tx \in [TxIds -> TxDoc] /\ (job.pc = "add" => job.t \in TxIds)
    BY DEF TypeInv, TypeOK
  <1> QED BY <1>1, DocumentSteps DEF Rewrites, Inserts, Finished, Stored

\* A step that leaves a process where it was keeps what it knew.
LEMMA SavedKept ==
    ASSUME TypeInv, SavedInv, [Next]_vars,
           job'.pc = "purge" => job' = job,
           \A s \in Sweepers : sweep'[s].pc \in {"release", "purge"} =>
               sweep[s].pc \in {"release", "purge"} /\ sweep'[s].t = sweep[s].t
    PROVE  SavedInv'
  <1>1. job.pc = "purge" => job.t \in TxIds
    BY DEF TypeInv, TypeOK
  <1>2. \A s \in Sweepers : sweep[s].pc \in {"release", "purge"} => sweep[s].t \in TxIds
    BY DEF TypeInv, TypeOK
  <1>3. job'.pc = "purge" => tx'[job.t].st = "finished"
    BY <1>1, FinishedStays DEF SavedInv
  <1>4. ASSUME NEW s \in Sweepers, sweep'[s].pc \in {"release", "purge"}
        PROVE  tx'[sweep[s].t].st = "finished" /\ sweep'[s].t = sweep[s].t
    BY <1>2, <1>4, FinishedStays DEF SavedInv
  <1> QED BY <1>3, <1>4 DEF SavedInv, Finished

LEMMA StopSaves == ASSUME TypeInv, SavedInv, StopWrite PROVE SavedInv'
  <1>0. [Next]_vars
    BY DEF Next, JobStep
  <1>1. job.t \in TxIds /\ sweep' = sweep
    BY DEF StopWrite, TypeInv, TypeOK
  <1>2. CASE UNCHANGED tx /\ job' = [job EXCEPT !.pc = "release"]
    <2>1. job'.pc = "release"
      BY <1>2 DEF TypeInv, TypeOK, Job
    <2> QED BY <1>0, <1>1, <2>1, SavedKept
  <1>3. CASE tx' = [tx EXCEPT ![job.t] = FinishedBy(ByCharger, job.c, job.meter)]
             /\ job' = [job EXCEPT !.pc = "purge"]
    <2>1. job'.t = job.t
      BY <1>3 DEF TypeInv, TypeOK, Job
    <2>2. tx'[job.t].st = "finished"
      BY <1>1, <1>3 DEF FinishedBy, TypeInv, TypeOK
    <2>3. \A s \in Sweepers : sweep[s].pc \in {"release", "purge"} =>
             sweep[s].t \in TxIds /\ Finished(sweep[s].t)
      BY DEF SavedInv, TypeInv, TypeOK
    <2>4. \A s \in Sweepers : sweep[s].pc \in {"release", "purge"} =>
             tx'[sweep[s].t].st = "finished"
      BY <1>0, <2>3, FinishedStays
    <2> QED BY <1>1, <2>1, <2>2, <2>4 DEF SavedInv, Finished
  <1> QED BY <1>2, <1>3 DEF StopWrite, UpdateTransaction

LEMMA SweepSaves ==
    ASSUME "UpdateTransaction" \notin FaultKinds,
           TypeInv, SavedInv, NEW s \in Sweepers, WriteFinished(s)
    PROVE  SavedInv'
  <1>0. [Next]_vars
    BY DEF Next, SweepStep
  <1>1. sweep[s].t \in TxIds /\ job' = job /\ sweep \in [Sweepers -> Sweep]
        /\ tx \in [TxIds -> TxDoc]
    BY DEF WriteFinished, TypeInv, TypeOK
  <1>2. tx' = [tx EXCEPT ![sweep[s].t] =
                   SystemFigures(tx[sweep[s].t].connector, sweep[s].found)]
    BY DEF WriteFinished, UpdateTransaction, Fails
  <1>3. tx'[sweep[s].t].st = "finished"
    BY <1>1, <1>2 DEF SystemFigures, FinishedBy
  <1>4. sweep'[s].t = sweep[s].t /\ \A o \in Sweepers : o # s => sweep'[o] = sweep[o]
    BY <1>1 DEF WriteFinished, Sweep
  <1>5. ASSUME NEW o \in Sweepers, sweep'[o].pc \in {"release", "purge"}
        PROVE  tx'[sweep'[o].t].st = "finished"
    <2>1. CASE o = s
      BY <1>3, <1>4, <2>1
    <2>2. CASE o # s
      <3>1. sweep'[o].t = sweep[o].t /\ sweep[o].t \in TxIds /\ Finished(sweep[o].t)
        BY <1>4, <1>5, <2>2 DEF SavedInv, TypeInv, TypeOK
      <3> QED BY <1>0, <3>1, FinishedStays
    <2> QED BY <2>1, <2>2
  <1>6. job.pc = "purge" => tx'[job.t].st = "finished"
    <2>1. job.pc = "purge" => job.t \in TxIds /\ Finished(job.t)
      BY DEF SavedInv, TypeInv, TypeOK
    <2> QED BY <1>0, <2>1, FinishedStays
  <1> QED BY <1>1, <1>5, <1>6 DEF SavedInv, Finished

LEMMA SavedStep ==
    ASSUME "UpdateTransaction" \notin FaultKinds, TypeInv, SavedInv, [Next]_vars
    PROVE  SavedInv'
  <1> USE DEF memVars, dbVars, chargerVars
  <1>1. CASE UNCHANGED vars
    BY <1>1, SavedKept DEF vars
  <1>2. CASE \E c \in Connectors : PlugIn(c) \/ Draw(c) \/ Unplug(c)
    BY <1>2, SavedKept DEF PlugIn, Draw, Unplug
  <1>3. CASE Tick
    BY <1>3, SavedKept DEF Tick
  <1>4. ASSUME NEW c \in Connectors, OnStartTransaction(c) PROVE SavedInv'
    <2>1. sweep' = sweep
      BY <1>4 DEF OnStartTransaction, StartBlocked, StartRepeated, StartRefused,
           StartOverFinished, StartFresh, Claim
    <2>2. job' = job \/ job' = [Free EXCEPT !.pc = "add", !.c = c, !.t = nextId]
      BY <1>4 DEF OnStartTransaction, StartBlocked, StartRepeated, StartRefused,
           StartOverFinished, StartFresh, Claim
    <2>3. job'.pc = "purge" => job' = job
      BY <2>2 DEF Free
    <2> QED BY <2>1, <2>3, SavedKept
  <1>5. ASSUME NEW t \in TxIds, OnStopTransaction(t) PROVE SavedInv'
    <2>1. CASE StopUnreadable(t)
      BY <1>5, <2>1, SavedKept DEF OnStopTransaction, StopUnreadable
    <2>2. CASE StopRepeated(t)
      <3>1. job'.pc # "purge"
        BY <2>2 DEF StopRepeated, Free
      <3> QED BY <1>5, <3>1, SavedKept DEF OnStopTransaction
    <2>3. CASE StopTaken(t)
      <3>1. job'.pc # "purge"
        BY <2>3 DEF StopTaken
      <3> QED BY <1>5, <3>1, SavedKept DEF OnStopTransaction
    <2> QED BY <1>5, <2>1, <2>2, <2>3 DEF OnStopTransaction
  <1>6. CASE AddTransaction \/ LinkConnector \/ StopPurge \/ StopRelease
    <2>1. job'.pc # "purge" /\ sweep' = sweep
      BY <1>6 DEF AddTransaction, LinkConnector, StopPurge, StopRelease, Free, TypeInv,
           TypeOK, Job
    <2> QED BY <2>1, SavedKept
  <1>7. CASE \E c \in Connectors : OnMeterValues(c)
    BY <1>7, SavedKept DEF OnMeterValues
  <1>8. CASE \/ \E c \in Connectors, available \in BOOLEAN : OnStatusNotification(c, available)
             \/ \E cp \in ChargePoints : OnBootNotification(cp)
             \/ SweepTransactions
    <2>1. job' = job
      BY <1>8 DEF OnStatusNotification, OnBootNotification, SweepTransactions
    <2>2. \/ sweep' = sweep
          \/ \E g \in Sweepers, cp \in ChargePoints \cup {NoChargePoint} : Spawn(g, cp)
      BY <1>8 DEF OnStatusNotification, OnBootNotification, SweepTransactions, Sweepers
    <2>3. \A s \in Sweepers : sweep'[s] = sweep[s] \/ sweep'[s].pc = "query"
      <3>1. ASSUME NEW g \in Sweepers, NEW cp, Spawn(g, cp)
            PROVE  \A s \in Sweepers : sweep'[s] = sweep[s] \/ sweep'[s].pc = "query"
        BY <3>1 DEF Spawn, TypeInv, TypeOK, Sweep
      <3> QED BY <2>2, <3>1
    <2> QED BY <2>1, <2>3, SavedKept
  <1>9. ASSUME NEW s \in Sweepers, SweepStep(s) PROVE SavedInv'
    <2>1. CASE WriteFinished(s)
      BY <2>1, SweepSaves
    <2>2. CASE Query(s) \/ PickTransaction(s) \/ SweepDone(s) \/ ReadSamples(s) \/ PurgeSamples(s)
      <3>1. job' = job
        BY <2>2 DEF Query, PickTransaction, SweepDone, ReadSamples, PurgeSamples
      <3>2. sweep'[s].pc \notin {"release", "purge"}
        <4> USE DEF TypeInv, TypeOK, Sweep
        <4>1. CASE Query(s) \/ SweepDone(s)
          BY <4>1 DEF Query, SweepDone, Idle
        <4>2. CASE PickTransaction(s)
          BY <4>2 DEF PickTransaction
        <4>3. CASE ReadSamples(s) \/ PurgeSamples(s)
          BY <4>3 DEF ReadSamples, PurgeSamples
        <4> QED BY <2>2, <4>1, <4>2, <4>3
      <3>3. \A o \in Sweepers : o # s => sweep'[o] = sweep[o]
        BY <2>2 DEF Query, PickTransaction, SweepDone, ReadSamples, PurgeSamples, TypeInv, TypeOK
      <3> QED BY <3>1, <3>2, <3>3, SavedKept
    <2>3. CASE ReleaseConnector(s)
      BY <2>3, SavedKept DEF ReleaseConnector, TypeInv, TypeOK, Sweep
    <2> QED BY <1>9, <2>1, <2>2, <2>3 DEF SweepStep
  <1>10. CASE Crash
    BY <1>10, SavedKept DEF Crash, Free, Idle
  <1>11. CASE OnStart
    BY <1>11, SavedKept DEF OnStart
  <1> QED BY <1>1, <1>2, <1>3, <1>4, <1>5, <1>6, <1>7, <1>8, <1>9, <1>10, <1>11, StopSaves
       DEF Next, JobStep

\* Only the two deletions empty the meter values of a transaction.
LEMMA SamplesStep ==
    ASSUME TypeInv, SavedInv, Next, NEW t \in TxIds,
           samples[t] # NoSample, samples'[t] = NoSample
    PROVE  Finished(t)
  <1> USE DEF memVars, dbVars
  <1>0. samples \in [TxIds -> Readings]
    BY DEF TypeInv, TypeOK
  <1>1. CASE StopPurge
    <2>1. job.pc = "purge" /\ DeleteTransactionMeterValues(job.t)
      BY <1>1 DEF StopPurge
    <2>2. t = job.t
      BY <1>0, <2>1 DEF DeleteTransactionMeterValues
    <2> QED BY <2>1, <2>2 DEF SavedInv
  <1>2. ASSUME NEW s \in Sweepers, PurgeSamples(s) PROVE Finished(t)
    <2>1. sweep[s].pc = "purge" /\ DeleteTransactionMeterValues(sweep[s].t)
      BY <1>2 DEF PurgeSamples
    <2>2. t = sweep[s].t
      BY <1>0, <2>1 DEF DeleteTransactionMeterValues
    <2> QED BY <2>1, <2>2 DEF SavedInv
  <1>3. ASSUME NEW c \in Connectors, OnMeterValues(c) PROVE FALSE
    <2>1. PICK u \in {session[c].id, ptr[c]}, reading \in RegisterOf(c), age \in ReportAges :
             Record(u, reading, age)
      BY <1>3 DEF OnMeterValues
    <2>2. \/ samples' = [samples EXCEPT ![u] = reading]
          \/ samples' = [samples EXCEPT ![u] = samples[u]]
      BY <2>1 DEF Record
    <2>3. reading # NoSample
      BY <2>1 DEF RegisterOf, NoSample
    <2> QED BY <1>0, <2>2, <2>3
  <1>4. CASE UNCHANGED samples
    BY <1>4
  <1>5. \/ UNCHANGED samples \/ StopPurge
        \/ \E s \in Sweepers : PurgeSamples(s)
        \/ \E c \in Connectors : OnMeterValues(c)
    <2>1. CASE \E c \in Connectors : PlugIn(c) \/ Draw(c) \/ Unplug(c)
      BY <2>1 DEF PlugIn, Draw, Unplug
    <2>2. CASE \E c \in Connectors : OnStartTransaction(c)
      BY <2>2 DEF OnStartTransaction, StartBlocked, StartRepeated, StartRefused,
           StartOverFinished, StartFresh, Claim
    <2>3. CASE Tick \/ \E u \in TxIds : OnStopTransaction(u)
      BY <2>3 DEF Tick, OnStopTransaction
    <2>4. CASE JobStep
      BY <2>4 DEF JobStep, AddTransaction, LinkConnector, StopWrite, StopRelease
    <2>5. CASE \/ \E c \in Connectors, available \in BOOLEAN : OnStatusNotification(c, available)
               \/ \E cp \in ChargePoints : OnBootNotification(cp)
               \/ SweepTransactions
      BY <2>5 DEF OnStatusNotification, OnBootNotification, SweepTransactions
    <2>6. CASE \E s \in Sweepers : SweepStep(s)
      BY <2>6 DEF SweepStep, Query, PickTransaction, SweepDone, ReadSamples, WriteFinished,
           ReleaseConnector
    <2>7. CASE Crash \/ OnStart
      BY <2>7 DEF Crash, OnStart
    <2> QED BY <2>1, <2>2, <2>3, <2>4, <2>5, <2>6, <2>7 DEF Next
  <1> QED BY <1>1, <1>2, <1>3, <1>4, <1>5

\* As long as UpdateTransaction does not fail, no meter value is deleted before
\* the transaction it belongs to is saved as finished, whoever deletes it.
THEOREM SamplesAreKept ==
    ASSUME "UpdateTransaction" \notin FaultKinds
    PROVE  Spec => SamplesOutliveOpen
  <1>1. Init => SavedInv
    BY DEF Init, SavedInv, Free, Idle
  <1>2. TypeInv /\ SavedInv /\ [Next]_vars => TypeInv' /\ SavedInv'
    BY TypeStep, SavedStep
  <1>3. TypeInv /\ SavedInv /\ [Next]_vars
        => [\A t \in TxIds : samples[t] # NoSample /\ samples'[t] = NoSample => Finished(t)]_vars
    BY SamplesStep
  <1> QED BY <1>1, <1>2, <1>3, TypeInit, PTL DEF Spec, SamplesOutliveOpen

-----------------------------------------------------------------------------
(***************************************************************************)
(* Connectors and the transactions they hold.  The steps that matter here  *)
(* are few: Bystander describes all the others.                            *)
(***************************************************************************)
BelongsTo(t, c) == t \in TxIds /\ Stored(t) /\ tx[t].connector = c

Bystander ==
    /\ UNCHANGED <<up, ptr, registered, dbPtr, job, stopQ>>
    /\ \A c \in Connectors :
          session'[c].st = session[c].st /\ session'[c].id = session[c].id

LEMMA BelongingStays ==
    ASSUME TypeInv, [Next]_vars
    PROVE  \A t, c : BelongsTo(t, c) => BelongsTo(t, c)'
  BY DocumentsStay DEF BelongsTo

LEMMA ConnectorSteps ==
    ASSUME TypeInv, [Next]_vars
    PROVE  \/ Bystander
           \/ \E c \in Connectors : PlugIn(c) \/ Unplug(c) \/ OnStartTransaction(c)
           \/ \E t \in TxIds : OnStopTransaction(t)
           \/ JobStep
           \/ \E c \in Connectors, available \in BOOLEAN : OnStatusNotification(c, available)
           \/ \E s \in Sweepers : ReleaseConnector(s)
           \/ Crash
           \/ OnStart
  <1> USE DEF Bystander, memVars, dbVars, chargerVars
  <1>1. CASE UNCHANGED vars \/ Tick
    BY <1>1 DEF vars, Tick
  <1>2. ASSUME NEW c \in Connectors, Draw(c) PROVE Bystander
    BY <1>2 DEF Draw, TypeInv, TypeOK, Session
  <1>3. CASE \E c \in Connectors : OnMeterValues(c)
    BY <1>3 DEF OnMeterValues
  <1>4. CASE SweepTransactions \/ \E cp \in ChargePoints : OnBootNotification(cp)
    BY <1>4 DEF OnBootNotification, SweepTransactions
  <1>5. ASSUME NEW s \in Sweepers, SweepStep(s), ~ReleaseConnector(s) PROVE Bystander
    BY <1>5 DEF SweepStep, Query, PickTransaction, SweepDone, ReadSamples, WriteFinished,
         PurgeSamples
  <1> QED BY <1>1, <1>2, <1>3, <1>4, <1>5 DEF Next

\* Both pointers of a connector lead to transactions of that connector; the
\* one in memory is ahead of the insert while OnStartTransaction is at work.
HeldInv ==
    /\ \A c \in Connectors : dbPtr[c] # NoTx => BelongsTo(dbPtr[c], c)
    /\ \A c \in Connectors :
          ptr[c] # NoTx => BelongsTo(ptr[c], c) \/ (job.pc = "add" /\ job.c = c)
    /\ job.pc \in {"add", "link"} => ptr[job.c] = job.t

LEMMA HeldKept ==
    ASSUME TypeInv, HeldInv, [Next]_vars,
           \A c \in Connectors : dbPtr'[c] \in {NoTx, dbPtr[c]} \/ BelongsTo(dbPtr'[c], c),
           \A c \in Connectors : ptr'[c] \in {NoTx, ptr[c]} \/ BelongsTo(ptr'[c], c),
           \/ job' = job /\ ptr' = ptr
           \/ /\ job'.pc \notin {"add", "link"}
              /\ job.pc = "add" => ptr'[job.c] = NoTx
    PROVE  HeldInv'
  <1>1. \A c \in Connectors : dbPtr'[c] # NoTx => BelongsTo(dbPtr'[c], c)
    BY DEF HeldInv
  <1>2. \A c \in Connectors :
           ptr'[c] # NoTx => BelongsTo(ptr'[c], c) \/ (job'.pc = "add" /\ job'.c = c)
    BY DEF HeldInv
  <1>3. \A t, c : BelongsTo(t, c) => t \in TxIds /\ tx'[t].st # "absent" /\ tx'[t].connector = c
    BY BelongingStays DEF BelongsTo, Stored
  <1>4. job'.pc \in {"add", "link"} => ptr'[job'.c] = job'.t
    BY DEF HeldInv
  <1> QED BY <1>1, <1>2, <1>3, <1>4 DEF HeldInv, BelongsTo, Stored

LEMMA HeldStart ==
    ASSUME TypeInv, HeldInv, NEW c \in Connectors, OnStartTransaction(c)
    PROVE  HeldInv'
  <1>0. [Next]_vars
    BY DEF Next
  <1>1. CASE StartBlocked(c) \/ StartRepeated(c) \/ StartRefused(c)
    BY <1>0, <1>1, HeldKept DEF StartBlocked, StartRepeated, StartRefused, memVars, dbVars
  <1>2. ASSUME NEW cleared, Claim(c, cleared),
               \A d \in Connectors : dbPtr'[d] \in {NoTx, dbPtr[d]}
        PROVE  HeldInv'
    <2>1. job'.pc = "add" /\ job'.c = c /\ job'.t = nextId
      BY <1>2 DEF Claim, Free
    <2>2. /\ tx' = tx /\ ptr \in [Connectors -> TxIds \cup {NoTx}]
          /\ ptr' = [ptr EXCEPT ![c] = nextId]
          /\ job.pc = "free"
      BY <1>2 DEF Claim, OnStartTransaction, MuxFree, Free, TypeInv, TypeOK
    <2> QED BY <1>2, <2>1, <2>2 DEF HeldInv, BelongsTo, Stored
  <1>3. CASE StartOverFinished(c)
    <2>1. \A d \in Connectors : dbPtr'[d] \in {NoTx, dbPtr[d]}
      BY <1>3 DEF StartOverFinished, UpdateConnector, TypeInv, TypeOK
    <2> QED BY <1>2, <1>3, <2>1 DEF StartOverFinished
  <1>4. CASE StartFresh(c)
    BY <1>2, <1>4 DEF StartFresh
  <1> QED BY <1>1, <1>3, <1>4 DEF OnStartTransaction

LEMMA HeldInsert ==
    ASSUME "AddTransaction" \notin FaultKinds, TypeInv, IdsInv, HeldInv, AddTransaction
    PROVE  HeldInv'
  <1>1. /\ job.t \in TxIds /\ job.c \in Connectors
        /\ job'.pc = "link" /\ job'.c = job.c /\ job'.t = job.t
        /\ UNCHANGED <<ptr, dbPtr>>
        /\ tx \in [TxIds -> TxDoc]
    BY DEF AddTransaction, TypeInv, TypeOK, Job, memVars
  <1>2. ~Stored(job.t)
    BY <1>1 DEF AddTransaction, IdsInv, StoredIds, TxIds
  <1>3. tx' = [tx EXCEPT ![job.t] = OpenDoc(job.c)]
    BY <1>2 DEF AddTransaction, Fails
  <1>4. OpenDoc(job.c).st = "open" /\ OpenDoc(job.c).connector = job.c
    BY DEF OpenDoc, Absent
  <1>5. tx'[job.t].st = "open" /\ tx'[job.t].connector = job.c
    BY <1>1, <1>3, <1>4
  <1>6. \A u \in TxIds : Stored(u) => tx'[u] = tx[u]
    BY <1>1, <1>2, <1>3
  <1>7. \A c \in Connectors : ptr[c] # NoTx => BelongsTo(ptr[c], c) \/ c = job.c
    BY DEF HeldInv, AddTransaction
  <1>8. ptr[job.c] = job.t
    BY DEF HeldInv, AddTransaction
  <1> QED BY <1>1, <1>5, <1>6, <1>7, <1>8 DEF HeldInv, BelongsTo, Stored

LEMMA HeldStep ==
    ASSUME "AddTransaction" \notin FaultKinds, TypeInv, IdsInv, HeldInv, [Next]_vars
    PROVE  HeldInv'
  <1> USE DEF memVars, dbVars, chargerVars
  <1>0. /\ ptr \in [Connectors -> TxIds \cup {NoTx}]
        /\ dbPtr \in [Connectors -> TxIds \cup {NoTx}]
        /\ job \in Job
    BY DEF TypeInv, TypeOK
  <1>1. CASE Bystander
    BY <1>1, HeldKept DEF Bystander
  <1>2. ASSUME NEW c \in Connectors, PlugIn(c) \/ Unplug(c) PROVE HeldInv'
    BY <1>2, HeldKept DEF PlugIn, Unplug
  <1>3. ASSUME NEW t \in TxIds, OnStopTransaction(t) PROVE HeldInv'
    <2>1. UNCHANGED <<ptr, dbPtr>> /\ job.pc = "free"
      BY <1>3 DEF OnStopTransaction, MuxFree, Free
    <2>2. job'.pc \notin {"add", "link"} \/ job' = job
      <3>1. CASE StopUnreadable(t)
        BY <3>1 DEF StopUnreadable
      <3>2. CASE StopRepeated(t)
        BY <3>2 DEF StopRepeated, Free
      <3>3. CASE StopTaken(t)
        BY <3>3 DEF StopTaken
      <3> QED BY <1>3, <3>1, <3>2, <3>3 DEF OnStopTransaction
    <2> QED BY <2>1, <2>2, HeldKept
  <1>4. CASE LinkConnector
    <2>1. job.pc = "link" /\ ptr' = ptr /\ job'.pc = "free"
      BY <1>4 DEF LinkConnector, Free
    <2>2. \A c \in Connectors : dbPtr'[c] = dbPtr[c] \/ dbPtr'[c] = ptr[c]
      BY <1>0, <1>4 DEF LinkConnector, UpdateConnector
    <2>3. \A c \in Connectors : ptr[c] # NoTx => BelongsTo(ptr[c], c)
      BY <2>1 DEF HeldInv
    <2> QED BY <2>1, <2>2, <2>3, HeldKept
  <1>5. CASE StopWrite \/ StopPurge
    <2>1. UNCHANGED <<ptr, dbPtr>> /\ job.pc # "add" /\ job'.pc \notin {"add", "link"}
      BY <1>0, <1>5 DEF StopWrite, StopPurge, Job
    <2> QED BY <2>1, HeldKept
  <1>6. CASE StopRelease
    <2>1. job.pc # "add" /\ job'.pc = "free"
      BY <1>6 DEF StopRelease, Free
    <2>2. \A c \in Connectors : dbPtr'[c] \in {NoTx, dbPtr[c]} /\ ptr'[c] \in {NoTx, ptr[c]}
      BY <1>0, <1>6 DEF StopRelease, UpdateConnector
    <2> QED BY <2>1, <2>2, HeldKept
  <1>7. ASSUME NEW c \in Connectors, NEW available \in BOOLEAN,
               OnStatusNotification(c, available)
        PROVE  HeldInv'
    <2>1. UNCHANGED <<ptr, job>> /\ job.pc = "free"
      BY <1>7 DEF OnStatusNotification, MuxFree, Free
    <2>2. \A d \in Connectors : dbPtr'[d] = dbPtr[d] \/ dbPtr'[d] = ptr[d]
      BY <1>0, <1>7 DEF OnStatusNotification, UpdateConnector
    <2>3. \A d \in Connectors : ptr[d] # NoTx => BelongsTo(ptr[d], d)
      BY <2>1 DEF HeldInv
    <2> QED BY <2>1, <2>2, <2>3, HeldKept
  <1>8. ASSUME NEW s \in Sweepers, ReleaseConnector(s) PROVE HeldInv'
    <2>1. job' = job /\ job.pc = "free"
      BY <1>8 DEF ReleaseConnector, MuxFree, Free
    <2>2. \A c \in Connectors : dbPtr'[c] \in {NoTx, dbPtr[c]} /\ ptr'[c] \in {NoTx, ptr[c]}
      BY <1>0, <1>8 DEF ReleaseConnector, UpdateConnector
    <2> QED BY <2>1, <2>2, HeldKept
  <1>9. CASE Crash
    <2>1. job'.pc = "free" /\ dbPtr' = dbPtr /\ ptr' = [c \in Connectors |-> NoTx]
      BY <1>9 DEF Crash, Free
    <2>2. job.pc = "add" => job.c \in Connectors
      BY DEF TypeInv, TypeOK
    <2> QED BY <2>1, <2>2, HeldKept
  <1>10. CASE OnStart
    <2>1. job' = job /\ job.pc = "free"
      BY <1>10 DEF OnStart, TypeInv, TypeOK, References, Job
    <2>2. PICK unread \in SUBSET Connectors, unsaved \in SUBSET Connectors :
             LoadConnectors(unread, unsaved)
      BY <1>10 DEF OnStart
    <2>3. \A c \in Connectors : dbPtr'[c] \in {NoTx, dbPtr[c]} /\ ptr'[c] \in {NoTx, dbPtr[c]}
      BY <2>2 DEF LoadConnectors
    <2>4. \A c \in Connectors : dbPtr[c] # NoTx => BelongsTo(dbPtr[c], c)
      BY DEF HeldInv
    <2> QED BY <2>1, <2>3, <2>4, HeldKept
  <1> QED BY <1>1, <1>2, <1>3, <1>4, <1>5, <1>6, <1>7, <1>8, <1>9, <1>10, HeldStart,
       HeldInsert, ConnectorSteps DEF JobStep

LEMMA HeldInit == Init => HeldInv
  BY DEF Init, HeldInv, Free

\* As long as the insert succeeds and OnStart can read the last id, the
\* connector document never points at a transaction that is not there or that
\* is another connector's: whoever stops, sweeps, dies or fails to save.
THEOREM HeldExists ==
    ASSUME "AddTransaction" \notin FaultKinds, "GetLastTransaction" \notin FaultKinds
    PROVE  Spec => []HeldTransactionExists
  <1>1. HeldInv => HeldTransactionExists
    BY DEF HeldInv, HeldTransactionExists, BelongsTo, StoredIds
  <1>2. TypeInv /\ IdsInv /\ HeldInv /\ [Next]_vars => TypeInv' /\ IdsInv' /\ HeldInv'
    BY TypeStep, IdsStep, HeldStep
  <1> QED BY <1>1, <1>2, TypeInit, IdsInit, HeldInit, PTL DEF Spec

-----------------------------------------------------------------------------
(***************************************************************************)
(* What the charger makes of it.  A charger that waits for the answer to   *)
(* its StopTransaction before it starts again never has a session and an   *)
(* unanswered stop on one outlet, so the handler that releases a connector *)
(* without looking has nobody else's transaction before it.                *)
(***************************************************************************)
OutletInv ==
    /\ \A c \in Connectors : session[c].st = "on" => BelongsTo(session[c].id, c)
    /\ \A t \in TxIds : stopQ[t] # NoStop => Stored(t)
    /\ \A c \in Connectors : session[c].st # "none" => QueueEmpty(c)
    /\ job.pc \in {"add", "link"} => session[job.c].st = "starting"
    /\ job.pc \in {"write", "purge", "release"} => stopQ[job.t] # NoStop

\* Steps that start no session and queue no stop; the session of a connector
\* that a handler answers was starting.
LEMMA OutletKept ==
    ASSUME TypeInv, OutletInv, [Next]_vars,
           \A c \in Connectors :
              \/ session'[c].st = session[c].st /\ session'[c].id = session[c].id
              \/ session[c].st = "starting" /\ session'[c].st = "none"
              \/ /\ session[c].st = "starting" /\ session'[c].st = "on"
                 /\ BelongsTo(session'[c].id, c),
           \A t \in TxIds : stopQ'[t] \in {stopQ[t], NoStop},
           job'.pc \in {"add", "link"} => session'[job'.c].st = "starting",
           job'.pc \in {"write", "purge", "release"} => stopQ'[job'.t] # NoStop
    PROVE  OutletInv'
  <1>1. \A t, c : BelongsTo(t, c) => BelongsTo(t, c)'
    BY BelongingStays
  <1>2. \A c \in Connectors : session'[c].st = "on" => BelongsTo(session'[c].id, c)
    BY DEF OutletInv
  <1>3. \A c \in Connectors : session'[c].st = "on" =>
           /\ session'[c].id \in TxIds
           /\ tx'[session'[c].id].st # "absent" /\ tx'[session'[c].id].connector = c
    BY <1>1, <1>2 DEF BelongsTo, Stored
  <1>4. \A t \in TxIds : Stored(t) => tx'[t].st # "absent" /\ tx'[t].connector = tx[t].connector
    BY DocumentsStay DEF Stored
  <1>5. \A t \in TxIds : stopQ'[t] # NoStop =>
           tx'[t].st # "absent" /\ stopQ[t] # NoStop /\ tx'[t].connector = tx[t].connector
    BY <1>4 DEF OutletInv
  <1>6. \A c \in Connectors : session'[c].st # "none" =>
           \A t \in TxIds : stopQ'[t] # NoStop => tx'[t].connector # c
    BY <1>5 DEF OutletInv, QueueEmpty
  <1> QED BY <1>3, <1>5, <1>6 DEF OutletInv, QueueEmpty, BelongsTo, Stored

LEMMA OutletPlug ==
    ASSUME ~LateStops, TypeInv, OutletInv, NEW c \in Connectors, PlugIn(c)
    PROVE  OutletInv'
  <1>1. /\ session \in [Connectors -> Session] /\ session[c].st = "none"
        /\ session' = [session EXCEPT ![c].st = "starting"]
        /\ UNCHANGED <<tx, job, stopQ>> /\ QueueEmpty(c)
    BY DEF PlugIn, TypeInv, TypeOK, dbVars, NoSession
  <1>2. session'[c].st = "starting" /\ \A d \in Connectors : d # c => session'[d] = session[d]
    BY <1>1 DEF Session
  <1>3. job.pc \in {"add", "link"} => job.c \in Connectors
    BY DEF TypeInv, TypeOK
  <1> QED BY <1>1, <1>2, <1>3 DEF OutletInv, QueueEmpty, BelongsTo, Stored

LEMMA OutletUnplug ==
    ASSUME TypeInv, OutletInv, NEW c \in Connectors, Unplug(c)
    PROVE  OutletInv'
  <1> DEFINE t == session[c].id
  <1>1. /\ session \in [Connectors -> Session] /\ session[c].st = "on"
        /\ session' = [session EXCEPT ![c] = NoSession]
        /\ stopQ' = [stopQ EXCEPT ![t] = session[c].energy]
        /\ stopQ \in [TxIds -> Readings \cup {NoStop}]
        /\ UNCHANGED <<tx, job>>
    BY DEF Unplug, TypeInv, TypeOK, dbVars
  <1>2. t \in TxIds /\ Stored(t) /\ tx[t].connector = c
    BY <1>1 DEF OutletInv, BelongsTo
  <1>3. session[c].energy # NoStop
    BY <1>1 DEF Session, Readings, NoStop
  <1>4. session'[c].st = "none" /\ \A d \in Connectors : d # c => session'[d] = session[d]
    BY <1>1 DEF NoSession
  <1>5. job.pc \in {"add", "link"} => job.c \in Connectors /\ job.c # c
    BY <1>1 DEF TypeInv, TypeOK, OutletInv
  <1>6. stopQ'[t] # NoStop /\ \A u \in TxIds : u # t => stopQ'[u] = stopQ[u]
    BY <1>1, <1>2, <1>3
  <1>7. job.pc \in {"write", "purge", "release"} => job.t \in TxIds
    BY DEF TypeInv, TypeOK
  <1> HIDE DEF t
  <1> QED BY <1>1, <1>2, <1>4, <1>5, <1>6, <1>7 DEF OutletInv, QueueEmpty, BelongsTo, Stored

\* How the answer to a request of connector c shows at the outlets.
LEMMA AnswerShows ==
    ASSUME TypeInv, NEW c \in Connectors, NEW s, Answer(c, s)
    PROVE  /\ session'[c] \in {session[c], s}
           /\ \A d \in Connectors : d # c => session'[d] = session[d]
  BY DEF Answer, TypeInv, TypeOK

LEMMA OutletStart ==
    ASSUME TypeInv, HeldInv, OutletInv, NEW c \in Connectors, OnStartTransaction(c)
    PROVE  OutletInv'
  <1>0. /\ [Next]_vars /\ session[c].st = "starting" /\ session[c] \in Session
        /\ job.pc = "free"
    BY DEF Next, OnStartTransaction, MuxFree, Free, TypeInv, TypeOK
  <1>1. CASE StartBlocked(c) \/ StartRefused(c)
    <2>1. Answer(c, NoSession) /\ UNCHANGED <<job, stopQ>>
      BY <1>1 DEF StartBlocked, StartRefused
    <2>2. NoSession.st = "none"
      BY DEF NoSession
    <2> QED BY <1>0, <2>1, <2>2, AnswerShows, OutletKept
  <1>2. CASE StartRepeated(c)
    <2> DEFINE s == [session[c] EXCEPT !.st = "on", !.id = ptr[c]]
    <2>1. Answer(c, s) /\ UNCHANGED <<job, stopQ>>
      BY <1>2 DEF StartRepeated
    <2>2. s.st = "on" /\ s.id = ptr[c]
      BY <1>0 DEF Session
    <2>3. BelongsTo(ptr[c], c)
      BY <1>0, <1>2 DEF StartRepeated, HeldInv
    <2> HIDE DEF s
    <2> QED BY <1>0, <2>1, <2>2, <2>3, AnswerShows, OutletKept
  <1>3. ASSUME NEW cleared, Claim(c, cleared) PROVE OutletInv'
    <2>1. job'.pc = "add" /\ job'.c = c /\ UNCHANGED <<session, stopQ>>
      BY <1>3 DEF Claim, Free, chargerVars
    <2> QED BY <1>0, <2>1, OutletKept
  <1> QED BY <1>1, <1>2, <1>3 DEF OnStartTransaction, StartOverFinished, StartFresh

LEMMA OutletStop ==
    ASSUME TypeInv, OutletInv, NEW t \in TxIds, OnStopTransaction(t)
    PROVE  OutletInv'
  <1>0. [Next]_vars /\ stopQ[t] # NoStop /\ job.pc = "free"
    BY DEF Next, OnStopTransaction, MuxFree, Free
  <1>1. CASE StopUnreadable(t)
    <2>1. UNCHANGED <<session, job>> /\ \A u \in TxIds : stopQ'[u] \in {stopQ[u], NoStop}
      BY <1>1 DEF StopUnreadable, Acknowledge, TypeInv, TypeOK
    <2> QED BY <1>0, <2>1, OutletKept
  <1>2. CASE StopRepeated(t)
    <2>1. job'.pc = "release" /\ job'.t = t /\ UNCHANGED <<session, stopQ>>
      BY <1>2 DEF StopRepeated, Free, chargerVars
    <2> QED BY <1>0, <2>1, OutletKept
  <1>3. CASE StopTaken(t)
    <2>1. job'.pc = "write" /\ job'.t = t /\ UNCHANGED <<session, stopQ>>
      BY <1>3 DEF StopTaken, chargerVars
    <2> QED BY <1>0, <2>1, OutletKept
  <1> QED BY <1>1, <1>2, <1>3 DEF OnStopTransaction

LEMMA OutletJob ==
    ASSUME TypeInv, HeldInv, OutletInv, JobStep
    PROVE  OutletInv'
  <1>0. [Next]_vars /\ job \in Job
    BY DEF Next, TypeInv, TypeOK
  <1>1. CASE AddTransaction \/ StopWrite \/ StopPurge
    <2>1. /\ UNCHANGED <<session, stopQ>> /\ job'.c = job.c /\ job'.t = job.t
          /\ \/ job.pc = "add" /\ job'.pc = "link"
             \/ job.pc \in {"write", "purge"} /\ job'.pc \in {"purge", "release"}
      <3>1. CASE AddTransaction
        BY <1>0, <3>1 DEF AddTransaction, chargerVars, Job
      <3>2. CASE StopWrite \/ StopPurge
        BY <1>0, <3>2 DEF StopWrite, StopPurge, chargerVars, Job
      <3> QED BY <1>1, <3>1, <3>2
    <2> QED BY <1>0, <2>1, OutletKept DEF OutletInv
  <1>2. CASE LinkConnector
    <2> DEFINE s == [session[job.c] EXCEPT !.st = "on", !.id = job.t]
    <2>1. /\ job.c \in Connectors /\ job.pc = "link" /\ Answer(job.c, s)
          /\ job'.pc = "free" /\ stopQ' = stopQ /\ session[job.c] \in Session
      BY <1>2 DEF LinkConnector, Free, TypeInv, TypeOK
    <2>2. s.st = "on" /\ s.id = job.t
      BY <2>1 DEF Session
    <2>3. BelongsTo(job.t, job.c) /\ session[job.c].st = "starting"
      <3>1. ptr[job.c] = job.t /\ job.t \in TxIds
        BY <2>1 DEF HeldInv, TypeInv, TypeOK
      <3>2. job.t # NoTx
        BY <3>1 DEF TxIds, NoTx
      <3> QED BY <2>1, <3>1, <3>2 DEF HeldInv, OutletInv
    <2> HIDE DEF s
    <2> QED BY <1>0, <2>1, <2>2, <2>3, AnswerShows, OutletKept
  <1>3. CASE StopRelease
    <2>1. /\ session' = session /\ job'.pc = "free"
          /\ \A u \in TxIds : stopQ'[u] \in {stopQ[u], NoStop}
      BY <1>3 DEF StopRelease, Acknowledge, Free, TypeInv, TypeOK
    <2> QED BY <1>0, <2>1, OutletKept
  <1> QED BY <1>1, <1>2, <1>3 DEF JobStep

LEMMA OutletStep ==
    ASSUME ~LateStops, TypeInv, HeldInv, OutletInv, [Next]_vars
    PROVE  OutletInv'
  <1>1. CASE Bystander
    <2>1. job.pc \in {"add", "link"} => job.c \in Connectors
      BY DEF TypeInv, TypeOK
    <2> QED BY <1>1, <2>1, OutletKept DEF Bystander, OutletInv
  <1>2. CASE \/ \E c \in Connectors, available \in BOOLEAN : OnStatusNotification(c, available)
             \/ \E s \in Sweepers : ReleaseConnector(s)
             \/ Crash
             \/ OnStart
    <2>1. UNCHANGED <<session, stopQ>> /\ (job' = job \/ job' = Free)
      BY <1>2 DEF OnStatusNotification, ReleaseConnector, Crash, OnStart, chargerVars
    <2> QED BY <2>1, OutletKept DEF Free, OutletInv
  <1> QED BY <1>1, <1>2, OutletPlug, OutletUnplug, OutletStart, OutletStop, OutletJob,
       ConnectorSteps

LEMMA OutletInit == Init => OutletInv
  BY DEF Init, OutletInv, NoSession, Free

-----------------------------------------------------------------------------
(***************************************************************************)
(* Releases.  The invariant says what each of the steps that overwrite a   *)
(* pointer finds there: a document that memory has left behind names a     *)
(* finished transaction, and so does either pointer of a connector in use  *)
(* unless it names the transaction the charger means.                      *)
(***************************************************************************)
\* Outlet c is in transaction t, or waits for the answer to its stop.
InUse(c, t) ==
    \/ session[c].st = "on" /\ session[c].id = t
    \/ stopQ[t] # NoStop /\ tx[t].connector = c

NoOther(p, t) == p \in {NoTx, t} \/ Finished(p)

ReleaseInv ==
    /\ job.pc \in {"purge", "release"} => Finished(job.t)
    /\ up => \A c \in Connectors : NoOther(dbPtr[c], ptr[c])
    /\ \A c \in Connectors, t \in TxIds :
          InUse(c, t) => NoOther(dbPtr[c], t) /\ NoOther(ptr[c], t)

\* What ReleasedOnlyOnceFinished says of a step.
ReleasesFinished ==
    \A c \in Connectors : dbPtr[c] # NoTx /\ dbPtr'[c] # dbPtr[c] => Finished(dbPtr[c])

LEMMA ReleaseKept ==
    ASSUME TypeInv, ReleaseInv, [Next]_vars,
           job'.pc \in {"purge", "release"} => job'.t \in TxIds /\ tx'[job'.t].st = "finished",
           up' => \A c \in Connectors : NoOther(dbPtr'[c], ptr'[c]),
           \A c \in Connectors, t \in TxIds :
              InUse(c, t)' => NoOther(dbPtr'[c], t) /\ NoOther(ptr'[c], t)
    PROVE  ReleaseInv'
  <1>1. /\ dbPtr' \in [Connectors -> TxIds \cup {NoTx}]
        /\ ptr' \in [Connectors -> TxIds \cup {NoTx}]
    BY TypeStep DEF TypeInv, TypeOK
  <1>2. \A p \in TxIds \cup {NoTx} : \A t : NoOther(p, t) => NoOther(p, t)'
    BY FinishedStays DEF NoOther, Finished
  <1>3. up' => \A c \in Connectors : dbPtr'[c] \in {NoTx, ptr'[c]} \/ tx'[dbPtr'[c]].st = "finished"
    BY <1>1, <1>2 DEF NoOther, Finished
  <1>4. \A c \in Connectors, t \in TxIds : InUse(c, t)' =>
           /\ dbPtr'[c] \in {NoTx, t} \/ tx'[dbPtr'[c]].st = "finished"
           /\ ptr'[c] \in {NoTx, t} \/ tx'[ptr'[c]].st = "finished"
    BY <1>1, <1>2 DEF NoOther, Finished
  <1> QED BY <1>3, <1>4 DEF ReleaseInv, NoOther, Finished

\* A step that starts no session and queues no stop brings nothing into use.
LEMMA UseStays ==
    ASSUME TypeInv, OutletInv, [Next]_vars, NEW c \in Connectors,
           session'[c].st = "on" => session[c].st = "on" /\ session'[c].id = session[c].id,
           \A t \in TxIds : stopQ'[t] \in {stopQ[t], NoStop}
    PROVE  \A t \in TxIds : InUse(c, t)' => InUse(c, t)
  <1>1. \A t \in TxIds : stopQ'[t] # NoStop =>
           stopQ[t] # NoStop /\ tx'[t].connector = tx[t].connector
    BY DocumentsStay DEF OutletInv
  <1> QED BY <1>1 DEF InUse

\* An outlet whose session is starting is not in use.
LEMMA StartingUnused ==
    ASSUME OutletInv, NEW c \in Connectors, session[c].st = "starting"
    PROVE  \A t \in TxIds : ~InUse(c, t)
  BY DEF OutletInv, InUse, QueueEmpty

LEMMA ReleaseCharger ==
    ASSUME TypeInv, OutletInv, ReleaseInv, NEW c \in Connectors, PlugIn(c) \/ Unplug(c)
    PROVE  ReleaseInv' /\ ReleasesFinished
  <1>0. /\ [Next]_vars /\ UNCHANGED <<up, ptr, dbPtr, tx, job>>
        /\ job.pc \in {"purge", "release"} => job.t \in TxIds
    BY DEF Next, PlugIn, Unplug, memVars, dbVars, TypeInv, TypeOK
  <1>1. \A d \in Connectors, t \in TxIds : InUse(d, t)' => InUse(d, t)
    <2>1. CASE PlugIn(c)
      <3>1. \A d \in Connectors : session'[d].st = "on" => session'[d] = session[d]
        BY <2>1 DEF PlugIn, TypeInv, TypeOK, Session
      <3> QED BY <1>0, <2>1, <3>1, UseStays DEF PlugIn
    <2>2. CASE Unplug(c)
      <3>1. /\ session[c].st = "on" /\ session[c].id \in TxIds
            /\ tx[session[c].id].connector = c
            /\ stopQ' = [stopQ EXCEPT ![session[c].id] = session[c].energy]
        BY <2>2 DEF Unplug, OutletInv, BelongsTo
      <3>2. \A d \in Connectors : session'[d].st = "on" => session'[d] = session[d]
        BY <2>2 DEF Unplug, NoSession, TypeInv, TypeOK
      <3>3. \A t \in TxIds : t # session[c].id => stopQ'[t] = stopQ[t]
        BY <3>1 DEF TypeInv, TypeOK
      <3> QED BY <1>0, <3>1, <3>2, <3>3 DEF InUse
    <2> QED BY <2>1, <2>2
  <1>2. ReleaseInv'
    BY <1>0, <1>1, ReleaseKept DEF ReleaseInv, Finished
  <1> QED BY <1>0, <1>2 DEF ReleasesFinished

LEMMA ReleaseStart ==
    ASSUME TypeInv, HeldInv, OutletInv, ReleaseInv, NEW c \in Connectors, OnStartTransaction(c)
    PROVE  ReleaseInv' /\ ReleasesFinished
  <1>0. /\ [Next]_vars /\ session[c].st = "starting" /\ session[c] \in Session
        /\ job.pc = "free" /\ up /\ UNCHANGED stopQ
        /\ ptr \in [Connectors -> TxIds \cup {NoTx}]
        /\ dbPtr \in [Connectors -> TxIds \cup {NoTx}]
    BY DEF Next, OnStartTransaction, MuxFree, Free, TypeInv, TypeOK, chargerVars, StartBlocked,
         StartRepeated, StartRefused, StartOverFinished, StartFresh, Claim
  <1>1. ASSUME NEW s, Answer(c, s), s.st = "on" => s.id = ptr[c],
               UNCHANGED <<up, ptr, dbPtr, job>>
        PROVE  ReleaseInv' /\ ReleasesFinished
    <2>1. \A d \in Connectors, t \in TxIds : d # c /\ InUse(d, t)' => InUse(d, t)
      BY <1>0, <1>1, AnswerShows, UseStays
    <2>2. \A t \in TxIds : InUse(c, t)' => t = ptr[c]
      <3>1. session'[c].st = "on" => session'[c].id = ptr[c]
        BY <1>0, <1>1, AnswerShows
      <3>2. \A t \in TxIds : stopQ[t] # NoStop => tx'[t].connector # c
        BY <1>0, DocumentsStay DEF OutletInv, QueueEmpty
      <3> QED BY <1>0, <3>1, <3>2 DEF InUse
    <2>3. \A d \in Connectors, t \in TxIds :
             InUse(d, t)' => NoOther(dbPtr'[d], t) /\ NoOther(ptr'[d], t)
      BY <1>0, <1>1, <2>1, <2>2 DEF ReleaseInv, NoOther
    <2>4. ReleaseInv'
      BY <1>0, <1>1, <2>3, ReleaseKept DEF ReleaseInv
    <2> QED BY <1>1, <2>4 DEF ReleasesFinished
  <1>2. CASE StartBlocked(c) \/ StartRefused(c)
    BY <1>1, <1>2 DEF StartBlocked, StartRefused, NoSession, memVars, dbVars
  <1>3. CASE StartRepeated(c)
    <2> DEFINE s == [session[c] EXCEPT !.st = "on", !.id = ptr[c]]
    <2>1. Answer(c, s) /\ UNCHANGED <<up, ptr, dbPtr, job>>
      BY <1>3 DEF StartRepeated, memVars, dbVars
    <2>2. s.id = ptr[c]
      BY <1>0 DEF Session
    <2> HIDE DEF s
    <2> QED BY <1>1, <2>1, <2>2
  <1>4. ASSUME NEW cleared, Claim(c, cleared),
               \A d \in Connectors : dbPtr'[d] = dbPtr[d] \/ (d = c /\ dbPtr'[d] = NoTx),
               NoOther(dbPtr[c], NoTx)
        PROVE  ReleaseInv' /\ ReleasesFinished
    <2>1. /\ job'.pc = "add" /\ UNCHANGED <<tx, up, session>>
          /\ ptr' = [ptr EXCEPT ![c] = nextId]
      BY <1>4 DEF Claim, Free, chargerVars
    <2>2. \A d \in Connectors, t \in TxIds : InUse(d, t)' => InUse(d, t) /\ d # c
      BY <1>0, <2>1, StartingUnused DEF InUse
    <2>3. \A d \in Connectors, t \in TxIds :
             InUse(d, t)' => NoOther(dbPtr'[d], t) /\ NoOther(ptr'[d], t)
      BY <1>0, <1>4, <2>1, <2>2 DEF ReleaseInv
    <2>4. \A d \in Connectors : NoOther(dbPtr'[d], ptr'[d])
      BY <1>0, <1>4, <2>1 DEF ReleaseInv, NoOther
    <2>5. ReleaseInv'
      BY <1>0, <2>1, <2>3, <2>4, ReleaseKept
    <2> QED BY <1>4, <2>5 DEF ReleasesFinished, NoOther
  <1>5. CASE StartOverFinished(c)
    <2>1. \A d \in Connectors : dbPtr'[d] = dbPtr[d] \/ (d = c /\ dbPtr'[d] = NoTx)
      BY <1>0, <1>5 DEF StartOverFinished, UpdateConnector
    <2>2. NoOther(dbPtr[c], NoTx)
      BY <1>0, <1>5 DEF StartOverFinished, ReleaseInv, NoOther
    <2> QED BY <1>4, <1>5, <2>1, <2>2 DEF StartOverFinished
  <1>6. CASE StartFresh(c)
    <2>1. ptr[c] = NoTx
      BY <1>0, <1>6 DEF StartFresh, HeldInv, BelongsTo, StoredIds
    <2>2. NoOther(dbPtr[c], NoTx)
      BY <1>0, <2>1 DEF ReleaseInv
    <2> QED BY <1>4, <1>6, <2>2 DEF StartFresh
  <1> QED BY <1>2, <1>3, <1>5, <1>6 DEF OnStartTransaction

LEMMA ReleaseStop ==
    ASSUME TypeInv, OutletInv, ReleaseInv, NEW t \in TxIds, OnStopTransaction(t)
    PROVE  ReleaseInv' /\ ReleasesFinished
  <1>0. [Next]_vars /\ UNCHANGED <<up, ptr, dbPtr, tx>> /\ job.pc = "free"
    BY DEF Next, OnStopTransaction, MuxFree, Free, dbVars
  <1>1. session' = session /\ \A u \in TxIds : stopQ'[u] \in {stopQ[u], NoStop}
    BY DEF OnStopTransaction, StopUnreadable, StopRepeated, StopTaken, Acknowledge,
         chargerVars, TypeInv, TypeOK
  <1>2. \A c \in Connectors, u \in TxIds : InUse(c, u)' => InUse(c, u)
    BY <1>0, <1>1, UseStays
  <1>3. job'.pc \in {"purge", "release"} => job'.t = t /\ Finished(t)
    <2>1. CASE StopUnreadable(t)
      BY <1>0, <2>1 DEF StopUnreadable
    <2>2. CASE StopRepeated(t)
      BY <2>2 DEF StopRepeated, Free
    <2>3. CASE StopTaken(t)
      BY <2>3 DEF StopTaken
    <2> QED BY <2>1, <2>2, <2>3 DEF OnStopTransaction
  <1>4. ReleaseInv'
    BY <1>0, <1>2, <1>3, ReleaseKept DEF ReleaseInv, Finished
  <1> QED BY <1>0, <1>4 DEF ReleasesFinished

LEMMA ReleaseWrite ==
    ASSUME "UpdateTransaction" \notin FaultKinds,
           TypeInv, OutletInv, ReleaseInv, AddTransaction \/ StopWrite \/ StopPurge
    PROVE  ReleaseInv' /\ ReleasesFinished
  <1>0. /\ [Next]_vars /\ UNCHANGED <<up, ptr, dbPtr, session, stopQ>>
        /\ job.t \in TxIds /\ job \in Job
    BY DEF Next, JobStep, AddTransaction, StopWrite, StopPurge, memVars, dbVars, chargerVars,
         TypeInv, TypeOK
  <1>1. \A c \in Connectors, u \in TxIds : InUse(c, u)' => InUse(c, u)
    BY <1>0, UseStays
  <1>2. job'.pc \in {"purge", "release"} => job'.t = job.t /\ tx'[job.t].st = "finished"
    <2>1. CASE AddTransaction
      BY <1>0, <2>1 DEF AddTransaction, Job
    <2>2. CASE StopWrite
      <3>1. tx' = [tx EXCEPT ![job.t] = FinishedBy(ByCharger, job.c, job.meter)]
        BY <2>2 DEF StopWrite, UpdateTransaction, Fails
      <3>2. tx'[job.t].st = "finished"
        BY <1>0, <3>1 DEF FinishedBy, TypeInv, TypeOK
      <3>3. job'.t = job.t
        BY <1>0, <2>2 DEF StopWrite, Job
      <3> QED BY <3>2, <3>3
    <2>3. CASE StopPurge
      <3>1. job'.t = job.t /\ tx' = tx /\ job.pc = "purge"
        BY <1>0, <2>3 DEF StopPurge, Job
      <3> QED BY <3>1 DEF ReleaseInv, Finished
    <2> QED BY <2>1, <2>2, <2>3
  <1>3. ReleaseInv'
    BY <1>0, <1>1, <1>2, ReleaseKept DEF ReleaseInv
  <1> QED BY <1>0, <1>3 DEF ReleasesFinished

LEMMA ReleaseLink ==
    ASSUME TypeInv, HeldInv, OutletInv, ReleaseInv, LinkConnector
    PROVE  ReleaseInv' /\ ReleasesFinished
  <1> DEFINE s == [session[job.c] EXCEPT !.st = "on", !.id = job.t]
  <1>0. /\ [Next]_vars /\ job.pc = "link" /\ up /\ job.c \in Connectors
        /\ UNCHANGED <<up, ptr, tx, stopQ>> /\ job'.pc = "free"
        /\ Answer(job.c, s) /\ session[job.c] \in Session
    BY DEF Next, JobStep, LinkConnector, Free, memVars, TypeInv, TypeOK, References
  <1>1. s.id = job.t
    BY <1>0 DEF Session
  <1> HIDE DEF s
  <1>2. ptr[job.c] = job.t /\ session[job.c].st = "starting"
    BY <1>0 DEF HeldInv, OutletInv
  <1>3. \A c \in Connectors : dbPtr'[c] = dbPtr[c] \/ (c = job.c /\ dbPtr'[c] = ptr[c])
    BY DEF LinkConnector, UpdateConnector, TypeInv, TypeOK
  <1>4. \A c \in Connectors, t \in TxIds : c # job.c /\ InUse(c, t)' => InUse(c, t)
    BY <1>0, AnswerShows, UseStays
  <1>5. ASSUME NEW c \in Connectors, c = job.c, NEW t \in TxIds, InUse(c, t)'
        PROVE  t = ptr[c]
    <2>1. session'[c].st = "on" => session'[c].id = job.t
      BY <1>0, <1>1, <1>2, <1>5, AnswerShows
    <2>2. \A u \in TxIds : stopQ[u] # NoStop => tx'[u].connector # c
      BY <1>0, <1>2, <1>5 DEF OutletInv, QueueEmpty
    <2> QED BY <1>0, <1>2, <1>5, <2>1, <2>2 DEF InUse
  <1>6. \A c \in Connectors, t \in TxIds :
           InUse(c, t)' => NoOther(dbPtr'[c], t) /\ NoOther(ptr'[c], t)
    BY <1>0, <1>3, <1>4, <1>5 DEF ReleaseInv, NoOther
  <1>7. \A c \in Connectors : NoOther(dbPtr'[c], ptr'[c])
    BY <1>0, <1>3 DEF ReleaseInv, NoOther
  <1>8. ReleaseInv'
    BY <1>0, <1>6, <1>7, ReleaseKept
  <1>9. ReleasesFinished
    BY <1>0, <1>3 DEF ReleasesFinished, ReleaseInv, NoOther
  <1> QED BY <1>8, <1>9

\* The handler of a stop finds its own transaction, saved, or one that is
\* finished as well.
LEMMA ReleaseByStop ==
    ASSUME TypeInv, OutletInv, ReleaseInv, StopRelease
    PROVE  ReleaseInv' /\ ReleasesFinished
  <1>0. /\ [Next]_vars /\ UNCHANGED <<up, tx, session>> /\ job'.pc = "free"
        /\ job.pc = "release" /\ job.t \in TxIds /\ job.c \in Connectors
        /\ job.c = tx[job.t].connector
    BY DEF Next, JobStep, StopRelease, Free, TypeInv, TypeOK, References
  <1>1. \A c \in Connectors : /\ dbPtr'[c] = dbPtr[c] \/ (c = job.c /\ dbPtr'[c] = NoTx)
                              /\ ptr'[c] = ptr[c] \/ ptr'[c] = NoTx
                              /\ c # job.c => ptr'[c] = ptr[c]
    BY DEF StopRelease, UpdateConnector, TypeInv, TypeOK
  <1>2. \A u \in TxIds : stopQ'[u] \in {stopQ[u], NoStop}
    BY DEF StopRelease, Acknowledge, TypeInv, TypeOK
  <1>3. \A c \in Connectors, t \in TxIds : InUse(c, t)' => InUse(c, t)
    BY <1>0, <1>2, UseStays
  <1>4. InUse(job.c, job.t) /\ Finished(job.t)
    BY <1>0 DEF InUse, OutletInv, ReleaseInv
  <1>5. NoOther(dbPtr[job.c], NoTx)
    BY <1>0, <1>4 DEF ReleaseInv, NoOther
  <1>6. \A c \in Connectors : up => NoOther(dbPtr'[c], ptr'[c])
    BY <1>1, <1>5 DEF ReleaseInv, NoOther
  <1>7. \A c \in Connectors, t \in TxIds :
           InUse(c, t)' => NoOther(dbPtr'[c], t) /\ NoOther(ptr'[c], t)
    BY <1>1, <1>3 DEF ReleaseInv, NoOther
  <1>8. ReleaseInv'
    BY <1>0, <1>6, <1>7, ReleaseKept
  <1>9. ReleasesFinished
    BY <1>1, <1>5 DEF ReleasesFinished, NoOther
  <1> QED BY <1>8, <1>9

LEMMA ReleaseStatus ==
    ASSUME TypeInv, OutletInv, ReleaseInv, NEW c \in Connectors, NEW available \in BOOLEAN,
           OnStatusNotification(c, available)
    PROVE  ReleaseInv' /\ ReleasesFinished
  <1>0. /\ [Next]_vars /\ up /\ UNCHANGED <<up, ptr, tx, job, session, stopQ>>
        /\ job.pc = "free"
    BY DEF Next, OnStatusNotification, MuxFree, Free, memVars, chargerVars
  <1>1. \A d \in Connectors : dbPtr'[d] \in {dbPtr[d], ptr[d]}
    BY DEF OnStatusNotification, UpdateConnector, TypeInv, TypeOK
  <1>2. \A d \in Connectors, t \in TxIds : InUse(d, t)' => InUse(d, t)
    BY <1>0, UseStays
  <1>3. ReleaseInv'
    BY <1>0, <1>1, <1>2, ReleaseKept DEF ReleaseInv, NoOther
  <1>4. ReleasesFinished
    BY <1>0, <1>1 DEF ReleasesFinished, ReleaseInv, NoOther
  <1> QED BY <1>3, <1>4

\* A sweep finds the transaction it has saved.
LEMMA ReleaseBySweep ==
    ASSUME TypeInv, SavedInv, OutletInv, ReleaseInv, NEW s \in Sweepers, ReleaseConnector(s)
    PROVE  ReleaseInv' /\ ReleasesFinished
  <1> DEFINE t == sweep[s].t
             c == tx[t].connector
  <1>0. /\ [Next]_vars /\ up /\ UNCHANGED <<up, tx, job, session, stopQ>>
        /\ job.pc = "free" /\ Finished(t)
    BY DEF Next, SweepStep, ReleaseConnector, MuxFree, Free, chargerVars, SavedInv
  <1>1. \/ UNCHANGED <<ptr, dbPtr>>
        \/ /\ ptr[c] = t /\ ptr' = [ptr EXCEPT ![c] = NoTx]
           /\ dbPtr' = dbPtr \/ dbPtr' = [dbPtr EXCEPT ![c] = NoTx]
    BY DEF ReleaseConnector, UpdateConnector
  <1> HIDE DEF t, c
  <1>2. \A d \in Connectors :
           \/ dbPtr'[d] = dbPtr[d] /\ ptr'[d] = ptr[d]
           \/ dbPtr'[d] \in {dbPtr[d], NoTx} /\ ptr'[d] = NoTx /\ Finished(ptr[d])
    BY <1>0, <1>1 DEF TypeInv, TypeOK
  <1>3. \A d \in Connectors, u \in TxIds : InUse(d, u)' => InUse(d, u)
    BY <1>0, UseStays
  <1>4. ReleaseInv'
    BY <1>0, <1>2, <1>3, ReleaseKept DEF ReleaseInv, NoOther
  <1>5. ReleasesFinished
    BY <1>0, <1>2 DEF ReleasesFinished, ReleaseInv, NoOther
  <1> QED BY <1>4, <1>5

LEMMA ReleaseRestart ==
    ASSUME TypeInv, OutletInv, ReleaseInv, Crash \/ OnStart
    PROVE  ReleaseInv' /\ ReleasesFinished
  <1>0. [Next]_vars /\ UNCHANGED <<tx, session, stopQ>>
    BY DEF Next, Crash, OnStart, dbVars, chargerVars
  <1>1. \A d \in Connectors, u \in TxIds : InUse(d, u)' => InUse(d, u)
    BY <1>0, UseStays
  <1>2. CASE Crash
    <2>1. ~up' /\ dbPtr' = dbPtr /\ ptr' = [c \in Connectors |-> NoTx] /\ job'.pc = "free"
      BY <1>2 DEF Crash, dbVars, Free
    <2>2. ReleaseInv'
      BY <1>0, <1>1, <2>1, ReleaseKept DEF ReleaseInv, NoOther
    <2> QED BY <2>1, <2>2 DEF ReleasesFinished
  <1>3. CASE OnStart
    <2>1. job' = job /\ job.pc = "free"
      BY <1>3 DEF OnStart, TypeInv, TypeOK, References, Job
    <2>2. PICK unread \in SUBSET Connectors, unsaved \in SUBSET Connectors :
             LoadConnectors(unread, unsaved)
      BY <1>3 DEF OnStart
    <2>3. \A c \in Connectors :
             \/ dbPtr'[c] = dbPtr[c] /\ ptr'[c] = dbPtr[c]
             \/ dbPtr'[c] \in {dbPtr[c], NoTx} /\ ptr'[c] = NoTx /\ Finished(dbPtr[c])
      BY <2>2 DEF LoadConnectors, KnownFinished
    <2>4. ReleaseInv'
      BY <1>0, <1>1, <2>1, <2>3, ReleaseKept DEF ReleaseInv, NoOther
    <2> QED BY <2>3, <2>4 DEF ReleasesFinished
  <1> QED BY <1>2, <1>3

LEMMA ReleaseSteps ==
    ASSUME "UpdateTransaction" \notin FaultKinds,
           TypeInv, SavedInv, HeldInv, OutletInv, ReleaseInv, [Next]_vars
    PROVE  ReleaseInv' /\ ReleasesFinished
  <1>1. CASE Bystander
    <2>1. \A d \in Connectors, u \in TxIds : InUse(d, u)' => InUse(d, u)
      BY <1>1, UseStays DEF Bystander
    <2>2. job.pc \in {"purge", "release"} => job.t \in TxIds /\ tx'[job.t].st = "finished"
      BY FinishedStays DEF ReleaseInv, TypeInv, TypeOK
    <2>3. ReleaseInv'
      BY <1>1, <2>1, <2>2, ReleaseKept DEF Bystander, ReleaseInv
    <2> QED BY <1>1, <2>3 DEF Bystander, ReleasesFinished
  <1> QED BY <1>1, ConnectorSteps, ReleaseCharger, ReleaseStart, ReleaseStop, ReleaseWrite,
       ReleaseLink, ReleaseByStop, ReleaseStatus, ReleaseBySweep, ReleaseRestart DEF JobStep

LEMMA ReleaseInit == Init => ReleaseInv
  BY DEF Init, ReleaseInv, InUse, NoOther, NoSession, Free

\* As long as transactions can be saved and chargers wait for the answer to
\* their stop, no connector document is taken away from a transaction that is
\* still open: by no handler, sweep or restart, and also when the connector
\* itself cannot be saved.
THEOREM ReleasedWhenFinished ==
    ASSUME ~LateStops, "AddTransaction" \notin FaultKinds,
           "GetLastTransaction" \notin FaultKinds, "UpdateTransaction" \notin FaultKinds
    PROVE  Spec => ReleasedOnlyOnceFinished
  <1> DEFINE Inv == TypeInv /\ IdsInv /\ SavedInv /\ HeldInv /\ OutletInv /\ ReleaseInv
  <1>1. Init => Inv
    <2>1. Init => SavedInv
      BY DEF Init, SavedInv, Free, Idle
    <2> QED BY <2>1, TypeInit, IdsInit, HeldInit, OutletInit, ReleaseInit
  <1>2. Inv /\ [Next]_vars => Inv'
    BY TypeStep, IdsStep, SavedStep, HeldStep, OutletStep, ReleaseSteps
  <1>3. Inv /\ [Next]_vars
        => [\A c \in Connectors :
               dbPtr[c] # NoTx /\ dbPtr'[c] # dbPtr[c] => ~Open(dbPtr[c])]_vars
    BY ReleaseSteps DEF ReleasesFinished, Finished, Open
  <1> HIDE DEF Inv
  <1> QED BY <1>1, <1>2, <1>3, PTL DEF Spec, ReleasedOnlyOnceFinished

-----------------------------------------------------------------------------
(***************************************************************************)
(* Memory and database.  When connectors can be saved as well, the two     *)
(* pointers differ only on the connector that OnStartTransaction has       *)
(* claimed and not yet linked, and a connector in use holds at most the    *)
(* transaction it is in use for.  If updates of transactions do not fail   *)
(* either, a session that is recorded as open is in the document too, from *)
(* where a restart takes it back.                                          *)
(***************************************************************************)
FinishesAreSaved == "UpdateTransaction" \notin FaultKinds

AgreeInv ==
    /\ up => \A c \in Connectors :
          \/ ptr[c] = dbPtr[c]
          \/ job.pc \in {"add", "link"} /\ job.c = c /\ dbPtr[c] = NoTx
    /\ \A c \in Connectors, t \in TxIds :
          InUse(c, t) => dbPtr[c] \in {NoTx, t} /\ ptr[c] \in {NoTx, t}
    /\ FinishesAreSaved =>
          \A c \in Connectors : session[c].st = "on" /\ Open(session[c].id) =>
              dbPtr[c] = session[c].id /\ (up => ptr[c] = session[c].id)
    /\ \A t \in registered : \E c \in Connectors : ptr[c] = t
    /\ job.pc \in {"write", "purge", "release"} => job.t \notin registered

\* An open document of a running session was open before.
LEMMA OpenBefore ==
    ASSUME TypeInv, [Next]_vars, NEW t, NEW c \in Connectors, BelongsTo(t, c), Open(t)'
    PROVE  Open(t)
  <1>1. t \in TxIds /\ Stored(t) /\ tx[t] \in TxDoc
    BY DEF BelongsTo, TypeInv, TypeOK
  <1> QED BY <1>1, FinishedStays DEF Stored, Open, Finished, TxDoc

\* The steps that leave the pointers alone.
LEMMA AgreeKept ==
    ASSUME TypeInv, OutletInv, AgreeInv, [Next]_vars,
           UNCHANGED <<up, ptr, dbPtr>>, registered' \subseteq registered,
           \A c \in Connectors, t \in TxIds :
              InUse(c, t)' => InUse(c, t) \/ (ptr[c] = t /\ dbPtr[c] = t),
           \A c \in Connectors : session'[c].st = "on" =>
              \/ session[c].st = "on" /\ session'[c].id = session[c].id
              \/ session'[c].id = ptr[c] /\ session'[c].id = dbPtr[c],
           \/ job' = job
           \/ /\ job.pc \in {"add", "link"} => job'.pc \in {"add", "link"} /\ job'.c = job.c
              /\ job'.pc \in {"write", "purge", "release"} => job'.t \notin registered'
    PROVE  AgreeInv'
  <1>1. \A c \in Connectors : session[c].st = "on" => BelongsTo(session[c].id, c)
    BY DEF OutletInv
  <1>2. ASSUME FinishesAreSaved,
               NEW c \in Connectors, session'[c].st = "on", tx'[session'[c].id].st = "open"
        PROVE  dbPtr'[c] = session'[c].id /\ (up' => ptr'[c] = session'[c].id)
    <2>1. CASE session[c].st = "on" /\ session'[c].id = session[c].id
      <3>1. PICK t : t = session[c].id
        OBVIOUS
      <3>2. Open(t)'
        BY <1>2, <2>1, <3>1 DEF Open
      <3>3. Open(t)
        BY <1>1, <2>1, <3>1, <3>2, OpenBefore
      <3> QED BY <1>2, <2>1, <3>1, <3>3 DEF AgreeInv
    <2>2. CASE session'[c].id = ptr[c] /\ session'[c].id = dbPtr[c]
      BY <2>2
    <2> QED BY <1>2, <2>1, <2>2
  <1>3. \A c \in Connectors, t \in TxIds :
           InUse(c, t)' => dbPtr'[c] \in {NoTx, t} /\ ptr'[c] \in {NoTx, t}
    BY DEF AgreeInv
  <1>4. up' => \A c \in Connectors :
           \/ ptr'[c] = dbPtr'[c]
           \/ job'.pc \in {"add", "link"} /\ job'.c = c /\ dbPtr'[c] = NoTx
    BY DEF AgreeInv
  <1>5. \A t \in registered' : \E c \in Connectors : ptr'[c] = t
    BY DEF AgreeInv
  <1>6. job'.pc \in {"write", "purge", "release"} => job'.t \notin registered'
    BY DEF AgreeInv
  <1> QED BY <1>2, <1>3, <1>4, <1>5, <1>6 DEF AgreeInv, Open

\* The steps that change pointers but neither sessions nor documents.
LEMMA AgreeMoved ==
    ASSUME TypeInv, OutletInv, AgreeInv, [Next]_vars,
           UNCHANGED <<tx, session>>,
           \A t \in TxIds : stopQ'[t] \in {stopQ[t], NoStop},
           up' => \A c \in Connectors :
              \/ ptr'[c] = dbPtr'[c]
              \/ job'.pc \in {"add", "link"} /\ job'.c = c /\ dbPtr'[c] = NoTx,
           \A c \in Connectors, t \in TxIds :
              InUse(c, t) => dbPtr'[c] \in {NoTx, t} /\ ptr'[c] \in {NoTx, t},
           FinishesAreSaved =>
              \A c \in Connectors : session[c].st = "on" /\ Open(session[c].id) =>
                  dbPtr'[c] = session[c].id /\ (up' => ptr'[c] = session[c].id),
           \A t \in registered' : \E c \in Connectors : ptr'[c] = t,
           job'.pc \in {"write", "purge", "release"} => job' = job /\ registered' \subseteq registered
    PROVE  AgreeInv'
  <1>1. \A c \in Connectors, t \in TxIds : InUse(c, t)' => InUse(c, t)
    BY UseStays
  <1>2. \A c \in Connectors, t \in TxIds :
           InUse(c, t)' => dbPtr'[c] \in {NoTx, t} /\ ptr'[c] \in {NoTx, t}
    BY <1>1
  <1>3. job'.pc \in {"write", "purge", "release"} => job'.t \notin registered'
    BY DEF AgreeInv
  <1> QED BY <1>2, <1>3 DEF AgreeInv, Open

LEMMA AgreeCharger ==
    ASSUME TypeInv, OutletInv, AgreeInv, NEW c \in Connectors, PlugIn(c) \/ Unplug(c)
    PROVE  AgreeInv'
  <1>0. [Next]_vars /\ UNCHANGED <<up, ptr, dbPtr, registered, tx, job>>
    BY DEF Next, PlugIn, Unplug, memVars, dbVars
  <1>1. CASE PlugIn(c)
    <2>1. \A d \in Connectors : session'[d].st = "on" => session'[d] = session[d]
      BY <1>1 DEF PlugIn, TypeInv, TypeOK, Session
    <2>2. \A d \in Connectors, t \in TxIds : InUse(d, t)' => InUse(d, t)
      BY <1>0, <1>1, <2>1, UseStays DEF PlugIn
    <2> QED BY <1>0, <2>1, <2>2, AgreeKept
  <1>2. CASE Unplug(c)
    <2>1. /\ session[c].st = "on" /\ session[c].id \in TxIds
          /\ tx[session[c].id].connector = c
          /\ stopQ' = [stopQ EXCEPT ![session[c].id] = session[c].energy]
      BY <1>2 DEF Unplug, OutletInv, BelongsTo
    <2>2. \A d \in Connectors : session'[d].st = "on" => session'[d] = session[d]
      BY <1>2 DEF Unplug, NoSession, TypeInv, TypeOK
    <2>3. \A t \in TxIds : t # session[c].id => stopQ'[t] = stopQ[t]
      BY <2>1 DEF TypeInv, TypeOK
    <2>4. \A d \in Connectors, t \in TxIds : InUse(d, t)' => InUse(d, t)
      BY <1>0, <2>1, <2>2, <2>3 DEF InUse
    <2> QED BY <1>0, <2>2, <2>4, AgreeKept
  <1> QED BY <1>1, <1>2

LEMMA AgreeStart ==
    ASSUME "UpdateConnector" \notin FaultKinds,
           TypeInv, HeldInv, OutletInv, AgreeInv, NEW c \in Connectors, OnStartTransaction(c)
    PROVE  AgreeInv'
  <1>0. /\ [Next]_vars /\ session[c].st = "starting" /\ session[c] \in Session
        /\ job.pc = "free" /\ up /\ UNCHANGED <<stopQ, tx>>
        /\ ptr \in [Connectors -> TxIds \cup {NoTx}]
        /\ dbPtr \in [Connectors -> TxIds \cup {NoTx}]
        /\ registered \subseteq TxIds
    BY DEF Next, OnStartTransaction, MuxFree, Free, TypeInv, TypeOK, chargerVars, dbVars,
         StartBlocked, StartRepeated, StartRefused, StartOverFinished, StartFresh, Claim
  <1>1. ptr[c] = dbPtr[c] /\ \A d \in Connectors : ptr[d] = dbPtr[d]
    BY <1>0 DEF AgreeInv
  <1>2. ASSUME NEW s, Answer(c, s), s.st = "on" => s.id = ptr[c],
               UNCHANGED <<up, ptr, dbPtr, registered, job>>
        PROVE  AgreeInv'
    <2>1. \A d \in Connectors, t \in TxIds : d # c /\ InUse(d, t)' => InUse(d, t)
      BY <1>0, <1>2, AnswerShows, UseStays
    <2>2. session'[c].st = "on" => session'[c].id = ptr[c]
      BY <1>0, <1>2, AnswerShows
    <2>3. \A t \in TxIds : InUse(c, t)' => t = ptr[c]
      <3>1. \A t \in TxIds : stopQ[t] # NoStop => tx'[t].connector # c
        BY <1>0 DEF OutletInv, QueueEmpty
      <3> QED BY <1>0, <2>2, <3>1 DEF InUse
    <2>4. \A d \in Connectors : d # c => session'[d] = session[d]
      BY <1>2, AnswerShows
    <2> QED BY <1>0, <1>1, <1>2, <2>1, <2>2, <2>3, <2>4, AgreeKept
  <1>3. CASE StartBlocked(c) \/ StartRefused(c)
    BY <1>2, <1>3 DEF StartBlocked, StartRefused, NoSession, memVars, dbVars
  <1>4. CASE StartRepeated(c)
    <2> DEFINE s == [session[c] EXCEPT !.st = "on", !.id = ptr[c]]
    <2>1. Answer(c, s) /\ UNCHANGED <<up, ptr, dbPtr, registered, job>>
      BY <1>4 DEF StartRepeated, memVars, dbVars
    <2>2. s.id = ptr[c]
      BY <1>0 DEF Session
    <2> HIDE DEF s
    <2> QED BY <1>2, <2>1, <2>2
  <1>5. ASSUME NEW cleared, Claim(c, cleared), ptr[c] \in cleared \cup {NoTx},
               dbPtr' = [dbPtr EXCEPT ![c] = NoTx]
        PROVE  AgreeInv'
    <2>1. /\ job'.pc = "add" /\ job'.c = c /\ UNCHANGED <<up, session>>
          /\ ptr' = [ptr EXCEPT ![c] = nextId]
          /\ registered' = (registered \ cleared) \cup {nextId}
      BY <1>5 DEF Claim, Free, chargerVars
    <2>2. ptr'[c] = nextId /\ dbPtr'[c] = NoTx
      BY <1>0, <1>5, <2>1
    <2>3. \A d \in Connectors : d # c => ptr'[d] = ptr[d] /\ dbPtr'[d] = dbPtr[d]
      BY <1>0, <1>5, <2>1
    <2>4. \A t \in registered' : \E d \in Connectors : ptr'[d] = t
      <3>1. NoTx \notin registered
        BY <1>0 DEF TxIds, NoTx
      <3>2. ASSUME NEW t \in registered, t \notin cleared
            PROVE  \E d \in Connectors : ptr'[d] = t
        <4>1. PICK d \in Connectors : ptr[d] = t
          BY DEF AgreeInv
        <4>2. d # c
          BY <1>5, <3>1, <3>2, <4>1
        <4> QED BY <2>3, <4>1, <4>2
      <3> QED BY <2>1, <2>2, <3>2
    <2>5. \A d \in Connectors, t \in TxIds :
             InUse(d, t) => dbPtr'[d] \in {NoTx, t} /\ ptr'[d] \in {NoTx, t}
      BY <1>0, <2>3, StartingUnused DEF AgreeInv
    <2>6. FinishesAreSaved => \A d \in Connectors :
           session[d].st = "on" /\ Open(session[d].id) =>
             dbPtr'[d] = session[d].id /\ ptr'[d] = session[d].id
      BY <1>0, <2>3 DEF AgreeInv
    <2> QED BY <1>0, <1>1, <2>1, <2>2, <2>3, <2>4, <2>5, <2>6, AgreeMoved
  <1>6. CASE StartOverFinished(c)
    <2>1. dbPtr' = [dbPtr EXCEPT ![c] = NoTx]
      BY <1>6 DEF StartOverFinished, UpdateConnector, Fails
    <2> QED BY <1>5, <1>6, <2>1 DEF StartOverFinished
  <1>7. CASE StartFresh(c)
    <2>1. ptr[c] = NoTx
      BY <1>0, <1>7 DEF StartFresh, HeldInv, BelongsTo, StoredIds
    <2>2. dbPtr' = [dbPtr EXCEPT ![c] = NoTx]
      BY <1>0, <1>1, <1>7, <2>1 DEF StartFresh
    <2> QED BY <1>5, <1>7, <2>1, <2>2 DEF StartFresh
  <1> QED BY <1>3, <1>4, <1>6, <1>7 DEF OnStartTransaction

LEMMA AgreeStop ==
    ASSUME TypeInv, OutletInv, AgreeInv, NEW t \in TxIds, OnStopTransaction(t)
    PROVE  AgreeInv'
  <1>0. /\ [Next]_vars /\ UNCHANGED <<up, ptr, dbPtr>> /\ job.pc = "free"
        /\ registered' = registered \ {t}
    BY DEF Next, OnStopTransaction, MuxFree, Free, dbVars
  <1>1. session' = session /\ \A u \in TxIds : stopQ'[u] \in {stopQ[u], NoStop}
    BY DEF OnStopTransaction, StopUnreadable, StopRepeated, StopTaken, Acknowledge,
         chargerVars, TypeInv, TypeOK
  <1>2. \A c \in Connectors, u \in TxIds : InUse(c, u)' => InUse(c, u)
    BY <1>0, <1>1, UseStays
  <1>3. job' = job \/ job'.t = t
    <2>1. CASE StopUnreadable(t)
      BY <2>1 DEF StopUnreadable
    <2>2. CASE StopRepeated(t)
      BY <2>2 DEF StopRepeated, Free
    <2>3. CASE StopTaken(t)
      BY <2>3 DEF StopTaken
    <2> QED BY <2>1, <2>2, <2>3 DEF OnStopTransaction
  <1> QED BY <1>0, <1>1, <1>2, <1>3, AgreeKept

LEMMA AgreeJob ==
    ASSUME "UpdateConnector" \notin FaultKinds,
           TypeInv, HeldInv, OutletInv, AgreeInv, JobStep
    PROVE  AgreeInv'
  <1>0. /\ [Next]_vars /\ job \in Job /\ up /\ job.c \in Connectors /\ job.t \in TxIds
        /\ ptr \in [Connectors -> TxIds \cup {NoTx}]
        /\ dbPtr \in [Connectors -> TxIds \cup {NoTx}]
        /\ registered \subseteq TxIds
    BY DEF Next, JobStep, AddTransaction, LinkConnector, StopWrite, StopPurge, StopRelease,
         TypeInv, TypeOK, References
  <1>1. CASE AddTransaction \/ StopWrite \/ StopPurge
    <2>1. UNCHANGED <<up, ptr, registered, dbPtr, session, stopQ>>
      BY <1>1 DEF AddTransaction, StopWrite, StopPurge, memVars, chargerVars
    <2>2. /\ job'.c = job.c /\ job'.t = job.t
          /\ \/ job.pc = "add" /\ job'.pc = "link"
             \/ job.pc \in {"write", "purge"} /\ job'.pc \in {"purge", "release"}
      <3>1. CASE AddTransaction
        BY <1>0, <3>1 DEF AddTransaction, Job
      <3>2. CASE StopWrite \/ StopPurge
        BY <1>0, <3>2 DEF StopWrite, StopPurge, Job
      <3> QED BY <1>1, <3>1, <3>2
    <2>3. \A c \in Connectors, t \in TxIds : InUse(c, t)' => InUse(c, t)
      BY <1>0, <2>1, UseStays
    <2> QED BY <1>0, <2>1, <2>2, <2>3, AgreeKept DEF AgreeInv
  <1>2. CASE LinkConnector
    <2> DEFINE s == [session[job.c] EXCEPT !.st = "on", !.id = job.t]
    <2>1. /\ job.pc = "link" /\ Answer(job.c, s) /\ session[job.c] \in Session
          /\ job'.pc = "free" /\ UNCHANGED <<up, ptr, registered, tx, stopQ>>
      BY <1>2 DEF LinkConnector, Free, memVars, TypeInv, TypeOK
    <2>2. s.st = "on" /\ s.id = job.t
      BY <2>1 DEF Session
    <2> HIDE DEF s
    <2>3. dbPtr' = [dbPtr EXCEPT ![job.c] = ptr[job.c]]
      BY <1>2 DEF LinkConnector, UpdateConnector, Fails
    <2>4. ptr[job.c] = job.t /\ session[job.c].st = "starting"
      BY <2>1 DEF HeldInv, OutletInv
    <2>5. \A c \in Connectors : ptr'[c] = ptr[c] /\ dbPtr'[c] = ptr[c]
      BY <1>0, <2>1, <2>3 DEF AgreeInv
    <2>6. /\ session'[job.c].st = "on" => session'[job.c].id = job.t
          /\ \A c \in Connectors : c # job.c => session'[c] = session[c]
      BY <1>0, <2>1, <2>2, <2>4, AnswerShows
    <2>7. ASSUME NEW c \in Connectors, NEW t \in TxIds, InUse(c, t)'
          PROVE  ptr[c] \in {NoTx, t}
      <3>1. CASE c = job.c
        <4>1. stopQ[t] # NoStop => tx'[t].connector # c
          BY <2>1, <2>4, <3>1 DEF OutletInv, QueueEmpty
        <4>2. t = job.t
          BY <2>1, <2>6, <2>7, <3>1, <4>1 DEF InUse
        <4> QED BY <2>4, <3>1, <4>2
      <3>2. CASE c # job.c
        <4>1. InUse(c, t)
          BY <1>0, <2>1, <2>6, <2>7, <3>2, UseStays
        <4> QED BY <4>1 DEF AgreeInv
      <3> QED BY <3>1, <3>2
    <2>8. ASSUME FinishesAreSaved,
                 NEW c \in Connectors, session'[c].st = "on", tx'[session'[c].id].st = "open"
          PROVE  ptr[c] = session'[c].id
      <3>1. CASE c = job.c
        BY <2>4, <2>6, <2>8, <3>1
      <3>2. CASE c # job.c
        BY <1>0, <2>1, <2>6, <2>8, <3>2 DEF AgreeInv, Open
      <3> QED BY <3>1, <3>2
    <2>9. \A t \in registered' : \E c \in Connectors : ptr'[c] = t
      BY <2>1 DEF AgreeInv
    <2> QED BY <2>1, <2>5, <2>7, <2>8, <2>9 DEF AgreeInv, Open
  <1>3. CASE StopRelease
    <2>1. /\ job.pc = "release" /\ job'.pc = "free" /\ UNCHANGED <<up, tx, session, registered>>
          /\ ptr' = [ptr EXCEPT ![job.c] = NoTx]
          /\ \A t \in TxIds : stopQ'[t] \in {stopQ[t], NoStop}
      BY <1>3 DEF StopRelease, Free, Acknowledge, TypeInv, TypeOK
    <2>2. dbPtr' = [dbPtr EXCEPT ![job.c] = NoTx]
      BY <1>3 DEF StopRelease, UpdateConnector, Fails
    <2>3. /\ ptr'[job.c] = NoTx /\ dbPtr'[job.c] = NoTx
          /\ \A c \in Connectors : c # job.c => ptr'[c] = ptr[c] /\ dbPtr'[c] = dbPtr[c]
      BY <1>0, <2>1, <2>2
    <2>4. /\ stopQ[job.t] # NoStop /\ tx[job.t].connector = job.c
          /\ job.t \notin registered
      BY <2>1 DEF OutletInv, AgreeInv, TypeInv, References
    <2>5. session[job.c].st # "on" /\ ptr[job.c] \in {NoTx, job.t}
      BY <1>0, <2>4 DEF OutletInv, AgreeInv, QueueEmpty, InUse
    <2>6. \A t \in registered' : \E c \in Connectors : ptr'[c] = t
      <3>1. ASSUME NEW t \in registered PROVE \E c \in Connectors : ptr'[c] = t
        <4>1. PICK c \in Connectors : ptr[c] = t
          BY DEF AgreeInv
        <4>2. c # job.c
          BY <1>0, <2>4, <2>5, <4>1 DEF TxIds, NoTx
        <4> QED BY <2>3, <4>1, <4>2
      <3> QED BY <2>1, <3>1
    <2>7. \A c \in Connectors, t \in TxIds :
             InUse(c, t) => dbPtr'[c] \in {NoTx, t} /\ ptr'[c] \in {NoTx, t}
      BY <2>3 DEF AgreeInv
    <2>8. FinishesAreSaved => \A c \in Connectors :
           session[c].st = "on" /\ Open(session[c].id) =>
             dbPtr'[c] = session[c].id /\ ptr'[c] = session[c].id
      BY <1>0, <2>3, <2>5 DEF AgreeInv
    <2>9. \A c \in Connectors : ptr'[c] = dbPtr'[c]
      BY <1>0, <2>1, <2>3 DEF AgreeInv
    <2> QED BY <1>0, <2>1, <2>6, <2>7, <2>8, <2>9, AgreeMoved
  <1> QED BY <1>1, <1>2, <1>3 DEF JobStep

LEMMA AgreeStatus ==
    ASSUME TypeInv, OutletInv, AgreeInv, NEW c \in Connectors, NEW available \in BOOLEAN,
           OnStatusNotification(c, available)
    PROVE  AgreeInv'
  <1>0. /\ [Next]_vars /\ up /\ UNCHANGED <<up, ptr, registered, tx, job, session, stopQ>>
        /\ job.pc = "free"
    BY DEF Next, OnStatusNotification, MuxFree, Free, memVars, chargerVars
  <1>1. dbPtr' = dbPtr
    BY <1>0 DEF OnStatusNotification, UpdateConnector, AgreeInv, TypeInv, TypeOK
  <1>2. \A d \in Connectors, t \in TxIds : InUse(d, t)' => InUse(d, t)
    BY <1>0, UseStays
  <1> QED BY <1>0, <1>1, <1>2, AgreeKept

LEMMA AgreeSweep ==
    ASSUME "UpdateConnector" \notin FaultKinds,
           TypeInv, FinishesAreSaved => SavedInv, OutletInv, AgreeInv,
           NEW s \in Sweepers, ReleaseConnector(s)
    PROVE  AgreeInv'
  <1> DEFINE t == sweep[s].t
             c == tx[t].connector
  <1>0. /\ [Next]_vars /\ up /\ UNCHANGED <<up, tx, job, session, stopQ>>
        /\ job.pc = "free" /\ t \in TxIds /\ c \in Connectors
        /\ FinishesAreSaved => Finished(t)
        /\ registered' = registered \ {t}
    BY DEF Next, SweepStep, ReleaseConnector, MuxFree, Free, chargerVars, SavedInv, TypeInv,
         TypeOK, References, StoredIds
  <1>1. \/ UNCHANGED <<ptr, dbPtr>>
        \/ /\ ptr[c] = t /\ ptr' = [ptr EXCEPT ![c] = NoTx]
           /\ dbPtr' = [dbPtr EXCEPT ![c] = NoTx]
    BY DEF ReleaseConnector, UpdateConnector, Fails
  <1> HIDE DEF t, c
  <1>2. CASE UNCHANGED <<ptr, dbPtr>>
    <2>1. \A d \in Connectors, u \in TxIds : InUse(d, u)' => InUse(d, u)
      BY <1>0, UseStays
    <2> QED BY <1>0, <1>2, <2>1, AgreeKept
  <1>3. CASE /\ ptr[c] = t /\ ptr' = [ptr EXCEPT ![c] = NoTx]
             /\ dbPtr' = [dbPtr EXCEPT ![c] = NoTx]
    <2>1. /\ ptr'[c] = NoTx /\ dbPtr'[c] = NoTx
          /\ \A d \in Connectors : d # c => ptr'[d] = ptr[d] /\ dbPtr'[d] = dbPtr[d]
      BY <1>0, <1>3 DEF TypeInv, TypeOK
    <2>2. \A u \in registered' : \E d \in Connectors : ptr'[d] = u
      <3>1. ASSUME NEW u \in registered, u # t PROVE \E d \in Connectors : ptr'[d] = u
        <4>1. PICK d \in Connectors : ptr[d] = u
          BY DEF AgreeInv
        <4> QED BY <1>3, <2>1, <3>1, <4>1
      <3> QED BY <1>0, <3>1
    <2>3. \A d \in Connectors, u \in TxIds :
             InUse(d, u) => dbPtr'[d] \in {NoTx, u} /\ ptr'[d] \in {NoTx, u}
      BY <2>1 DEF AgreeInv
    <2>4. FinishesAreSaved => \A d \in Connectors :
           session[d].st = "on" /\ Open(session[d].id) =>
             dbPtr'[d] = session[d].id /\ ptr'[d] = session[d].id
      BY <1>0, <1>3, <2>1 DEF AgreeInv, Open, Finished
    <2>5. \A d \in Connectors : ptr'[d] = dbPtr'[d]
      BY <1>0, <2>1 DEF AgreeInv
    <2> QED BY <1>0, <2>2, <2>3, <2>4, <2>5, AgreeMoved
  <1> QED BY <1>1, <1>2, <1>3

LEMMA AgreeRestart ==
    ASSUME "UpdateConnector" \notin FaultKinds, TypeInv, OutletInv, AgreeInv, Crash \/ OnStart
    PROVE  AgreeInv'
  <1>0. [Next]_vars /\ UNCHANGED <<tx, session, stopQ>>
    BY DEF Next, Crash, OnStart, dbVars, chargerVars
  <1>1. CASE Crash
    <2>1. /\ ~up' /\ dbPtr' = dbPtr /\ ptr' = [c \in Connectors |-> NoTx] /\ job'.pc = "free"
          /\ registered' = {}
      BY <1>1 DEF Crash, dbVars, Free
    <2>2. \A c \in Connectors, t \in TxIds :
             InUse(c, t) => dbPtr'[c] \in {NoTx, t} /\ ptr'[c] \in {NoTx, t}
      BY <2>1 DEF AgreeInv
    <2>3. FinishesAreSaved => \A c \in Connectors :
           session[c].st = "on" /\ Open(session[c].id) =>
             dbPtr'[c] = session[c].id
      BY <2>1 DEF AgreeInv
    <2> QED BY <1>0, <2>1, <2>2, <2>3, AgreeMoved
  <1>2. CASE OnStart
    <2>1. job' = job /\ job.pc = "free"
      BY <1>2 DEF OnStart, TypeInv, TypeOK, References, Job
    <2>2. PICK unread \in SUBSET Connectors : LoadConnectors(unread, {})
      BY <1>2 DEF OnStart, Fails
    <2>3. \A c \in Connectors :
             /\ ptr'[c] = dbPtr'[c]
             /\ dbPtr'[c] = dbPtr[c] \/ (dbPtr'[c] = NoTx /\ Finished(dbPtr[c]))
      BY <2>2 DEF LoadConnectors, KnownFinished
    <2>4. \A t \in registered' : \E c \in Connectors : ptr'[c] = t
      BY <2>2 DEF LoadConnectors
    <2>5. \A c \in Connectors, t \in TxIds :
             InUse(c, t) => dbPtr'[c] \in {NoTx, t} /\ ptr'[c] \in {NoTx, t}
      BY <2>3 DEF AgreeInv
    <2>6. FinishesAreSaved => \A c \in Connectors :
           session[c].st = "on" /\ Open(session[c].id) =>
             dbPtr'[c] = session[c].id /\ ptr'[c] = session[c].id
      BY <2>3 DEF AgreeInv, Open, Finished
    <2> QED BY <1>0, <2>1, <2>3, <2>4, <2>5, <2>6, AgreeMoved
  <1> QED BY <1>1, <1>2

LEMMA AgreeStep ==
    ASSUME "UpdateConnector" \notin FaultKinds,
           TypeInv, FinishesAreSaved => SavedInv, HeldInv, OutletInv, AgreeInv, [Next]_vars
    PROVE  AgreeInv'
  <1>1. CASE Bystander
    <2>1. \A c \in Connectors, t \in TxIds : InUse(c, t)' => InUse(c, t)
      BY <1>1, UseStays DEF Bystander
    <2> QED BY <1>1, <2>1, AgreeKept DEF Bystander
  <1> QED BY <1>1, ConnectorSteps, AgreeCharger, AgreeStart, AgreeStop, AgreeJob, AgreeStatus,
       AgreeSweep, AgreeRestart

LEMMA AgreeInit == Init => AgreeInv
  BY DEF Init, AgreeInv, InUse, NoSession, Free

\* The failures that leave every connector with the right transaction are reads
\* of single documents, updates of a transaction, and meter values that are not
\* deleted.  All the others insert a transaction, write a connector, or read the
\* last id.
ConnectorsAreSaved ==
    /\ ~LateStops
    /\ FaultKinds \cap {"AddTransaction", "UpdateConnector", "GetLastTransaction"} = {}

Agreement ==
    /\ TypeInv /\ IdsInv /\ HeldInv /\ OutletInv /\ AgreeInv
    /\ FinishesAreSaved => SavedInv

LEMMA AgreementHolds == ASSUME ConnectorsAreSaved PROVE Spec => []Agreement
  <1>1. Init => Agreement
    <2>1. Init => SavedInv
      BY DEF Init, SavedInv, Free, Idle
    <2> QED BY <2>1, TypeInit, IdsInit, HeldInit, OutletInit, AgreeInit DEF Agreement
  <1>2. Agreement /\ [Next]_vars => Agreement'
    <2> SUFFICES ASSUME Agreement, [Next]_vars PROVE Agreement'
      OBVIOUS
    <2>1. FinishesAreSaved => SavedInv'
      BY SavedStep DEF Agreement, FinishesAreSaved
    <2>2. TypeInv' /\ IdsInv' /\ HeldInv' /\ OutletInv' /\ AgreeInv'
      BY TypeStep, IdsStep, HeldStep, OutletStep, AgreeStep DEF Agreement, ConnectorsAreSaved
    <2> QED BY <2>1, <2>2 DEF Agreement, FinishesAreSaved
  <1> QED BY <1>1, <1>2, PTL DEF Spec

\* Whoever is charging keeps the outlet: while the session is recorded as open
\* the connector is held by it, also after the process died and came back.
THEOREM DriverKeepsConnector ==
    ASSUME ConnectorsAreSaved, FinishesAreSaved
    PROVE  Spec => []LiveSessionHoldsConnector
  <1>1. Agreement => LiveSessionHoldsConnector
    BY DEF Agreement, AgreeInv, LiveSessionHoldsConnector
  <1> QED BY <1>1, AgreementHolds, PTL

\* Between two handlers memory and database hold the same transactions, and
\* the gauge counts no other.
THEOREM MemoryAgrees ==
    ASSUME ConnectorsAreSaved PROVE Spec => []MemoryMatchesDatabase
  <1>1. Agreement => MemoryMatchesDatabase
    <2> SUFFICES ASSUME Agreement, MuxFree PROVE MemoryMatchesDatabase
      BY DEF MemoryMatchesDatabase
    <2>1. /\ ptr \in [Connectors -> TxIds \cup {NoTx}]
          /\ dbPtr \in [Connectors -> TxIds \cup {NoTx}]
          /\ up /\ job.pc = "free"
      BY DEF Agreement, TypeInv, TypeOK, MuxFree, Free
    <2>2. ptr = dbPtr
      BY <2>1 DEF Agreement, AgreeInv
    <2>3. registered \subseteq {ptr[c] : c \in Connectors}
      BY DEF Agreement, AgreeInv
    <2> QED BY <2>2, <2>3 DEF MemoryMatchesDatabase
  <1> QED BY <1>1, AgreementHolds, PTL
=============================================================================
