-------------------------- MODULE MigrationsProofs --------------------------
(***************************************************************************)
(* A stored version is an applied version, the backlog is gone when        *)
(* version 3 is stored, a repeated migration undoes nothing and none       *)
(* touches a live session, for any collections and any number of deaths    *)
(* and rollbacks.                                                          *)
(***************************************************************************)
EXTENDS Migrations, TLAPS

\* Which steps belong to which migration.
StepOfVersion ==
    /\ run.pc \in Collections => run.v = 1
    /\ run.pc = "trigger" => run.v = 2
    /\ run.pc \in {"find", "next", "release", "orphans"} => run.v = 3
    /\ run.pc = "store" => run.v \in 1..3

\* What the steps so far have done to the fields and flags.
Applied ==
    /\ run.pc \in {"connectors", "transactions"} => bare["charge_points"] = {}
    /\ run.pc = "transactions" => bare["connectors"] = {}
    /\ run.pc = "store" /\ run.v = 1 => \A col \in Collections : bare[col] = {}
    /\ run.pc = "store" /\ run.v = 2 => \A cp \in ChargePoints : trigger[cp] # "missing"

\* What they have left of the backlog: the candidates hold all that is still to
\* be closed, the connectors read all that are still pinned.
BacklogLeft ==
    /\ run.pc \in {"next", "release"} =>
          \A t \in TxIds : Abandoned(t) /\ ~tx[t].billed => t \in run.todo
    /\ run.pc = "orphans" \/ (run.pc = "store" /\ run.v = 3) =>
          \A t \in TxIds : Abandoned(t) => tx[t].billed
    /\ run.pc = "orphans" => \A c \in Connectors : Finished(holds[c]) => c \in run.pinned
    /\ run.pc = "store" /\ run.v = 3 => \A c \in Connectors : ~Finished(holds[c])

Progress == StepOfVersion /\ Applied /\ BacklogLeft
Inv == TypeOK /\ VersionMeansDone /\ Progress

LEMMA DownIsRun == Down \in Run /\ Down.pc = "down"
  BY DEF Down, At, Run, Last, Collections

\* The documents a collection holds are documents.
LEMMA StoredAreDocs == \A col \in Collections : Stored(col) \subseteq Docs
  BY DEF Stored, Collections, Docs

\* What RunMigrations and StoreVersion go on with.
LEMMA BeginTyped ==
    ASSUME NEW v \in 1..4
    PROVE  /\ Begin(v) \in Run
           /\ Begin(v).pc \in {"charge_points", "trigger", "find", "serving"}
           /\ Begin(v).pc # "serving" => Begin(v).v = v
           /\ Begin(v).pc = "charge_points" => v = 1
           /\ Begin(v).pc = "trigger" => v = 2
           /\ Begin(v).pc = "find" => v = 3
  <1>1. CASE v = 4
    BY <1>1 DEF Begin, At, Run, Last, Collections
  <1>2. CASE v \in 1..3
    <2> DEFINE s == FirstStep(v)
    <2>1. /\ s \in {"charge_points", "trigger", "find"}
          /\ (s = "charge_points" => v = 1) /\ (s = "trigger" => v = 2) /\ (s = "find" => v = 3)
      BY <1>2 DEF FirstStep
    <2>2. Begin(v) = [pc |-> s, v |-> v, todo |-> {}, t |-> NoTx, pinned |-> {}]
      BY <1>2 DEF Begin, At, Last
    <2> HIDE DEF s
    <2> QED BY <1>2, <2>1, <2>2 DEF Run, Last, Collections
  <1> QED BY <1>1, <1>2

\* A run that has just begun, or has not, has nothing to show for yet.
LEMMA FreshRun ==
    ASSUME run' \in Run, run'.pc \in {"charge_points", "trigger", "find", "serving", "down"},
           run'.pc = "charge_points" => run'.v = 1,
           run'.pc = "trigger" => run'.v = 2,
           run'.pc = "find" => run'.v = 3
    PROVE  Progress'
  BY DEF Progress, StepOfVersion, Applied, BacklogLeft, Collections

LEMMA InvInit == Init => Inv
  <1> SUFFICES ASSUME Init PROVE Inv
    OBVIOUS
  <1>1. TypeOK
    <2>1. tx \in [TxIds -> TxDoc]
      BY DEF Init, InitialTx
    <2>2. bare \in [Collections -> SUBSET Docs]
      BY StoredAreDocs DEF Init
    <2>3. trigger \in [ChargePoints -> {"missing", "on", "off"}]
      BY DEF Init
    <2>4. /\ version \in 0..Last
          /\ sample \in [TxIds -> Samples]
          /\ holds \in [Connectors -> TxIds \cup {NoTx}]
          /\ run = Down /\ deaths = 0 /\ rollbacks = 0
      BY DEF Init
    <2> QED BY <2>1, <2>2, <2>3, <2>4, DownIsRun, MigrationsAssumption DEF TypeOK
  <1>2. VersionMeansDone
    <2>1. ASSUME version >= 1, NEW col \in Collections PROVE bare[col] = {}
      BY <2>1 DEF Init, Last
    <2>2. ASSUME version >= 2, NEW cp \in ChargePoints PROVE trigger[cp] # "missing"
      <3>1. trigger \in [ChargePoints -> {"on", "off"}]
        BY <2>2 DEF Init, Last
      <3> QED BY <3>1
    <2> QED BY <2>1, <2>2 DEF VersionMeansDone
  <1>3. Progress
    BY DownIsRun DEF Init, Progress, StepOfVersion, Applied, BacklogLeft, Collections
  <1> QED BY <1>1, <1>2, <1>3 DEF Inv

LEMMA InvStep == Inv /\ [Next]_vars => Inv'
  <1> SUFFICES ASSUME Inv, [Next]_vars PROVE Inv'
    OBVIOUS
  <1> USE DEF Inv, database
  <1>1. CASE RunMigrations
    <2>1. version + 1 \in 1..4
      BY DEF TypeOK, Last
    <2>2. TypeOK'
      BY <1>1, <2>1, BeginTyped DEF RunMigrations, TypeOK
    <2>3. VersionMeansDone'
      BY <1>1 DEF RunMigrations, VersionMeansDone
    <2>4. Progress'
      BY <1>1, <2>1, <2>2, BeginTyped, FreshRun DEF RunMigrations, TypeOK
    <2> QED BY <2>2, <2>3, <2>4
  <1>2. CASE MultiVersionUp
    <2>1. run.pc \in Collections /\ run.v = 1 /\ version = 0
      BY <1>2 DEF MultiVersionUp, TypeOK, Progress, StepOfVersion, Collections, Last
    <2>2. CASE bare[run.pc] = {}
      <3>1. run' = [run EXCEPT !.pc = After(run.pc)] /\ UNCHANGED <<version, bare, trigger, tx, sample, holds, deaths, rollbacks>>
        BY <1>2, <2>2 DEF MultiVersionUp
      <3>2. After(run.pc) \in {"connectors", "transactions", "store"}
        BY <2>1 DEF After, Collections
      <3>3. TypeOK'
        BY <2>1, <3>1, <3>2 DEF TypeOK, Run, Collections, Last
      <3>4. VersionMeansDone'
        BY <3>1 DEF VersionMeansDone
      <3>5. run'.pc = After(run.pc) /\ run'.v = 1
        BY <2>1, <3>1 DEF TypeOK, Run
      <3>6. Applied'
        BY <2>1, <2>2, <3>1, <3>5 DEF Progress, Applied, After, Collections
      <3>7. StepOfVersion' /\ BacklogLeft'
        BY <3>2, <3>5 DEF StepOfVersion, BacklogLeft, Collections
      <3> QED BY <3>3, <3>4, <3>6, <3>7 DEF Progress
    <2>3. CASE bare[run.pc] # {}
      <3>1. PICK d \in bare[run.pc] : bare' = [bare EXCEPT ![run.pc] = @ \ {d}]
        BY <1>2, <2>3 DEF MultiVersionUp
      <3>2. UNCHANGED <<version, trigger, tx, sample, holds, run, deaths, rollbacks>>
        BY <1>2, <2>3 DEF MultiVersionUp
      <3>3. \A col \in Collections : bare'[col] \subseteq bare[col]
        BY <3>1 DEF TypeOK
      <3>4. TypeOK'
        BY <3>1, <3>2 DEF TypeOK
      <3>5. VersionMeansDone'
        BY <2>1, <3>2 DEF VersionMeansDone
      <3>6. Progress'
        BY <3>2, <3>3, <2>1 DEF Progress, StepOfVersion, Applied, BacklogLeft, Collections, Abandoned, Open, Finished
      <3> QED BY <3>4, <3>5, <3>6
    <2> QED BY <2>2, <2>3
  <1>3. CASE TriggerMessageUp
    <2>1. run.pc = "trigger" /\ run.v = 2 /\ version = 1
      BY <1>3 DEF TriggerMessageUp, TypeOK, Progress, StepOfVersion, Last
    <2>2. CASE /\ \A cp \in ChargePoints : ~LacksTrigger(cp)
               /\ run' = [run EXCEPT !.pc = "store"]
               /\ UNCHANGED <<version, bare, trigger, tx, sample, holds, deaths, rollbacks>>
      <3>1. TypeOK'
        BY <2>1, <2>2 DEF TypeOK, Run, Collections, Last
      <3>2. run'.pc = "store" /\ run'.v = 2
        BY <2>1, <2>2 DEF TypeOK, Run
      <3>3. VersionMeansDone'
        BY <2>2 DEF VersionMeansDone
      <3>4. Progress'
        BY <2>1, <2>2, <3>2 DEF Progress, StepOfVersion, Applied, BacklogLeft, Collections, LacksTrigger
      <3> QED BY <3>1, <3>3, <3>4
    <2>3. CASE \E cp \in ChargePoints : /\ trigger' = [trigger EXCEPT ![cp] = "on"]
                                        /\ UNCHANGED <<version, bare, tx, sample, holds, run, deaths, rollbacks>>
      <3>1. TypeOK'
        BY <2>3 DEF TypeOK
      <3>2. VersionMeansDone'
        BY <2>1, <2>3 DEF VersionMeansDone
      <3>3. Progress'
        BY <2>1, <2>3 DEF Progress, StepOfVersion, Applied, BacklogLeft, Collections
      <3> QED BY <3>1, <3>2, <3>3
    <2> QED BY <1>3, <2>2, <2>3 DEF TriggerMessageUp
  <1>4. CASE StuckTransactionsUp
    <2>1. run' \in Run /\ run'.pc = "next" /\ run'.todo = Candidates /\ run'.v = run.v
      BY <1>4 DEF StuckTransactionsUp, TypeOK, Run, Candidates
    <2>2. TypeOK'
      BY <1>4, <2>1 DEF StuckTransactionsUp, TypeOK
    <2>3. VersionMeansDone'
      BY <1>4 DEF StuckTransactionsUp, VersionMeansDone
    <2>4. Progress'
      BY <1>4, <2>1 DEF StuckTransactionsUp, Progress, StepOfVersion, Applied, BacklogLeft, Candidates, Abandoned, Open, Collections
    <2> QED BY <2>2, <2>3, <2>4
  <1>5. CASE CloseTransaction
    <2>1. PICK t \in run.todo :
            \/ Skipped(t) /\ run' = [run EXCEPT !.todo = @ \ {t}] /\ UNCHANGED tx
            \/ /\ ~Skipped(t)
               /\ tx' = [tx EXCEPT ![t] = Closed(t)]
               /\ run' = [run EXCEPT !.pc = "release", !.t = t, !.todo = @ \ {t}]
      BY <1>5 DEF CloseTransaction
    <2>2. run.pc = "next" /\ run.v = 3 /\ t \in TxIds
          /\ UNCHANGED <<version, bare, trigger, sample, holds, deaths, rollbacks>>
      BY <1>5 DEF CloseTransaction, TypeOK, Run, Progress, StepOfVersion
    <2>3. Closed(t) \in TxDoc /\ Closed(t).st = "finished"
      BY <2>2 DEF TypeOK, TxDoc, Closed, BacklogReasons
    <2>4. run' \in Run /\ run'.pc \in {"next", "release"} /\ run'.v = 3 /\ run'.todo = run.todo \ {t}
          /\ (run'.pc = "release" => run'.t \in TxIds)
      <3>1. CASE run' = [run EXCEPT !.todo = @ \ {t}]
        BY <2>2, <3>1 DEF TypeOK, Run
      <3>2. CASE run' = [run EXCEPT !.pc = "release", !.t = t, !.todo = @ \ {t}]
        BY <2>2, <3>2 DEF TypeOK, Run
      <3> QED BY <2>1, <3>1, <3>2
    <2>5. TypeOK'
      BY <2>1, <2>2, <2>3, <2>4 DEF TypeOK
    <2>6. VersionMeansDone'
      BY <2>2 DEF VersionMeansDone
    <2>7. ASSUME NEW u \in TxIds, Abandoned(u)', ~tx'[u].billed PROVE u \in run'.todo
      <3>1. CASE u = t
        <4>1. CASE Skipped(t) /\ UNCHANGED tx
          BY <2>2, <2>7, <3>1, <4>1 DEF Skipped, Abandoned
        <4>2. CASE tx' = [tx EXCEPT ![t] = Closed(t)]
          BY <2>2, <2>3, <2>7, <3>1, <4>2 DEF Abandoned, Open, TypeOK
        <4> QED BY <2>1, <4>1, <4>2
      <3>2. CASE u # t
        <4>1. tx'[u] = tx[u]
          BY <2>1, <3>2 DEF TypeOK
        <4>2. u \in run.todo
          BY <2>2, <2>7, <4>1 DEF Progress, BacklogLeft, Abandoned, Open
        <4> QED BY <2>4, <3>2, <4>2
      <3> QED BY <3>1, <3>2
    <2>8. BacklogLeft'
      BY <2>4, <2>7 DEF BacklogLeft
    <2>9. StepOfVersion' /\ Applied'
      BY <2>4 DEF StepOfVersion, Applied, Collections
    <2> QED BY <2>5, <2>6, <2>8, <2>9 DEF Progress
  <1>6. CASE ReleaseConnector
    <2>1. run.pc = "release" /\ run.v = 3 /\ UNCHANGED <<version, bare, trigger, tx, sample, deaths, rollbacks>>
      BY <1>6 DEF ReleaseConnector, Progress, StepOfVersion
    <2>2. run' \in Run /\ run'.pc = "next" /\ run'.v = 3 /\ run'.todo = run.todo
      BY <1>6, <2>1 DEF ReleaseConnector, TypeOK, Run, Collections
    <2>3. holds' \in [Connectors -> TxIds \cup {NoTx}]
      BY <1>6 DEF ReleaseConnector, TypeOK
    <2>4. TypeOK'
      BY <1>6, <2>1, <2>2, <2>3 DEF ReleaseConnector, TypeOK
    <2>5. VersionMeansDone'
      BY <2>1 DEF VersionMeansDone
    <2>6. Progress'
      BY <2>1, <2>2 DEF Progress, StepOfVersion, Applied, BacklogLeft, Collections, Abandoned, Open
    <2> QED BY <2>4, <2>5, <2>6
  <1>7. CASE ReadPinned
    <2>1. run.pc = "next" /\ run.v = 3 /\ run.todo = {} /\ UNCHANGED <<database, deaths, rollbacks>>
      BY <1>7 DEF ReadPinned, Progress, StepOfVersion
    <2>2. run' \in Run /\ run'.pc = "orphans" /\ run'.v = 3 /\ run'.pinned = {c \in Connectors : holds[c] # NoTx}
      BY <1>7, <2>1 DEF ReadPinned, TypeOK, Run, Collections
    <2>3. TypeOK'
      BY <2>1, <2>2, <1>7 DEF ReadPinned, TypeOK
    <2>4. VersionMeansDone'
      BY <2>1 DEF VersionMeansDone
    <2>5. \A c \in Connectors : Finished(holds[c]) => c \in run'.pinned
      BY <2>2, MigrationsAssumption DEF Finished, NoTx
    <2>6. Progress'
      BY <2>1, <2>2, <2>5 DEF Progress, StepOfVersion, Applied, BacklogLeft, Collections, Abandoned, Open, Finished
    <2> QED BY <2>3, <2>4, <2>6
  <1>8. CASE ReleaseOrphanedConnectors
    <2>1. run.pc = "orphans" /\ run.v = 3 /\ UNCHANGED <<version, bare, trigger, tx, sample, deaths, rollbacks>>
      BY <1>8 DEF ReleaseOrphanedConnectors, Progress, StepOfVersion
    <2>2. VersionMeansDone'
      BY <2>1 DEF VersionMeansDone
    <2>3. CASE run.pinned = {} /\ run' = [run EXCEPT !.pc = "store"] /\ UNCHANGED holds
      <3>1. run' \in Run /\ run'.pc = "store" /\ run'.v = 3
        BY <2>1, <2>3 DEF TypeOK, Run, Collections
      <3>2. TypeOK'
        BY <2>1, <2>3, <3>1 DEF TypeOK
      <3>3. Progress'
        BY <2>1, <2>3, <3>1 DEF Progress, StepOfVersion, Applied, BacklogLeft, Collections, Abandoned, Open, Finished
      <3> QED BY <2>2, <3>2, <3>3
    <2>4. CASE \E c \in run.pinned :
                 /\ holds' = [holds EXCEPT ![c] = IF PointsAtFinished(c) THEN NoTx ELSE @]
                 /\ run' = [run EXCEPT !.pinned = @ \ {c}]
      <3>1. PICK c \in run.pinned :
                 /\ holds' = [holds EXCEPT ![c] = IF PointsAtFinished(c) THEN NoTx ELSE @]
                 /\ run' = [run EXCEPT !.pinned = @ \ {c}]
        BY <2>4
      <3>2. run' \in Run /\ run'.pc = "orphans" /\ run'.v = 3 /\ run'.pinned = run.pinned \ {c} /\ run'.t = run.t
        BY <2>1, <3>1 DEF TypeOK, Run
      <3>3. TypeOK'
        BY <2>1, <3>1, <3>2 DEF TypeOK
      <3>4. ASSUME NEW d \in Connectors, Finished(holds[d])' PROVE d \in run'.pinned
        BY <2>1, <3>1, <3>2, <3>4, MigrationsAssumption
           DEF Finished, PointsAtFinished, Progress, BacklogLeft, TypeOK, Run, NoTx
      <3>5. Progress'
        BY <2>1, <3>2, <3>4 DEF Progress, StepOfVersion, Applied, BacklogLeft, Collections, Abandoned, Open
      <3> QED BY <2>2, <3>3, <3>5
    <2> QED BY <1>8, <2>3, <2>4 DEF ReleaseOrphanedConnectors
  <1>9. CASE StoreVersion
    <2>1. run.pc = "store" /\ run.v \in 1..3 /\ run.v = version + 1 /\ version' = run.v
          /\ UNCHANGED <<bare, trigger, tx, sample, holds, deaths, rollbacks>>
      BY <1>9 DEF StoreVersion, TypeOK, Progress, StepOfVersion
    <2>2. run.v + 1 \in 1..4 /\ run' = Begin(run.v + 1)
      BY <1>9, <2>1 DEF StoreVersion
    <2>3. TypeOK'
      BY <2>1, <2>2, BeginTyped DEF TypeOK, Last
    <2>4. VersionMeansDone'
      <3>1. \A col \in Collections : bare[col] = {}
        BY <2>1 DEF VersionMeansDone, Progress, Applied, TypeOK
      <3>2. run.v >= 2 => \A cp \in ChargePoints : trigger[cp] # "missing"
        BY <2>1 DEF VersionMeansDone, Progress, Applied, TypeOK
      <3> QED BY <2>1, <3>1, <3>2 DEF VersionMeansDone
    <2>5. Progress'
      BY <2>2, <2>3, BeginTyped, FreshRun DEF TypeOK
    <2> QED BY <2>3, <2>4, <2>5
  <1>10. CASE Die
    <2>1. TypeOK'
      BY <1>10, DownIsRun, MigrationsAssumption DEF Die, TypeOK
    <2>2. VersionMeansDone'
      BY <1>10 DEF Die, VersionMeansDone
    <2>3. Progress'
      BY <1>10, <2>1, DownIsRun, FreshRun DEF Die, TypeOK
    <2> QED BY <2>1, <2>2, <2>3
  <1>11. CASE DayPasses
    <2>1. tx' \in [TxIds -> TxDoc] /\ sample' \in [TxIds -> Samples]
      BY <1>11 DEF DayPasses, TypeOK, TxDoc, Samples
    <2>2. TypeOK'
      BY <1>11, <2>1 DEF DayPasses, TypeOK
    <2>3. VersionMeansDone'
      BY <1>11 DEF DayPasses, VersionMeansDone
    <2>4. Progress'
      BY <1>11, <2>2, FreshRun DEF DayPasses, TypeOK
    <2> QED BY <2>2, <2>3, <2>4
  <1>12. ASSUME NEW cp \in ChargePoints, OptOut(cp) PROVE Inv'
    <2>1. \A p \in ChargePoints : trigger[p] # "missing" => trigger'[p] # "missing"
      BY <1>12 DEF OptOut, TypeOK
    <2>2. TypeOK'
      BY <1>12 DEF OptOut, TypeOK
    <2>3. VersionMeansDone'
      BY <1>12, <2>1 DEF OptOut, VersionMeansDone
    <2>4. Progress'
      BY <1>12, <2>1 DEF OptOut, Progress, StepOfVersion, Applied, BacklogLeft, Abandoned, Open, Finished
    <2> QED BY <2>2, <2>3, <2>4
  <1>13. ASSUME NEW v \in 1..Last, RollBack(v) PROVE Inv'
    <2>1. version' = v - 1 /\ version' \in 0..2 /\ version' < version
          /\ run.pc = "down" /\ UNCHANGED <<sample, holds, run, deaths>>
      BY <1>13 DEF RollBack, TypeOK, Last
    <2>2. bare' \in [Collections -> SUBSET Docs] /\ (v # 1 => UNCHANGED bare)
      BY <1>13, StoredAreDocs DEF RollBack, MultiVersionDown, TriggerMessageDown, StuckTransactionsDown, TypeOK
    <2>3. trigger' \in [ChargePoints -> {"missing", "on", "off"}] /\ (v # 2 => UNCHANGED trigger)
      BY <1>13 DEF RollBack, MultiVersionDown, TriggerMessageDown, StuckTransactionsDown, TypeOK
    <2>4. tx' \in [TxIds -> TxDoc]
      <3>1. \A t \in TxIds : Reopened(t) \in TxDoc
        BY DEF Reopened, TypeOK, TxDoc
      <3> QED BY <1>13, <3>1 DEF RollBack, MultiVersionDown, TriggerMessageDown, StuckTransactionsDown, TypeOK
    <2>5. rollbacks' \in 0..MaxRollbacks
      BY <1>13, MigrationsAssumption DEF RollBack, TypeOK
    <2>6. TypeOK'
      BY <2>1, <2>2, <2>3, <2>4, <2>5 DEF TypeOK, Last
    <2>7. VersionMeansDone'
      BY <2>1, <2>2, <2>3 DEF VersionMeansDone, TypeOK, Last
    <2>8. Progress'
      BY <2>1, <2>6, FreshRun DEF TypeOK
    <2> QED BY <2>6, <2>7, <2>8
  <1>14. CASE UNCHANGED vars
    BY <1>14 DEF vars, TypeOK, VersionMeansDone, Progress, StepOfVersion, Applied, BacklogLeft, Abandoned, Open, Finished
  <1> QED BY <1>1, <1>2, <1>3, <1>4, <1>5, <1>6, <1>7, <1>8, <1>9, <1>10, <1>11, <1>12, <1>13, <1>14
          DEF Next, Step

\* A stored version is an applied one, however often RunMigrations was
\* interrupted or rolled back.
THEOREM VersionsAreApplied == Spec => []VersionMeansDone
  <1>1. Inv => VersionMeansDone
    BY DEF Inv
  <1> QED BY <1>1, InvInit, InvStep, PTL DEF Spec

\* Version 3 is stored over a database without pinned connectors and without
\* abandoned transactions, except for those that are billed.
THEOREM BacklogCloses == Spec => BacklogIsGone
  <1> DEFINE Gone == version < 3 /\ version' = 3 =>
                        /\ \A c \in Connectors : ~Finished(holds[c])
                        /\ \A t \in TxIds : Abandoned(t) => tx[t].billed
  <1>1. Inv /\ [Next]_vars => [Gone]_vars
    <2> SUFFICES ASSUME Inv, Next, version < 3, version' = 3
                 PROVE  /\ \A c \in Connectors : ~Finished(holds[c])
                        /\ \A t \in TxIds : Abandoned(t) => tx[t].billed
      OBVIOUS
    <2>1. CASE StoreVersion
      BY <2>1 DEF StoreVersion, Inv, Progress, BacklogLeft
    <2>2. CASE Next /\ ~StoreVersion
      <3>1. version' = version \/ \E v \in 1..Last : version' = v - 1
        BY <2>2 DEF Next, Step, RunMigrations, MultiVersionUp, TriggerMessageUp, StuckTransactionsUp,
           CloseTransaction, ReleaseConnector, ReadPinned, ReleaseOrphanedConnectors, Die, DayPasses,
           OptOut, RollBack, database
      <3> QED BY <3>1 DEF Inv, TypeOK, Last
    <2> QED BY <2>1, <2>2
  <1> QED BY <1>1, InvInit, InvStep, PTL DEF Spec, BacklogIsGone

-----------------------------------------------------------------------------
(***************************************************************************)
(* What a repeated migration finds.  The candidates of migration 3 are     *)
(* open and old when they are closed, whatever was done since the query,   *)
(* and the transaction whose connector is released is finished by then.    *)
(***************************************************************************)
Untouched ==
    /\ \A t \in TxIds : Open(t) => tx[t].reason = ""
    /\ \A t \in run.todo : Open(t) /\ tx[t].old
    /\ run.pc = "release" => Finished(run.t)

LEMMA UntouchedInit == Init => Untouched
  <1> SUFFICES ASSUME Init PROVE Untouched
    OBVIOUS
  <1>1. \A t \in TxIds : Open(t) => tx[t].reason = ""
    BY DEF Init, InitialTx, Open
  <1>2. run.todo = {} /\ run.pc = "down"
    BY DEF Init, Down, At
  <1> QED BY <1>1, <1>2 DEF Untouched

LEMMA BeginsEmpty ==
    ASSUME NEW v PROVE Begin(v).todo = {} /\ Begin(v).pc # "release"
  BY DEF Begin, At, FirstStep

LEMMA UntouchedStep == TypeOK /\ Untouched /\ [Next]_vars => Untouched'
  <1> SUFFICES ASSUME TypeOK, Untouched, [Next]_vars PROVE Untouched'
    OBVIOUS
  <1>1. ASSUME UNCHANGED tx, run'.todo \subseteq run.todo,
               run'.pc = "release" => run.pc = "release" /\ run'.t = run.t
        PROVE  Untouched'
    BY <1>1 DEF Untouched, Open, Finished
  <1>2. CASE RunMigrations
    <2>1. run' = Begin(version + 1) /\ UNCHANGED tx
      BY <1>2 DEF RunMigrations, database
    <2> QED BY <1>1, <2>1, BeginsEmpty
  <1>3. CASE StoreVersion
    <2>1. run' = Begin(run.v + 1) /\ UNCHANGED tx
      BY <1>3 DEF StoreVersion
    <2> QED BY <1>1, <2>1, BeginsEmpty
  <1>4. CASE MultiVersionUp
    <2>1. UNCHANGED tx /\ (UNCHANGED run \/ run' = [run EXCEPT !.pc = After(run.pc)])
      BY <1>4 DEF MultiVersionUp
    <2>2. After(run.pc) # "release"
      BY DEF After
    <2>3. run'.todo = run.todo /\ (UNCHANGED run \/ run'.pc # "release")
      BY <2>1, <2>2 DEF TypeOK, Run
    <2> QED BY <1>1, <2>1, <2>3
  <1>5. CASE TriggerMessageUp
    <2>1. UNCHANGED tx /\ (UNCHANGED run \/ run' = [run EXCEPT !.pc = "store"])
      BY <1>5 DEF TriggerMessageUp
    <2>2. run'.todo = run.todo /\ (UNCHANGED run \/ run'.pc # "release")
      BY <2>1 DEF TypeOK, Run
    <2> QED BY <1>1, <2>1, <2>2
  <1>6. CASE StuckTransactionsUp
    <2>1. run'.todo = Candidates /\ run'.pc = "next" /\ UNCHANGED tx
      BY <1>6 DEF StuckTransactionsUp, TypeOK, Run, database
    <2> QED BY <2>1 DEF Untouched, Candidates, Open
  <1>7. CASE CloseTransaction
    <2>1. PICK t \in run.todo :
            \/ run' = [run EXCEPT !.todo = @ \ {t}] /\ UNCHANGED tx
            \/ /\ tx' = [tx EXCEPT ![t] = Closed(t)]
               /\ run' = [run EXCEPT !.pc = "release", !.t = t, !.todo = @ \ {t}]
      BY <1>7 DEF CloseTransaction
    <2>2. run.pc = "next" /\ t \in TxIds
      BY <1>7 DEF CloseTransaction, TypeOK, Run
    <2>3. CASE run' = [run EXCEPT !.todo = @ \ {t}] /\ UNCHANGED tx
      <3>1. run'.todo \subseteq run.todo /\ run'.pc = "next"
        BY <2>2, <2>3 DEF TypeOK, Run
      <3> QED BY <1>1, <2>3, <3>1
    <2>4. CASE /\ tx' = [tx EXCEPT ![t] = Closed(t)]
               /\ run' = [run EXCEPT !.pc = "release", !.t = t, !.todo = @ \ {t}]
      <3>1. run'.todo = run.todo \ {t} /\ run'.t = t
        BY <2>4 DEF TypeOK, Run
      <3>2. Closed(t).st = "finished"
        BY <2>2 DEF Closed, TypeOK, TxDoc
      <3>3. tx'[t].st = "finished" /\ \A u \in TxIds : u # t => tx'[u] = tx[u]
        BY <2>2, <2>4, <3>2 DEF TypeOK
      <3>4. run.todo \subseteq TxIds
        BY DEF TypeOK, Run
      <3> QED BY <2>2, <3>1, <3>3, <3>4 DEF Untouched, Open, Finished
    <2> QED BY <2>1, <2>3, <2>4
  <1>8. CASE ReleaseConnector
    <2>1. run'.todo = run.todo /\ run'.pc = "next" /\ UNCHANGED tx
      BY <1>8 DEF ReleaseConnector, TypeOK, Run
    <2> QED BY <1>1, <2>1
  <1>9. CASE ReadPinned
    <2>1. run'.todo = run.todo /\ run'.pc = "orphans" /\ UNCHANGED tx
      BY <1>9 DEF ReadPinned, TypeOK, Run, database
    <2> QED BY <1>1, <2>1
  <1>10. CASE ReleaseOrphanedConnectors
    <2>1. /\ UNCHANGED tx /\ run.pc = "orphans"
          /\ \/ run' = [run EXCEPT !.pc = "store"]
             \/ \E c \in run.pinned : run' = [run EXCEPT !.pinned = @ \ {c}]
      BY <1>10 DEF ReleaseOrphanedConnectors
    <2>2. run'.todo = run.todo /\ run'.pc # "release"
      BY <2>1 DEF TypeOK, Run
    <2> QED BY <1>1, <2>1, <2>2
  <1>11. CASE Die
    <2>1. run'.todo = {} /\ run'.pc = "down" /\ UNCHANGED tx
      BY <1>11 DEF Die, Down, At, database
    <2> QED BY <1>1, <2>1
  <1>12. CASE DayPasses
    <2>1. UNCHANGED run /\ run.pc = "down"
      BY <1>12 DEF DayPasses
    <2>2. \A t \in TxIds : tx'[t].st = tx[t].st /\ tx'[t].reason = tx[t].reason /\ tx'[t].old
      BY <1>12 DEF DayPasses, TypeOK, TxDoc
    <2>3. run.todo \subseteq TxIds
      BY DEF TypeOK, Run
    <2> QED BY <2>1, <2>2, <2>3 DEF Untouched, Open
  <1>13. ASSUME NEW cp \in ChargePoints, OptOut(cp) PROVE Untouched'
    BY <1>1, <1>13 DEF OptOut
  <1>14. ASSUME NEW v \in 1..Last, RollBack(v) PROVE Untouched'
    <2>1. UNCHANGED run /\ run.pc = "down"
      BY <1>14 DEF RollBack
    <2>2. UNCHANGED tx
          \/ tx' = [t \in TxIds |-> IF tx[t].reason \in BacklogReasons THEN Reopened(t) ELSE tx[t]]
      BY <1>14 DEF RollBack, MultiVersionDown, TriggerMessageDown, StuckTransactionsDown
    <2>3. \A t \in TxIds : /\ Reopened(t).st = "open" /\ Reopened(t).reason = ""
                           /\ Reopened(t).old = tx[t].old
      BY DEF Reopened, TypeOK, TxDoc
    <2>4. \A t \in TxIds :
             \/ tx'[t] = tx[t]
             \/ tx'[t].st = "open" /\ tx'[t].reason = "" /\ tx'[t].old = tx[t].old
      BY <2>2, <2>3
    <2>5. run.todo \subseteq TxIds
      BY DEF TypeOK, Run
    <2> QED BY <2>1, <2>4, <2>5 DEF Untouched, Open
  <1>15. CASE UNCHANGED vars
    BY <1>1, <1>15 DEF vars
  <1> QED BY <1>2, <1>3, <1>4, <1>5, <1>6, <1>7, <1>8, <1>9, <1>10, <1>11, <1>12, <1>13, <1>14, <1>15
          DEF Next, Step

\* What one step may do to a transaction, a flag and a pointer.
LEMMA StepsAreSafe ==
    ASSUME TypeOK, Untouched, Next
    PROVE  /\ \A t \in TxIds :
                /\ tx[t].reason # "" => tx'[t].reason \in {tx[t].reason, ""}
                /\ Open(t) /\ (tx[t].billed \/ ~Abandoned(t)) => tx'[t].st = "open"
           /\ \A cp \in ChargePoints : trigger[cp] = "off" => trigger'[cp] = "off"
           /\ \A c \in Connectors : holds'[c] # holds[c] => Finished(holds[c])
  <1> DEFINE TxSafe == \A t \in TxIds :
                          /\ tx[t].reason # "" => tx'[t].reason \in {tx[t].reason, ""}
                          /\ Open(t) /\ (tx[t].billed \/ ~Abandoned(t)) => tx'[t].st = "open"
             FlagSafe == \A cp \in ChargePoints : trigger[cp] = "off" => trigger'[cp] = "off"
             PtrSafe == \A c \in Connectors : holds'[c] # holds[c] => Finished(holds[c])
  <1>1. /\ UNCHANGED tx => TxSafe
        /\ UNCHANGED trigger => FlagSafe
        /\ UNCHANGED holds => PtrSafe
    BY DEF Open
  <1>2. CASE RunMigrations \/ StuckTransactionsUp \/ ReadPinned \/ Die
    BY <1>1, <1>2 DEF RunMigrations, StuckTransactionsUp, ReadPinned, Die, database
  <1>3. CASE StoreVersion \/ MultiVersionUp
    BY <1>1, <1>3 DEF StoreVersion, MultiVersionUp
  <1>4. CASE TriggerMessageUp
    <2>1. FlagSafe
      BY <1>4 DEF TriggerMessageUp, LacksTrigger, TypeOK
    <2> QED BY <1>1, <1>4, <2>1 DEF TriggerMessageUp
  <1>5. CASE CloseTransaction
    <2>1. UNCHANGED <<trigger, holds>>
      BY <1>5 DEF CloseTransaction
    <2>2. TxSafe
      <3>1. PICK t \in run.todo :
              UNCHANGED tx \/ (~Skipped(t) /\ tx' = [tx EXCEPT ![t] = Closed(t)])
        BY <1>5 DEF CloseTransaction
      <3>2. t \in TxIds /\ Open(t) /\ tx[t].old /\ tx[t].reason = ""
        BY DEF TypeOK, Run, Untouched
      <3>3. ~Skipped(t) => Abandoned(t) /\ ~tx[t].billed
        BY <3>2 DEF Skipped, Abandoned
      <3>4. CASE ~Skipped(t) /\ tx' = [tx EXCEPT ![t] = Closed(t)]
        <4>1. \A u \in TxIds : u # t => tx'[u] = tx[u]
          BY <3>4 DEF TypeOK
        <4> QED BY <3>2, <3>3, <3>4, <4>1 DEF Open
      <3> QED BY <1>1, <3>1, <3>4
    <2> QED BY <1>1, <2>1, <2>2
  <1>6. CASE ReleaseConnector
    <2>1. UNCHANGED <<trigger, tx>>
      BY <1>6 DEF ReleaseConnector
    <2>2. PtrSafe
      <3>1. Finished(run.t)
        BY <1>6 DEF ReleaseConnector, Untouched
      <3>2. \A c \in Connectors : holds'[c] # holds[c] => holds[c] = run.t
        BY <1>6 DEF ReleaseConnector, TypeOK
      <3> QED BY <3>1, <3>2
    <2> QED BY <1>1, <2>1, <2>2
  <1>7. CASE ReleaseOrphanedConnectors
    <2>1. UNCHANGED <<trigger, tx>>
      BY <1>7 DEF ReleaseOrphanedConnectors
    <2>2. PtrSafe
      BY <1>7 DEF ReleaseOrphanedConnectors, PointsAtFinished, TypeOK
    <2> QED BY <1>1, <2>1, <2>2
  <1>8. CASE DayPasses
    <2>1. UNCHANGED <<trigger, holds>>
      BY <1>8 DEF DayPasses
    <2>2. \A t \in TxIds : tx'[t].st = tx[t].st /\ tx'[t].reason = tx[t].reason
      BY <1>8 DEF DayPasses, TypeOK, TxDoc
    <2>3. TxSafe
      BY <2>2 DEF Open
    <2> QED BY <1>1, <2>1, <2>3
  <1>9. ASSUME NEW cp \in ChargePoints, OptOut(cp)
        PROVE  TxSafe /\ FlagSafe /\ PtrSafe
    <2>1. FlagSafe
      BY <1>9 DEF OptOut, TypeOK
    <2> QED BY <1>1, <1>9, <2>1 DEF OptOut
  <1>10. ASSUME NEW v \in 1..Last, RollBack(v)
         PROVE  TxSafe /\ FlagSafe /\ PtrSafe
    <2>1. PtrSafe
      BY <1>1, <1>10 DEF RollBack
    <2>2. FlagSafe
      BY <1>10 DEF RollBack, MultiVersionDown, TriggerMessageDown, StuckTransactionsDown
    <2>3. TxSafe
      <3>1. UNCHANGED tx
            \/ tx' = [t \in TxIds |-> IF tx[t].reason \in BacklogReasons THEN Reopened(t) ELSE tx[t]]
        BY <1>10 DEF RollBack, MultiVersionDown, TriggerMessageDown, StuckTransactionsDown
      <3>2. \A t \in TxIds : Reopened(t).st = "open" /\ Reopened(t).reason = ""
        BY DEF Reopened, TypeOK, TxDoc
      <3>3. \A t \in TxIds : tx'[t] = tx[t] \/ (tx'[t].st = "open" /\ tx'[t].reason = "")
        BY <3>1, <3>2
      <3> QED BY <3>3 DEF Open
    <2> QED BY <2>1, <2>2, <2>3
  <1> QED BY <1>2, <1>3, <1>4, <1>5, <1>6, <1>7, <1>8, <1>9, <1>10 DEF Next, Step

\* No migration that is run again, or rolled back, changes what it has closed
\* before, and an operator's opt-out survives all of them.
THEOREM RepeatsAreSafe == Spec => SafeToRepeat
  <1> DEFINE Safe == /\ \A t \in TxIds : tx[t].reason # "" => tx'[t].reason \in {tx[t].reason, ""}
                     /\ \A cp \in ChargePoints : trigger[cp] = "off" => trigger'[cp] = "off"
  <1>1. Inv /\ Untouched /\ [Next]_vars => [Safe]_vars
    BY StepsAreSafe DEF Inv
  <1>2. Inv /\ Untouched /\ [Next]_vars => Inv' /\ Untouched'
    BY InvStep, UntouchedStep DEF Inv
  <1> QED BY <1>1, <1>2, InvInit, UntouchedInit, PTL DEF Spec, SafeToRepeat

\* Migration 3 closes nothing that is live or billed and releases no connector
\* from a transaction that is open or unknown, whatever happens between its
\* query and its writes.
THEOREM LiveSessionsStay == Spec => LiveSessionsUntouched
  <1> DEFINE Stay == /\ \A t \in TxIds :
                          Open(t) /\ (tx[t].billed \/ ~Abandoned(t)) => tx'[t].st = "open"
                     /\ \A c \in Connectors : holds'[c] # holds[c] => Finished(holds[c])
  <1>1. Inv /\ Untouched /\ [Next]_vars => [Stay]_vars
    BY StepsAreSafe DEF Inv
  <1>2. Inv /\ Untouched /\ [Next]_vars => Inv' /\ Untouched'
    BY InvStep, UntouchedStep DEF Inv
  <1> QED BY <1>1, <1>2, InvInit, UntouchedInit, PTL DEF Spec, LiveSessionsUntouched
=============================================================================
