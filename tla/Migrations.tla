----------------------------- MODULE Migrations -----------------------------
(***************************************************************************)
(* The schema migrations that run before the server accepts connections    *)
(* (internal/migrations.go, MongoDB.RunMigrations).  UpdateMany is not     *)
(* atomic, a migration is a series of writes, and its version is stored    *)
(* after the last of them; a failed call ends the process like a death     *)
(* does, and the next start goes on from what is stored.                   *)
(*                                                                         *)
(* Nothing but the migration writes the collections while it runs.  While  *)
(* the process is down, days pass, and the operator may run the scripts of *)
(* migrations/ that roll a version back, each of them to its end: they     *)
(* write the data first and schema_version afterwards, here in one step.   *)
(*                                                                         *)
(* Left out: indexes, whose creation may fail without consequence, and the *)
(* power limit, which is reset together with the pointer of a connector.   *)
(***************************************************************************)
EXTENDS Integers

CONSTANTS
    ChargePoints,
    Connectors,
    TxIds,
    MaxDeaths,      \* bound: how often the process ends
    MaxRollbacks    \* bound: how often the operator rolls back

NoTx == -1
Last == 3

ASSUME MigrationsAssumption ==
    /\ TxIds \subseteq Nat
    /\ MaxDeaths \in Nat /\ MaxRollbacks \in Nat

VARIABLES
    version,    \* schema_version; 0 when there is none
    bare,       \* the documents without the fields of migration 1
    trigger,    \* trigger_message of each charge point
    tx,         \* transactions
    sample,     \* the newest meter value of each transaction
    holds,      \* current_transaction_id of each connector
    run,        \* RunMigrations: the migration at work and its next step
    deaths,
    rollbacks

vars == <<version, bare, trigger, tx, sample, holds, run, deaths, rollbacks>>
database == <<version, bare, trigger, tx, sample, holds>>

Collections == {"charge_points", "connectors", "transactions"}
Docs == ChargePoints \cup Connectors \cup TxIds

\* "recent": after the cutoff of stuckTransactionCutoff.
Samples == {"none", "old", "recent"}
BacklogReasons == {"stopped by system (backlog)", "aborted by system (backlog)"}
TxDoc == [st : {"absent", "open", "finished"}, connector : Connectors,
          old : BOOLEAN, billed : BOOLEAN, reason : BacklogReasons \cup {"", "other"}]

At(pc, v) == [pc |-> pc, v |-> v, todo |-> {}, t |-> NoTx, pinned |-> {}]
Down == At("down", 0)
Run == [pc : Collections \cup {"down", "trigger", "find", "next", "release",
                               "orphans", "store", "serving"},
        v : 0..Last, todo : SUBSET TxIds, t : TxIds \cup {NoTx}, pinned : SUBSET Connectors]

Open(t) == tx[t].st = "open"
Finished(t) == t \in TxIds /\ tx[t].st = "finished"

Stored(col) == CASE col = "charge_points" -> ChargePoints
                 [] col = "connectors" -> Connectors
                 [] OTHER -> {t \in TxIds : tx[t].st # "absent"}

\* Idle since before the cutoff.
Abandoned(t) == Open(t) /\ tx[t].old /\ sample[t] # "recent"

FirstStep(v) == CASE v = 1 -> "charge_points" [] v = 2 -> "trigger" [] OTHER -> "find"
Begin(v) == IF v > Last THEN At("serving", 0) ELSE At(FirstStep(v), v)

(***************************************************************************)
(* RunMigrations: all versions above the stored one, in order.             *)
(***************************************************************************)
RunMigrations ==
    /\ run.pc = "down"
    /\ run' = Begin(version + 1)
    /\ UNCHANGED <<database, deaths, rollbacks>>

StoreVersion ==
    /\ run.pc = "store"
    /\ version' = run.v
    /\ run' = Begin(run.v + 1)
    /\ UNCHANGED <<bare, trigger, tx, sample, holds, deaths, rollbacks>>

(***************************************************************************)
(* Migration 1: three UpdateMany, on the documents without the fields.     *)
(***************************************************************************)
After_Hasty(col) == IF col = "charge_points" THEN "connectors" ELSE "store"
After(col) == CASE col = "charge_points" -> "connectors"
                [] col = "connectors" -> "transactions"
                [] OTHER -> "store"

MultiVersionUp ==
    /\ run.pc \in Collections
    /\ IF bare[run.pc] = {}
       THEN run' = [run EXCEPT !.pc = After(run.pc)] /\ UNCHANGED bare
       ELSE /\ \E d \in bare[run.pc] : bare' = [bare EXCEPT ![run.pc] = @ \ {d}]
            /\ UNCHANGED run
    /\ UNCHANGED <<version, trigger, tx, sample, holds, deaths, rollbacks>>

(***************************************************************************)
(* Migration 2: charge points without the flag get it.                     *)
(***************************************************************************)
LacksTrigger(cp) == trigger[cp] = "missing"

TriggerMessageUp ==
    /\ run.pc = "trigger"
    /\ \/ /\ \A cp \in ChargePoints : ~LacksTrigger(cp)
          /\ run' = [run EXCEPT !.pc = "store"]
          /\ UNCHANGED trigger
       \/ \E cp \in ChargePoints :
             /\ LacksTrigger(cp)
             /\ trigger' = [trigger EXCEPT ![cp] = "on"]
             /\ UNCHANGED run
    /\ UNCHANGED <<version, bare, tx, sample, holds, deaths, rollbacks>>

(***************************************************************************)
(* Migration 3: one query, then close and release for every candidate,     *)
(* then the connectors that point at finished transactions.                *)
(***************************************************************************)
Candidates_Any == {t \in TxIds : tx[t].st # "absent" /\ tx[t].old}
Candidates == {t \in TxIds : Open(t) /\ tx[t].old}

StuckTransactionsUp ==
    /\ run.pc = "find"
    /\ run' = [run EXCEPT !.pc = "next", !.todo = Candidates]
    /\ UNCHANGED <<database, deaths, rollbacks>>

Skipped(t) == tx[t].billed \/ sample[t] = "recent"

Closed(t) == [tx[t] EXCEPT !.st = "finished",
                           !.reason = IF sample[t] = "none" THEN "aborted by system (backlog)"
                                      ELSE "stopped by system (backlog)"]

CloseTransaction_Again ==
    /\ run.pc = "next"
    /\ \E t \in run.todo :
          /\ ~Skipped(t)
          /\ tx' = [tx EXCEPT ![t] = Closed(t)]
          /\ run' = [run EXCEPT !.pc = "release", !.t = t, !.todo = @ \ {t}]
    /\ UNCHANGED <<version, bare, trigger, sample, holds, deaths, rollbacks>>
CloseTransaction ==
    /\ run.pc = "next"
    /\ \E t \in run.todo :
          \/ /\ Skipped(t)
             /\ run' = [run EXCEPT !.todo = @ \ {t}]
             /\ UNCHANGED tx
          \/ /\ ~Skipped(t)
             /\ tx' = [tx EXCEPT ![t] = Closed(t)]
             /\ run' = [run EXCEPT !.pc = "release", !.t = t, !.todo = @ \ {t}]
    /\ UNCHANGED <<version, bare, trigger, sample, holds, deaths, rollbacks>>

\* Only a connector that still holds the transaction.
ReleaseConnector ==
    /\ run.pc = "release"
    /\ LET c == tx[run.t].connector
       IN holds' = [holds EXCEPT ![c] = IF @ = run.t THEN NoTx ELSE @]
    /\ run' = [run EXCEPT !.pc = "next", !.t = NoTx]
    /\ UNCHANGED <<version, bare, trigger, tx, sample, deaths, rollbacks>>

ReadPinned_Skipped ==
    /\ run.pc = "next" /\ run.todo = {}
    /\ run' = [run EXCEPT !.pc = "store"]
    /\ UNCHANGED <<database, deaths, rollbacks>>
ReadPinned ==
    /\ run.pc = "next" /\ run.todo = {}
    /\ run' = [run EXCEPT !.pc = "orphans", !.pinned = {c \in Connectors : holds[c] # NoTx}]
    /\ UNCHANGED <<database, deaths, rollbacks>>

PointsAtFinished_Dead(c) == holds[c] # NoTx
PointsAtFinished(c) == Finished(holds[c])

ReleaseOrphanedConnectors ==
    /\ run.pc = "orphans"
    /\ \/ /\ run.pinned = {}
          /\ run' = [run EXCEPT !.pc = "store"]
          /\ UNCHANGED holds
       \/ \E c \in run.pinned :
             /\ holds' = [holds EXCEPT ![c] = IF PointsAtFinished(c) THEN NoTx ELSE @]
             /\ run' = [run EXCEPT !.pinned = @ \ {c}]
    /\ UNCHANGED <<version, bare, trigger, tx, sample, deaths, rollbacks>>

(***************************************************************************)
(* The process ends: it died, a call failed, or it was stopped.            *)
(***************************************************************************)
Die ==
    /\ run.pc # "down"
    /\ deaths < MaxDeaths
    /\ deaths' = deaths + 1
    /\ run' = Down
    /\ UNCHANGED <<database, rollbacks>>

\* More than the cutoff goes by before the next start.
DayPasses ==
    /\ run.pc = "down"
    /\ tx' = [t \in TxIds |-> [tx[t] EXCEPT !.old = TRUE]]
    /\ sample' = [t \in TxIds |-> IF sample[t] = "none" THEN "none" ELSE "old"]
    /\ UNCHANGED <<version, bare, trigger, holds, run, deaths, rollbacks>>

(***************************************************************************)
(* The operator.                                                           *)
(***************************************************************************)
OptOut(cp) ==
    /\ trigger' = [trigger EXCEPT ![cp] = "off"]
    /\ UNCHANGED <<version, bare, tx, sample, holds, run, deaths, rollbacks>>

MultiVersionDown ==
    /\ bare' = [col \in Collections |-> Stored(col)]
    /\ UNCHANGED <<trigger, tx>>

TriggerMessageDown ==
    /\ trigger' = [cp \in ChargePoints |-> IF trigger[cp] = "on" THEN "missing" ELSE trigger[cp]]
    /\ UNCHANGED <<bare, tx>>

\* The pointers of the connectors are not restored.
Reopened(t) == [tx[t] EXCEPT !.st = "open", !.reason = ""]

StuckTransactionsDown ==
    /\ tx' = [t \in TxIds |-> IF tx[t].reason \in BacklogReasons THEN Reopened(t) ELSE tx[t]]
    /\ UNCHANGED <<bare, trigger>>

RollBack(v) ==
    /\ run.pc = "down"
    /\ version >= v
    /\ rollbacks < MaxRollbacks
    /\ rollbacks' = rollbacks + 1
    /\ version' = v - 1
    /\ \/ v = 1 /\ MultiVersionDown
       \/ v = 2 /\ TriggerMessageDown
       \/ v = 3 /\ StuckTransactionsDown
    /\ UNCHANGED <<sample, holds, run, deaths>>

-----------------------------------------------------------------------------
\* A database as an older release left it at some version.
InitialTx ==
    {d \in TxDoc : /\ d.st = "absent" => d.reason = "" /\ ~d.old /\ ~d.billed
                   /\ d.st = "open" => d.reason = ""
                   /\ d.st = "finished" => d.reason = "other" /\ d.old /\ ~d.billed}

Init ==
    /\ version \in 0..Last
    /\ tx \in [TxIds -> InitialTx]
    /\ sample \in [TxIds -> Samples]
    /\ \A t \in TxIds : tx[t].st # "open" => sample[t] = "none"
    /\ holds \in [Connectors -> TxIds \cup {NoTx}]
    /\ bare = [col \in Collections |-> IF version = 0 THEN Stored(col) ELSE {}]
    /\ trigger \in [ChargePoints -> IF version < 2 THEN {"missing", "on", "off"} ELSE {"on", "off"}]
    /\ run = Down
    /\ deaths = 0
    /\ rollbacks = 0

Step == \/ RunMigrations \/ MultiVersionUp \/ TriggerMessageUp
        \/ StuckTransactionsUp \/ CloseTransaction \/ ReleaseConnector
        \/ ReadPinned \/ ReleaseOrphanedConnectors \/ StoreVersion

Next ==
    \/ Step
    \/ Die \/ DayPasses
    \/ \E cp \in ChargePoints : OptOut(cp)
    \/ \E v \in 1..Last : RollBack(v)

Spec == Init /\ [][Next]_vars

\* The process runs on, and is started again.
FairSpec == Spec /\ WF_vars(Step)

-----------------------------------------------------------------------------
\* Every variable has its type, and the migration at work is one above the
\* stored version.
TypeOK ==
    /\ version \in 0..Last
    /\ bare \in [Collections -> SUBSET Docs]
    /\ trigger \in [ChargePoints -> {"missing", "on", "off"}]
    /\ tx \in [TxIds -> TxDoc]
    /\ sample \in [TxIds -> Samples]
    /\ holds \in [Connectors -> TxIds \cup {NoTx}]
    /\ run \in Run
    /\ deaths \in 0..MaxDeaths
    /\ rollbacks \in 0..MaxRollbacks
    /\ run.pc = "release" => run.t \in TxIds
    /\ run.pc \notin {"down", "serving"} => run.v = version + 1

\* A stored version means that its migration was applied to every document,
\* wherever the process ended while it was at work.
VersionMeansDone ==
    /\ version >= 1 => \A col \in Collections : bare[col] = {}
    /\ version >= 2 => \A cp \in ChargePoints : trigger[cp] # "missing"

\* When version 3 is stored no connector is pinned by a finished transaction,
\* also if an earlier attempt closed the transaction and ended before the
\* release, and nothing that was idle for a day and is not billed is open.
BacklogIsGone ==
    [][version < 3 /\ version' = 3 =>
          /\ \A c \in Connectors : ~Finished(holds[c])
          /\ \A t \in TxIds : Abandoned(t) => tx[t].billed]_vars

\* Running a migration again changes nothing it did before: what is closed is
\* not closed again under another reason, and a charge point that was opted out
\* in between stays so.
SafeToRepeat ==
    [][/\ \A t \in TxIds : tx[t].reason # "" => tx'[t].reason \in {tx[t].reason, ""}
       /\ \A cp \in ChargePoints : trigger[cp] = "off" => trigger'[cp] = "off"]_vars

\* A session that is live at deploy time is never touched, a billed one neither,
\* and no connector loses a transaction that is open or unknown.
LiveSessionsUntouched ==
    [][/\ \A t \in TxIds : Open(t) /\ (tx[t].billed \/ ~Abandoned(t)) => tx'[t].st = "open"
       /\ \A c \in Connectors : holds'[c] # holds[c] => Finished(holds[c])]_vars

\* The server gets to serve, however often a migration was interrupted.
MigrationsComplete == <>[](run.pc = "serving")

=============================================================================
