---------------------------- MODULE PowerLimits ----------------------------
(***************************************************************************)
(* The load balancer of one location (power/load_balancer.go,              *)
(* power/capabilities.go).  Every StartTransaction and StopTransaction     *)
(* that was answered starts a goroutine in CheckPowerLimit: it may ask the *)
(* charge point for its smart charging limits, then takes lb.mutex, reads  *)
(* the connectors of the location from the database and works through that *)
(* copy: it clears the limits of idle connectors and sends a profile to    *)
(* every active one that has none.  The answers to the profiles arrive on  *)
(* goroutines of their own, after the mutex is gone.  A request whose      *)
(* socket closed before the answer, and a connector released by a sweep or *)
(* a reconciliation, start no check.                                       *)
(*                                                                         *)
(* SystemHandler writes the same connector documents without lb.mutex, and *)
(* with them the limit it has in memory, to which it only ever assigns 0.  *)
(* Only the smart charge points of a location with a limit are modelled:   *)
(* for all others CheckPowerLimit does nothing.  The two writes that store *)
(* a limit do not fail.  The model starts with no session under way, where *)
(* OnSystemStart has left every limit at 0.                                *)
(***************************************************************************)
EXTENDS Integers, Sequences, FiniteSets

CONSTANTS
    Connectors,
    ChargePoints,
    ChargePointOf,  \* [Connectors -> ChargePoints]
    NoChargePoint,
    Goroutines,     \* bound: CheckPowerLimit and boot goroutines at one time
    MaxTx,          \* bound: transaction ids are 1..MaxTx
    PowerSlots,     \* powerSlots, highest first
    BaseLimit,
    TopLevel,       \* smartcharging.TxProfileStackLevel
    ReportLevels,   \* what a charge point may report as its maximum level
    Retries         \* stackLevelRetries

NoTx == -1
TxIds == 1..MaxTx
Slots == {PowerSlots[i] : i \in DOMAIN PowerSlots}
Limits == Slots \cup {BaseLimit}

ASSUME BalancerAssumption ==
    /\ ChargePointOf \in [Connectors -> ChargePoints]
    /\ NoChargePoint \notin ChargePoints
    /\ MaxTx \in Nat /\ TopLevel \in Nat /\ Retries \in Nat
    /\ ReportLevels \subseteq Int
    /\ PowerSlots \in Seq(Nat) /\ BaseLimit \in Nat \ {0} /\ 0 \notin Slots
    /\ BaseLimit \notin Slots

VARIABLES
    nextTx,     \* the next transaction id
    holds,      \* connectors collection: current_transaction_id
    limit,      \* connectors collection: current_power_limit
    txLimit,    \* transactions collection: power_limit
    offline,    \* charge points that have dropped off
    caps,       \* capabilityStore
    check,      \* goroutines in CheckPowerLimit and onChargePointBoot
    pass,       \* what the holder of lb.mutex has read and still has to do
    calls,      \* profiles sent, and what became of them
    missed      \* history: the connectors that changed without a check of
                \* their own, or whose check failed or was for nothing

docVars == <<holds, limit, txLimit>>
vars == <<nextTx, docVars, offline, caps, check, pass, calls, missed>>

(***************************************************************************)
(* Records.                                                                *)
(***************************************************************************)
\* "tried": lastAttempt is less than discoveryRetryInterval ago.
Caps == [known : BOOLEAN, levelKnown : BOOLEAN, level : Int, current : BOOLEAN, tried : BOOLEAN]
NoCaps == [known |-> FALSE, levelKnown |-> FALSE, level |-> 0, current |-> FALSE, tried |-> FALSE]

Idle == [pc |-> "idle", cp |-> NoChargePoint]
Check == [pc : {"idle", "ensure", "read", "boot", "lock"}, cp : ChargePoints \cup {NoChargePoint}]

\* seen: the connectors as getLocation returned them.
NoPass == [on |-> FALSE, seen |-> [c \in Connectors |-> NoTx], clear |-> {}, assign |-> {}, slot |-> BaseLimit]
Pass == [on : BOOLEAN, seen : [Connectors -> TxIds \cup {NoTx}],
         clear : SUBSET Connectors, assign : SUBSET Connectors, slot : Limits]

\* NotSupported is treated as Rejected, Unreadable as NoResponse.
Statuses == {"Accepted", "Rejected", "NoResponse"}
Call == [st : {"sent", "retry"}, c : Connectors, t : TxIds, limit : Limits,
         level : 0..TopLevel, retries : 0..Retries]

(***************************************************************************)
(* The handlers of SystemHandler, as far as the balancer can see them.     *)
(***************************************************************************)
Spawn(pc, cp) == \E g \in Goroutines :
    /\ check[g] = Idle
    /\ check' = [check EXCEPT ![g] = [pc |-> pc, cp |-> cp]]

\* The end of a request about connector c: answered, and a check started, or
\* the socket is closed and nothing more happens.  (Today only the read pump
\* sets isClosed, after its handlers; the early return is kept all the same.)
Answered(c) ==
    \/ Spawn("ensure", ChargePointOf[c]) /\ missed' = missed \ {c}
    \/ missed' = missed \cup {c} /\ UNCHANGED check

StartTransaction(c) ==
    /\ holds[c] = NoTx
    /\ nextTx \in TxIds
    /\ nextTx' = nextTx + 1
    /\ holds' = [holds EXCEPT ![c] = nextTx]
    /\ limit' = [limit EXCEPT ![c] = 0]
    /\ Answered(c)
    /\ UNCHANGED <<txLimit, offline, caps, pass, calls>>

StopTransaction(c) ==
    /\ holds[c] # NoTx
    /\ holds' = [holds EXCEPT ![c] = NoTx]
    /\ limit' = [limit EXCEPT ![c] = 0]
    /\ Answered(c)
    /\ UNCHANGED <<nextTx, txLimit, offline, caps, pass, calls>>

\* A sweep or a reconciliation has closed the transaction: the connector is
\* released, and no check is started.
ReleaseConnector(c) ==
    /\ holds[c] # NoTx
    /\ holds' = [holds EXCEPT ![c] = NoTx]
    /\ limit' = [limit EXCEPT ![c] = 0]
    /\ missed' = missed \cup {c}
    /\ UNCHANGED <<nextTx, txLimit, offline, caps, check, pass, calls>>

\* A request whose answer was lost is sent again: a start changes nothing, a
\* stop releases once more.
RepeatRequest(c) ==
    /\ limit' = [limit EXCEPT ![c] = IF holds[c] = NoTx THEN 0 ELSE @]
    /\ Spawn("ensure", ChargePointOf[c])
    /\ UNCHANGED <<nextTx, holds, txLimit, offline, caps, pass, calls, missed>>

\* UpdateConnector writes the limit memory has, which is 0.
StatusNotification(c) ==
    /\ limit' = [limit EXCEPT ![c] = 0]
    /\ UNCHANGED <<nextTx, holds, txLimit, offline, caps, check, pass, calls, missed>>

DropOff(cp) ==
    /\ offline' = offline \cup {cp}
    /\ UNCHANGED <<nextTx, docVars, caps, check, pass, calls, missed>>

(***************************************************************************)
(* Capabilities.                                                           *)
(***************************************************************************)
OnChargePointBoot(cp) ==
    /\ Spawn("boot", cp)
    /\ UNCHANGED <<nextTx, docVars, offline, caps, pass, calls, missed>>

\* ensureCapabilities: the attempt is recorded before the read runs, and who
\* does not read goes on with the defaults.
BeginDiscovery_LoserLeaves(g) ==
    LET cp == check[g].cp
        ask == ~caps[cp].known /\ ~caps[cp].tried
    IN /\ check[g].pc = "ensure"
       /\ caps' = IF ask THEN [caps EXCEPT ![cp].tried = TRUE] ELSE caps
       /\ check' = [check EXCEPT ![g] = CASE ask -> [@ EXCEPT !.pc = "read"]
                                          [] caps[cp].known -> [@ EXCEPT !.pc = "lock"]
                                          [] OTHER -> Idle]
       /\ UNCHANGED <<nextTx, docVars, offline, pass, calls, missed>>
BeginDiscovery(g) ==
    LET cp == check[g].cp
        ask == ~caps[cp].known /\ ~caps[cp].tried
    IN /\ check[g].pc = "ensure"
       /\ caps' = IF ask THEN [caps EXCEPT ![cp].tried = TRUE] ELSE caps
       /\ check' = [check EXCEPT ![g].pc = IF ask THEN "read" ELSE "lock"]
       /\ UNCHANGED <<nextTx, docVars, offline, pass, calls, missed>>

\* A ceiling learned from a refusal is kept if it is the lower one.
Record(cp, level, current) ==
    [known |-> TRUE, levelKnown |-> TRUE, current |-> current, tried |-> FALSE,
     level |-> IF caps[cp].levelKnown /\ caps[cp].level < level
               THEN caps[cp].level ELSE level]

\* No answer, one that cannot be parsed, or a configuration: any level, and a
\* rate unit that is the hardware's and does not change.  After a boot the
\* default profile of the location is sent; nobody waits for its verdict.
DiscoverCapabilities(g) ==
    /\ check[g].pc \in {"read", "boot"}
    /\ \/ UNCHANGED caps
       \/ /\ check[g].cp \notin offline
          /\ \E level \in ReportLevels, current \in BOOLEAN :
                /\ caps[check[g].cp].known => current = caps[check[g].cp].current
                /\ caps' = [caps EXCEPT ![check[g].cp] = Record(check[g].cp, level, current)]
    /\ check' = [check EXCEPT ![g] = IF @.pc = "boot" THEN Idle ELSE [@ EXCEPT !.pc = "lock"]]
    /\ UNCHANGED <<nextTx, docVars, offline, pass, calls, missed>>

\* discoveryRetryInterval is longer than the longest read.
RetryDue(cp) ==
    /\ caps[cp].tried
    /\ \A g \in Goroutines : check[g] # [pc |-> "read", cp |-> cp]
    /\ caps' = [caps EXCEPT ![cp].tried = FALSE]
    /\ UNCHANGED <<nextTx, docVars, offline, check, pass, calls, missed>>

StackLevelFor_Unclamped(cp) ==
    IF ~caps[cp].levelKnown \/ caps[cp].level >= TopLevel THEN TopLevel ELSE caps[cp].level
StackLevelFor(cp) ==
    CASE ~caps[cp].levelKnown \/ caps[cp].level >= TopLevel -> TopLevel
      [] caps[cp].level < 0 -> 0
      [] OTHER -> caps[cp].level

(***************************************************************************)
(* CheckPowerLimit, the part under lb.mutex.                               *)
(***************************************************************************)
\* getLocation fails: the goroutine gives up.
LocationUnreadable(g) ==
    /\ check[g].pc = "lock" /\ ~pass.on
    /\ check' = [check EXCEPT ![g] = Idle]
    /\ missed' = Connectors
    /\ UNCHANGED <<nextTx, docVars, offline, caps, pass, calls>>

\* The highest slot no active connector has, or the base limit.
FreeSlot(used) ==
    LET free == {i \in DOMAIN PowerSlots : PowerSlots[i] \notin used}
    IN IF free = {} THEN BaseLimit
       ELSE PowerSlots[CHOOSE i \in free : \A j \in free : i <= j]

Active == {c \in Connectors : holds[c] # NoTx}

\* A pass goes by an active connector that has a limit already.
Passed(c) == c \in Active /\ limit[c] > 0

CheckPowerLimit_NoClear(g) ==
    /\ check[g].pc = "lock" /\ ~pass.on
    /\ pass' = [on |-> TRUE, seen |-> holds, clear |-> {},
                assign |-> {c \in Active : limit[c] = 0},
                slot |-> FreeSlot({limit[c] : c \in Active})]
    /\ check' = [check EXCEPT ![g] = Idle]
    /\ missed' = {c \in missed : Passed(c)}
    /\ UNCHANGED <<nextTx, docVars, offline, caps, calls>>
CheckPowerLimit(g) ==
    /\ check[g].pc = "lock" /\ ~pass.on
    /\ pass' = [on |-> TRUE, seen |-> holds,
                clear |-> {c \in Connectors \ Active : limit[c] > 0},
                assign |-> {c \in Active : limit[c] = 0},
                slot |-> FreeSlot({limit[c] : c \in Active})]
    /\ check' = [check EXCEPT ![g] = Idle]
    /\ missed' = {c \in missed : Passed(c)}
    /\ UNCHANGED <<nextTx, docVars, offline, caps, calls>>

ClearLimit(c) ==
    /\ c \in pass.clear
    /\ limit' = [limit EXCEPT ![c] = 0]
    /\ pass' = [pass EXCEPT !.clear = @ \ {c}]
    /\ UNCHANGED <<nextTx, holds, txLimit, offline, caps, check, calls, missed>>

\* sendTransactionProfile refuses a charge point that wants no amperes, and
\* SendRequestWithResponse one that is not connected.
CanSend(cp) == cp \notin offline /\ (caps[cp].known => caps[cp].current)

\* updateConnectorPower: the profile is for the transaction that was read, the
\* limit is stored on whatever the connector holds by now.
AssignLimit(c) ==
    /\ pass.clear = {} /\ c \in pass.assign
    /\ pass' = [pass EXCEPT !.assign = @ \ {c}]
    /\ IF CanSend(ChargePointOf[c])
       THEN /\ calls' = calls \cup {[st |-> "sent", c |-> c, t |-> pass.seen[c], limit |-> pass.slot,
                                     level |-> StackLevelFor(ChargePointOf[c]), retries |-> Retries]}
            /\ limit' = [limit EXCEPT ![c] = pass.slot]
            /\ txLimit' = [txLimit EXCEPT ![pass.seen[c]] = pass.slot]
            /\ missed' = IF holds[c] \in {pass.seen[c], NoTx} THEN missed ELSE missed \cup {c}
       ELSE UNCHANGED <<calls, limit, txLimit, missed>>
    /\ UNCHANGED <<nextTx, holds, offline, caps, check>>

EndPass ==
    /\ pass.on /\ pass.clear = {} /\ pass.assign = {}
    /\ pass' = NoPass
    /\ UNCHANGED <<nextTx, docVars, offline, caps, check, calls, missed>>

(***************************************************************************)
(* The verdict on a profile, without lb.mutex.  Two equal profiles that    *)
(* wait at the same time are told apart by nobody and counted once.        *)
(***************************************************************************)
LowerStackLevel_Always(cp, level) == TRUE
LowerStackLevel(cp, level) == ~caps[cp].levelKnown \/ caps[cp].level > level

\* The answer or the timeout, and the new ceiling if the refusal taught one.
\* last_profile, which recordVerdict writes and no code reads, is left out.
Verdict(p) ==
    LET cp == ChargePointOf[p.c]
    IN /\ p \in calls /\ p.st = "sent"
       /\ \E status \in Statuses :
             /\ status # "NoResponse" => cp \notin offline
             /\ IF /\ status = "Rejected"
                   /\ p.retries > 0 /\ p.level > 0
                   /\ LowerStackLevel(cp, p.level - 1)
                THEN /\ caps' = [caps EXCEPT ![cp].levelKnown = TRUE, ![cp].level = p.level - 1]
                     /\ calls' = (calls \ {p}) \cup {[p EXCEPT !.st = "retry"]}
                ELSE calls' = calls \ {p} /\ UNCHANGED caps
       /\ UNCHANGED <<nextTx, holds, limit, txLimit, offline, check, pass, missed>>

\* The retry.  The check for a stopped session compares the transaction with
\* the copy of the connector it came from, so it always lets the retry pass.
Retry(p) ==
    LET cp == ChargePointOf[p.c]
    IN /\ p \in calls /\ p.st = "retry"
       /\ calls' = (calls \ {p}) \cup
             IF CanSend(cp)
             THEN {[p EXCEPT !.st = "sent", !.level = StackLevelFor(cp), !.retries = @ - 1]}
             ELSE {}
       /\ UNCHANGED <<nextTx, docVars, offline, caps, check, pass, missed>>

-----------------------------------------------------------------------------
Init ==
    /\ nextTx = 1
    /\ holds = [c \in Connectors |-> NoTx]
    /\ limit = [c \in Connectors |-> 0]
    /\ txLimit = [t \in TxIds |-> 0]
    /\ offline = {}
    /\ caps = [cp \in ChargePoints |-> NoCaps]
    /\ check = [g \in Goroutines |-> Idle]
    /\ pass = NoPass
    /\ calls = {}
    /\ missed = {}

GoroutineStep(g) == BeginDiscovery(g) \/ DiscoverCapabilities(g)
TakeLock(g) == CheckPowerLimit(g) \/ LocationUnreadable(g)
PassStep == (\E c \in Connectors : ClearLimit(c) \/ AssignLimit(c)) \/ EndPass

Next ==
    \/ \E c \in Connectors : \/ StartTransaction(c) \/ StopTransaction(c)
                             \/ ReleaseConnector(c)
                             \/ RepeatRequest(c) \/ StatusNotification(c)
    \/ \E cp \in ChargePoints : DropOff(cp) \/ OnChargePointBoot(cp) \/ RetryDue(cp)
    \/ \E g \in Goroutines : GoroutineStep(g) \/ TakeLock(g)
    \/ PassStep
    \/ \E p \in calls : Verdict(p) \/ Retry(p)

Spec == Init /\ [][Next]_vars

\* Reads end, by an answer or by their timeout; whoever waits for lb.mutex gets
\* it in the end (a Go mutex hands itself over to a starving waiter).
FairSpec ==
    /\ Spec
    /\ \A g \in Goroutines : WF_vars(GoroutineStep(g)) /\ SF_vars(TakeLock(g))
    /\ WF_vars(PassStep)

-----------------------------------------------------------------------------
(***************************************************************************)
(* Properties.                                                             *)
(***************************************************************************)
\* Every variable has its type; no profile leaves the range of stack levels and
\* no pass assigns anything but a slot or the base limit.
TypeOK ==
    /\ nextTx \in 1..(MaxTx + 1)
    /\ holds \in [Connectors -> TxIds \cup {NoTx}]
    /\ limit \in [Connectors -> Limits \cup {0}]
    /\ txLimit \in [TxIds -> Limits \cup {0}]
    /\ offline \subseteq ChargePoints
    /\ caps \in [ChargePoints -> Caps]
    /\ check \in [Goroutines -> Check]
    /\ \A g \in Goroutines : check[g].pc # "idle" => check[g].cp \in ChargePoints
    /\ pass \in Pass
    /\ \A c \in pass.assign : pass.seen[c] \in TxIds
    /\ calls \subseteq Call
    /\ missed \subseteq Connectors

\* What a refusal taught is never unlearned: the ceiling of a charge point does
\* not rise again, whatever the charge point goes on reporting.
CeilingNeverRises ==
    [][\A cp \in ChargePoints :
           caps[cp].levelKnown => caps'[cp].levelKnown /\ caps'[cp].level <= caps[cp].level]_vars

\* Of two sessions that start at once, one asks the charge point for its limits.
OneDiscovery ==
    \A g, h \in Goroutines :
        g # h /\ check[g].pc = "read" /\ check[h].pc = "read" => check[g].cp # check[h].cp

\* A session gets a limit while its charge point can be given one, however
\* starts, stops, status notifications and reads interleave: unless its own
\* check fails or is never started, or a limit meant for the session before it
\* lands on the connector and its check passes it by.
SessionGetsLimit ==
    \A c \in Connectors, t \in TxIds :
        (holds[c] = t /\ c \notin missed)
            ~> (txLimit[t] > 0 \/ holds[c] # t \/ c \in missed \/ ~CanSend(ChargePointOf[c]))

\* Not a property of this code: the same for every session that is not without
\* a check.  A connector stopped and started again during one pass gets the
\* limit of its old session, and the check of the new one takes it for its own.
EverySessionGetsLimit ==
    \A c \in Connectors, t \in TxIds :
        (holds[c] = t /\ c \notin missed)
            ~> (txLimit[t] > 0 \/ holds[c] # t \/ ~CanSend(ChargePointOf[c]))

\* A limit that a pass has stored on a connector after its session stopped does
\* not stay there: the check of the stop itself clears it.  One stored after a
\* release by the system, which starts no check, waits for the next check.
IdleIsCleared ==
    \A c \in Connectors :
        (holds[c] = NoTx /\ limit[c] > 0 /\ c \notin missed)
            ~> (limit[c] = 0 \/ holds[c] # NoTx \/ c \in missed)

\* The slots are given to one connector each: two sessions at the location have
\* the same limit only if it is the base limit.
OneConnectorPerSlot ==
    \A c, d \in Active :
        c # d /\ txLimit[holds[c]] > 0 /\ txLimit[holds[c]] = txLimit[holds[d]]
            => txLimit[holds[c]] = BaseLimit

\* A limit is not tried again for a session that has since stopped.
RetryOnlyWhileHeld ==
    [][\A p \in calls : p.st = "retry" /\ p \notin calls' /\ holds[p.c] # p.t
           => \A q \in calls' \ calls : q.t # p.t]_vars

=============================================================================
