------------------------- MODULE PowerLimitsProofs -------------------------
(***************************************************************************)
(* What the load balancer guarantees for any number of connectors, charge  *)
(* points, goroutines, slots, levels and retries.                          *)
(***************************************************************************)
EXTENDS PowerLimits, WellFoundedInduction, TLAPS

\* TypeOK is not inductive by itself: a retry must have a retry left.
RetryIsLeft == \A p \in calls : p.st = "retry" => p.retries > 0

\* Whoever reads a configuration has claimed the right to, or it is known by now.
ReaderClaimed ==
    \A g \in Goroutines : check[g].pc = "read" => caps[check[g].cp].known \/ caps[check[g].cp].tried

\* The level a profile is sent at is one the protocol has.
LEMMA StackLevelInRange ==
  ASSUME TypeOK, NEW cp \in ChargePoints
  PROVE  StackLevelFor(cp) \in 0..TopLevel
  BY BalancerAssumption DEF StackLevelFor, TypeOK, Caps

\* The slot a pass gives out is one of the configured limits.
LEMMA FreeSlotIsLimit ==
  ASSUME NEW used PROVE FreeSlot(used) \in Limits
<1> DEFINE free == {i \in DOMAIN PowerSlots : PowerSlots[i] \notin used}
<1>1. CASE free = {}
  BY <1>1 DEF FreeSlot, Limits
<1>2. CASE free # {}
  <2>1. free \in SUBSET Nat
    BY BalancerAssumption
  <2>2. \E i \in free : \A j \in free : i <= j
    <3>1. PICK i \in free : \A j \in free : ~ (<<j, i>> \in OpToRel(<, Nat))
      BY <1>2, <2>1, WFMin, NatLessThanWellFounded
    <3>2. \A j \in free : ~ (j < i)
      BY <2>1, <3>1 DEF OpToRel
    <3> QED
      BY <2>1, <3>2
  <2>3. PowerSlots[CHOOSE i \in free : \A j \in free : i <= j] \in Slots
    BY <2>2 DEF Slots
  <2> QED
    BY <2>3, <1>2 DEF FreeSlot, Limits
<1> QED
  BY <1>1, <1>2

\* Starting a goroutine keeps the goroutines well typed.
LEMMA SpawnTyped ==
  ASSUME TypeOK, NEW pc \in {"ensure", "boot"}, NEW cp \in ChargePoints, Spawn(pc, cp)
  PROVE  /\ check' \in [Goroutines -> Check]
         /\ \A g \in Goroutines : check'[g].pc # "idle" => check'[g].cp \in ChargePoints
  BY DEF Spawn, TypeOK, Check, Idle

\* So does the end of a request, answered or not.
LEMMA AnsweredTyped ==
  ASSUME TypeOK, NEW c \in Connectors, Answered(c)
  PROVE  /\ check' \in [Goroutines -> Check]
         /\ \A g \in Goroutines : check'[g].pc # "idle" => check'[g].cp \in ChargePoints
         /\ missed' \subseteq Connectors
<1>1. ChargePointOf[c] \in ChargePoints
  BY BalancerAssumption
<1>2. CASE Spawn("ensure", ChargePointOf[c]) /\ missed' = missed \ {c}
  BY <1>1, <1>2, SpawnTyped DEF TypeOK
<1>3. CASE missed' = missed \cup {c} /\ UNCHANGED check
  BY <1>3 DEF TypeOK
<1> QED
  BY <1>2, <1>3 DEF Answered

\* Every state of the balancer is well typed: profiles have a level of the
\* protocol and a configured limit, and no retry is sent that is not left.
THEOREM BalancerTyped == Spec => [](TypeOK /\ RetryIsLeft)
<1>1. Init => TypeOK /\ RetryIsLeft
  BY BalancerAssumption
     DEF Init, TypeOK, RetryIsLeft, NoCaps, Caps, Idle, Check, NoPass, Pass, Limits
<1>2. TypeOK /\ RetryIsLeft /\ [Next]_vars => (TypeOK /\ RetryIsLeft)'
  <2> SUFFICES ASSUME TypeOK, RetryIsLeft, [Next]_vars PROVE (TypeOK /\ RetryIsLeft)'
    OBVIOUS
  <2> USE BalancerAssumption DEF docVars
  <2>1. ASSUME NEW c \in Connectors, StartTransaction(c) PROVE (TypeOK /\ RetryIsLeft)'
    BY <2>1, AnsweredTyped DEF StartTransaction, TypeOK, RetryIsLeft, TxIds
  <2>2. ASSUME NEW c \in Connectors, StopTransaction(c) PROVE (TypeOK /\ RetryIsLeft)'
    BY <2>2, AnsweredTyped DEF StopTransaction, TypeOK, RetryIsLeft
  <2>3. ASSUME NEW c \in Connectors, RepeatRequest(c) PROVE (TypeOK /\ RetryIsLeft)'
    BY <2>3, SpawnTyped DEF RepeatRequest, TypeOK, RetryIsLeft
  <2>4. ASSUME NEW c \in Connectors, StatusNotification(c) PROVE (TypeOK /\ RetryIsLeft)'
    BY <2>4 DEF StatusNotification, TypeOK, RetryIsLeft
  <2>5. ASSUME NEW cp \in ChargePoints, DropOff(cp) PROVE (TypeOK /\ RetryIsLeft)'
    BY <2>5 DEF DropOff, TypeOK, RetryIsLeft
  <2>6. ASSUME NEW cp \in ChargePoints, OnChargePointBoot(cp) PROVE (TypeOK /\ RetryIsLeft)'
    BY <2>6, SpawnTyped DEF OnChargePointBoot, TypeOK, RetryIsLeft
  <2>7. ASSUME NEW cp \in ChargePoints, RetryDue(cp) PROVE (TypeOK /\ RetryIsLeft)'
    BY <2>7 DEF RetryDue, TypeOK, RetryIsLeft, Caps
  <2>8. ASSUME NEW g \in Goroutines, BeginDiscovery(g) PROVE (TypeOK /\ RetryIsLeft)'
    <3>1. check[g].cp \in ChargePoints
      BY <2>8 DEF BeginDiscovery, TypeOK
    <3>2. caps' \in [ChargePoints -> Caps]
      <4>1. [caps EXCEPT ![check[g].cp].tried = TRUE] \in [ChargePoints -> Caps]
        BY <3>1 DEF TypeOK, Caps
      <4> QED
        BY <2>8, <4>1 DEF BeginDiscovery, TypeOK
    <3>3. \E pc \in {"read", "lock"} : check' = [check EXCEPT ![g].pc = pc]
      BY <2>8 DEF BeginDiscovery
    <3>4. /\ check' \in [Goroutines -> Check]
          /\ \A h \in Goroutines : check'[h].pc # "idle" => check'[h].cp \in ChargePoints
      BY <3>1, <3>3 DEF TypeOK, Check
    <3> QED
      BY <2>8, <3>2, <3>4 DEF BeginDiscovery, TypeOK, RetryIsLeft
  <2>9. ASSUME NEW g \in Goroutines, DiscoverCapabilities(g) PROVE (TypeOK /\ RetryIsLeft)'
    <3>1. check[g].cp \in ChargePoints
      BY <2>9 DEF DiscoverCapabilities, TypeOK
    <3>2. caps' \in [ChargePoints -> Caps]
      <4>1. ASSUME NEW level \in ReportLevels, NEW current \in BOOLEAN
            PROVE  Record(check[g].cp, level, current) \in Caps
        BY <3>1 DEF Record, TypeOK, Caps
      <4> QED
        BY <2>9, <3>1, <4>1 DEF DiscoverCapabilities, TypeOK
    <3>3. /\ check' \in [Goroutines -> Check]
          /\ \A h \in Goroutines : check'[h].pc # "idle" => check'[h].cp \in ChargePoints
      <4>1. CASE check' = [check EXCEPT ![g] = Idle]
        BY <4>1 DEF TypeOK, Check, Idle
      <4>2. CASE check' = [check EXCEPT ![g] = [check[g] EXCEPT !.pc = "lock"]]
        BY <3>1, <4>2 DEF TypeOK, Check
      <4> QED
        BY <2>9, <4>1, <4>2 DEF DiscoverCapabilities
    <3> QED
      BY <2>9, <3>2, <3>3 DEF DiscoverCapabilities, TypeOK, RetryIsLeft
  <2>10. ASSUME NEW g \in Goroutines, CheckPowerLimit(g) PROVE (TypeOK /\ RetryIsLeft)'
    <3>1. pass' \in Pass /\ \A c \in pass'.assign : pass'.seen[c] \in TxIds
      BY <2>10, FreeSlotIsLimit DEF CheckPowerLimit, TypeOK, Pass, Active
    <3>2. /\ check' \in [Goroutines -> Check]
          /\ \A h \in Goroutines : check'[h].pc # "idle" => check'[h].cp \in ChargePoints
      BY <2>10 DEF CheckPowerLimit, TypeOK, Check, Idle
    <3> QED
      BY <2>10, <3>1, <3>2 DEF CheckPowerLimit, TypeOK, RetryIsLeft
  <2>11. ASSUME NEW c \in Connectors, ClearLimit(c) PROVE (TypeOK /\ RetryIsLeft)'
    BY <2>11 DEF ClearLimit, TypeOK, RetryIsLeft, Pass
  <2>12. ASSUME NEW c \in Connectors, AssignLimit(c) PROVE (TypeOK /\ RetryIsLeft)'
    <3>1. pass' \in Pass /\ \A d \in pass'.assign : pass'.seen[d] \in TxIds
      BY <2>12 DEF AssignLimit, TypeOK, Pass
    <3>2. /\ limit' \in [Connectors -> Limits \cup {0}] /\ txLimit' \in [TxIds -> Limits \cup {0}]
      BY <2>12 DEF AssignLimit, TypeOK, Pass
    <3>3. calls' \subseteq Call /\ RetryIsLeft'
      <4>1. ChargePointOf[c] \in ChargePoints /\ pass.seen[c] \in TxIds /\ pass.slot \in Limits
        BY <2>12 DEF AssignLimit, TypeOK, Pass
      <4>2. StackLevelFor(ChargePointOf[c]) \in 0..TopLevel
        BY <4>1, StackLevelInRange
      <4> QED
        BY <2>12, <4>1, <4>2 DEF AssignLimit, TypeOK, Call, RetryIsLeft
    <3> QED
      BY <2>12, <3>1, <3>2, <3>3 DEF AssignLimit, TypeOK
  <2>13. CASE EndPass
    BY <2>13 DEF EndPass, TypeOK, RetryIsLeft, NoPass, Pass, Limits
  <2>14. ASSUME NEW p \in calls, Verdict(p) PROVE (TypeOK /\ RetryIsLeft)'
    <3>1. p \in Call /\ ChargePointOf[p.c] \in ChargePoints
      BY DEF TypeOK, Call
    <3> DEFINE cp == ChargePointOf[p.c]
               lowered == [caps EXCEPT ![cp].levelKnown = TRUE, ![cp].level = p.level - 1]
               again == [p EXCEPT !.st = "retry"]
    <3>a. \/ /\ p.retries > 0
             /\ caps' = lowered /\ calls' = (calls \ {p}) \cup {again}
          \/ calls' = calls \ {p} /\ UNCHANGED caps
      BY <2>14 DEF Verdict
    <3>2. caps' \in [ChargePoints -> Caps]
      <4>1. p.level - 1 \in Int
        BY <3>1 DEF Call
      <4>2. lowered \in [ChargePoints -> Caps]
        BY <3>1, <4>1 DEF TypeOK, Caps
      <4> QED
        BY <3>a, <4>2 DEF TypeOK
    <3>3. calls' \subseteq Call /\ RetryIsLeft'
      <4>1. again \in Call /\ again.retries = p.retries
        BY <3>1 DEF Call
      <4> QED
        BY <3>a, <4>1 DEF TypeOK, RetryIsLeft
    <3> QED
      BY <2>14, <3>2, <3>3 DEF Verdict, TypeOK
  <2>15. ASSUME NEW p \in calls, Retry(p) PROVE (TypeOK /\ RetryIsLeft)'
    <3>1. p \in Call /\ ChargePointOf[p.c] \in ChargePoints /\ p.retries > 0
      BY <2>15 DEF TypeOK, Call, Retry, RetryIsLeft
    <3>2. StackLevelFor(ChargePointOf[p.c]) \in 0..TopLevel
      BY <3>1, StackLevelInRange
    <3>3. calls' \subseteq Call /\ RetryIsLeft'
      <4> DEFINE again == [p EXCEPT !.st = "sent", !.level = StackLevelFor(ChargePointOf[p.c]),
                                    !.retries = p.retries - 1]
      <4>1. calls' = (calls \ {p}) \cup {again} \/ calls' = (calls \ {p}) \cup {}
        BY <2>15 DEF Retry
      <4>a. p.retries - 1 \in 0..Retries
        BY <3>1 DEF Call
      <4>2. again \in Call /\ again.st = "sent"
        BY <3>1, <3>2, <4>a DEF Call
      <4> QED
        BY <4>1, <4>2 DEF TypeOK, RetryIsLeft
    <3> QED
      BY <2>15, <3>3 DEF Retry, TypeOK
  <2>16. CASE UNCHANGED vars
    BY <2>16 DEF vars, TypeOK, RetryIsLeft
  <2>17. ASSUME NEW c \in Connectors, ReleaseConnector(c) PROVE (TypeOK /\ RetryIsLeft)'
    BY <2>17 DEF ReleaseConnector, TypeOK, RetryIsLeft
  <2>18. ASSUME NEW g \in Goroutines, LocationUnreadable(g) PROVE (TypeOK /\ RetryIsLeft)'
    BY <2>18 DEF LocationUnreadable, TypeOK, RetryIsLeft, Check, Idle
  <2> QED
    BY <2>1, <2>2, <2>3, <2>4, <2>5, <2>6, <2>7, <2>8, <2>9, <2>10, <2>11, <2>12, <2>13, <2>14,
       <2>15, <2>16, <2>17, <2>18
       DEF Next, GoroutineStep, TakeLock, PassStep
<1> QED
  BY <1>1, <1>2, PTL DEF Spec

\* Of two sessions that start at once, one reads the configuration of the charge
\* point.  The claim is taken before the read and only runs out once no read is
\* under way; a configuration that was read is never forgotten.
THEOREM OneReadAtATime == Spec => []OneDiscovery
<1>1. Init => OneDiscovery /\ ReaderClaimed
  BY DEF Init, OneDiscovery, ReaderClaimed, Idle
<1>2. TypeOK /\ OneDiscovery /\ ReaderClaimed /\ [Next]_vars => (OneDiscovery /\ ReaderClaimed)'
  <2> SUFFICES ASSUME TypeOK, OneDiscovery, ReaderClaimed, [Next]_vars
               PROVE  (OneDiscovery /\ ReaderClaimed)'
    OBVIOUS
  <2> USE DEF docVars
  <2>1. ASSUME NEW pc \in {"ensure", "boot"}, NEW cp \in ChargePoints, Spawn(pc, cp), UNCHANGED caps
        PROVE  (OneDiscovery /\ ReaderClaimed)'
    <3>1. PICK s \in Goroutines : check' = [check EXCEPT ![s] = [pc |-> pc, cp |-> cp]]
      BY <2>1 DEF Spawn
    <3>2. \A g \in Goroutines : check'[g].pc = "read" => check'[g] = check[g]
      BY <3>1 DEF TypeOK
    <3> QED
      BY <2>1, <3>2 DEF OneDiscovery, ReaderClaimed
  <2>9. ASSUME UNCHANGED <<check, caps>> PROVE (OneDiscovery /\ ReaderClaimed)'
    BY <2>9 DEF OneDiscovery, ReaderClaimed
  <2>2. ASSUME NEW c \in Connectors, StartTransaction(c) \/ StopTransaction(c) \/ RepeatRequest(c)
        PROVE  (OneDiscovery /\ ReaderClaimed)'
    BY <2>1, <2>2, <2>9, BalancerAssumption
       DEF StartTransaction, StopTransaction, RepeatRequest, Answered
  <2>3. ASSUME NEW cp \in ChargePoints, OnChargePointBoot(cp) PROVE (OneDiscovery /\ ReaderClaimed)'
    BY <2>1, <2>3 DEF OnChargePointBoot
  <2>4. ASSUME NEW cp \in ChargePoints, RetryDue(cp) PROVE (OneDiscovery /\ ReaderClaimed)'
    <3>1. \A g \in Goroutines : check[g].pc = "read" => check[g].cp # cp
      BY <2>4 DEF RetryDue, TypeOK, Check
    <3>2. \A d \in ChargePoints : d # cp => caps'[d] = caps[d]
      BY <2>4 DEF RetryDue, TypeOK
    <3>3. check' = check
      BY <2>4 DEF RetryDue
    <3> QED
      BY <3>1, <3>2, <3>3 DEF OneDiscovery, ReaderClaimed, TypeOK
  <2>5. ASSUME NEW g \in Goroutines, BeginDiscovery(g) PROVE (OneDiscovery /\ ReaderClaimed)'
    <3> DEFINE cp == check[g].cp
    <3>1. cp \in ChargePoints
      BY <2>5 DEF BeginDiscovery, TypeOK
    <3>2. CASE ~caps[cp].known /\ ~caps[cp].tried
      <4>1. check' = [check EXCEPT ![g].pc = "read"] /\ caps' = [caps EXCEPT ![cp].tried = TRUE]
        BY <2>5, <3>2 DEF BeginDiscovery
      <4>2. \A h \in Goroutines : check[h].pc = "read" => check[h].cp # cp
        BY <3>2 DEF ReaderClaimed
      <4>3. \A h \in Goroutines : check'[h].cp = check[h].cp /\ (h # g => check'[h] = check[h])
        BY <4>1 DEF TypeOK, Check
      <4>4. \A d \in ChargePoints : d # cp => caps'[d] = caps[d]
        BY <4>1 DEF TypeOK
      <4>a. caps'[cp].tried
        BY <3>1, <4>1 DEF TypeOK, Caps
      <4>5. OneDiscovery'
        BY <4>2, <4>3 DEF OneDiscovery
      <4>6. ASSUME NEW h \in Goroutines, check'[h].pc = "read"
            PROVE  caps'[check'[h].cp].known \/ caps'[check'[h].cp].tried
        <5>1. CASE h = g
          <6>1. check'[h].cp = cp
            BY <4>3, <5>1
          <6> QED
            BY <4>a, <6>1
        <5>2. CASE h # g
          <6>1. check'[h] = check[h] /\ check[h].pc = "read"
            BY <4>3, <4>6, <5>2
          <6>2. check[h].cp \in ChargePoints /\ check[h].cp # cp
            BY <4>2, <6>1 DEF TypeOK
          <6>3. caps[check[h].cp].known \/ caps[check[h].cp].tried
            BY <6>1 DEF ReaderClaimed
          <6>4. caps'[check'[h].cp] = caps[check[h].cp]
            BY <4>4, <6>1, <6>2
          <6> QED
            BY <6>3, <6>4
        <5> QED
          BY <5>1, <5>2
      <4> QED
        BY <4>5, <4>6 DEF ReaderClaimed
    <3>3. CASE ~(~caps[cp].known /\ ~caps[cp].tried)
      <4>1. check' = [check EXCEPT ![g].pc = "lock"] /\ caps' = caps
        BY <2>5, <3>3 DEF BeginDiscovery
      <4>2. \A h \in Goroutines : check'[h].pc = "read" => check'[h] = check[h]
        BY <4>1 DEF TypeOK, Check
      <4> QED
        BY <4>1, <4>2 DEF OneDiscovery, ReaderClaimed
    <3> QED
      BY <3>2, <3>3
  <2>6. ASSUME NEW g \in Goroutines, DiscoverCapabilities(g) PROVE (OneDiscovery /\ ReaderClaimed)'
    <3>1. \A h \in Goroutines : check'[h].pc = "read" => check'[h] = check[h]
      <4>1. check'[g].pc # "read" /\ \A h \in Goroutines : h # g => check'[h] = check[h]
        <5>1. CASE check' = [check EXCEPT ![g] = Idle]
          BY <5>1 DEF TypeOK, Idle
        <5>2. CASE check' = [check EXCEPT ![g] = [check[g] EXCEPT !.pc = "lock"]]
          BY <5>2 DEF TypeOK, Check
        <5> QED
          BY <2>6, <5>1, <5>2 DEF DiscoverCapabilities
      <4> QED
        BY <4>1
    <3>2. \A d \in ChargePoints : caps'[d] = caps[d] \/ caps'[d].known
      <4>1. ASSUME NEW level, NEW current,
                   caps' = [caps EXCEPT ![check[g].cp] = Record(check[g].cp, level, current)],
                   NEW d \in ChargePoints
            PROVE  caps'[d] = caps[d] \/ caps'[d].known
        <5>1. CASE d = check[g].cp
          BY <4>1, <5>1 DEF TypeOK, Record
        <5>2. CASE d # check[g].cp
          BY <4>1, <5>2 DEF TypeOK
        <5> QED
          BY <5>1, <5>2
      <4>2. CASE UNCHANGED caps
        BY <4>2
      <4> QED
        BY <2>6, <4>1, <4>2 DEF DiscoverCapabilities
    <3> QED
      BY <3>1, <3>2 DEF OneDiscovery, ReaderClaimed, TypeOK
  <2>7. ASSUME NEW g \in Goroutines, TakeLock(g) PROVE (OneDiscovery /\ ReaderClaimed)'
    <3>1. UNCHANGED caps /\ check' = [check EXCEPT ![g] = Idle]
      BY <2>7 DEF TakeLock, CheckPowerLimit, LocationUnreadable
    <3>2. \A h \in Goroutines : check'[h].pc = "read" => check'[h] = check[h]
      BY <3>1 DEF TypeOK, Idle
    <3> QED
      BY <3>1, <3>2 DEF OneDiscovery, ReaderClaimed
  <2>8. ASSUME NEW p \in calls, Verdict(p) PROVE (OneDiscovery /\ ReaderClaimed)'
    <3>1. check' = check
      BY <2>8 DEF Verdict
    <3>2. \A d \in ChargePoints : caps'[d].known = caps[d].known /\ caps'[d].tried = caps[d].tried
      <4> DEFINE lowered == [caps EXCEPT ![ChargePointOf[p.c]].levelKnown = TRUE,
                                         ![ChargePointOf[p.c]].level = p.level - 1]
      <4>1. caps' = lowered \/ UNCHANGED caps
        BY <2>8 DEF Verdict
      <4>2. \A d \in ChargePoints : lowered[d].known = caps[d].known /\ lowered[d].tried = caps[d].tried
        BY DEF TypeOK, Caps
      <4> QED
        BY <4>1, <4>2
    <3> QED
      BY <3>1, <3>2 DEF OneDiscovery, ReaderClaimed, TypeOK
  <2>10. ASSUME NEW c \in Connectors,
                ReleaseConnector(c) \/ StatusNotification(c) \/ ClearLimit(c) \/ AssignLimit(c)
         PROVE  UNCHANGED <<check, caps>>
    BY <2>10 DEF ReleaseConnector, StatusNotification, ClearLimit, AssignLimit
  <2>11. ASSUME NEW cp \in ChargePoints, DropOff(cp) PROVE UNCHANGED <<check, caps>>
    BY <2>11 DEF DropOff
  <2>12. ASSUME NEW p \in calls, Retry(p) PROVE UNCHANGED <<check, caps>>
    BY <2>12 DEF Retry
  <2>13. CASE EndPass \/ UNCHANGED vars
    BY <2>9, <2>13 DEF EndPass, vars
  <2> QED
    BY <2>2, <2>3, <2>4, <2>5, <2>6, <2>7, <2>8, <2>9, <2>10, <2>11, <2>12, <2>13
       DEF Next, GoroutineStep, PassStep
<1> QED
  BY <1>1, <1>2, BalancerTyped, PTL DEF Spec

\* What a refusal taught is never unlearned, whatever the charge point reports.
THEOREM LearnedCeilingStays == Spec => CeilingNeverRises
<1>1. TypeOK /\ [Next]_vars =>
        [\A cp \in ChargePoints :
             caps[cp].levelKnown => caps'[cp].levelKnown /\ caps'[cp].level <= caps[cp].level]_vars
  <2> SUFFICES ASSUME TypeOK, [Next]_vars, NEW cp \in ChargePoints, caps[cp].levelKnown
               PROVE  caps'[cp].levelKnown /\ caps'[cp].level <= caps[cp].level
    OBVIOUS
  <2> USE DEF docVars
  <2>0. caps[cp] \in Caps /\ caps[cp].level \in Int
    BY DEF TypeOK, Caps
  <2>1. ASSUME UNCHANGED caps PROVE caps'[cp].levelKnown /\ caps'[cp].level <= caps[cp].level
    BY <2>0, <2>1
  <2>2. ASSUME NEW d \in ChargePoints, NEW v \in BOOLEAN, caps' = [caps EXCEPT ![d].tried = v]
        PROVE  caps'[cp].levelKnown /\ caps'[cp].level <= caps[cp].level
    <3>1. caps'[cp].levelKnown = caps[cp].levelKnown /\ caps'[cp].level = caps[cp].level
      BY <2>0, <2>2 DEF TypeOK, Caps
    <3> QED
      BY <2>0, <3>1
  <2>3. ASSUME NEW g \in Goroutines, BeginDiscovery(g)
        PROVE  caps'[cp].levelKnown /\ caps'[cp].level <= caps[cp].level
    <3>1. check[g].cp \in ChargePoints
      BY <2>3 DEF BeginDiscovery, TypeOK
    <3>2. caps' = [caps EXCEPT ![check[g].cp].tried = TRUE] \/ UNCHANGED caps
      BY <2>3 DEF BeginDiscovery
    <3> QED
      BY <2>1, <2>2, <3>1, <3>2
  <2>4. ASSUME NEW d \in ChargePoints, RetryDue(d)
        PROVE  caps'[cp].levelKnown /\ caps'[cp].level <= caps[cp].level
    BY <2>2, <2>4 DEF RetryDue
  <2>5. ASSUME NEW g \in Goroutines, DiscoverCapabilities(g)
        PROVE  caps'[cp].levelKnown /\ caps'[cp].level <= caps[cp].level
    <3>1. CASE UNCHANGED caps
      BY <2>1, <3>1
    <3>2. ASSUME NEW level \in ReportLevels, NEW current \in BOOLEAN,
                 caps' = [caps EXCEPT ![check[g].cp] = Record(check[g].cp, level, current)]
          PROVE  caps'[cp].levelKnown /\ caps'[cp].level <= caps[cp].level
      <4>1. CASE check[g].cp = cp
        <5>1. caps'[cp] = Record(cp, level, current)
          BY <3>2, <4>1 DEF TypeOK
        <5>2. level \in Int
          BY BalancerAssumption
        <5> QED
          BY <2>0, <5>1, <5>2 DEF Record
      <4>2. CASE check[g].cp # cp
        BY <2>0, <3>2, <4>2 DEF TypeOK
      <4> QED
        BY <4>1, <4>2
    <3> QED
      BY <2>5, <3>1, <3>2 DEF DiscoverCapabilities
  <2>6. ASSUME NEW p \in calls, Verdict(p)
        PROVE  caps'[cp].levelKnown /\ caps'[cp].level <= caps[cp].level
    <3> DEFINE d == ChargePointOf[p.c]
    <3>1. d \in ChargePoints /\ p.level \in Int
      BY BalancerAssumption DEF TypeOK, Call
    <3>2. CASE UNCHANGED caps
      BY <2>1, <3>2
    <3>3. CASE /\ LowerStackLevel(d, p.level - 1)
               /\ caps' = [caps EXCEPT ![d].levelKnown = TRUE, ![d].level = p.level - 1]
      <4>1. CASE d = cp
        <5>1. caps'[cp].levelKnown /\ caps'[cp].level = p.level - 1
          BY <3>1, <3>3, <4>1 DEF TypeOK, Caps
        <5>2. caps[cp].level > p.level - 1
          BY <3>3, <4>1 DEF LowerStackLevel
        <5> QED
          BY <2>0, <3>1, <5>1, <5>2
      <4>2. CASE d # cp
        BY <2>0, <3>3, <4>2 DEF TypeOK
      <4> QED
        BY <4>1, <4>2
    <3> QED
      BY <2>6, <3>2, <3>3 DEF Verdict
  <2>7. ASSUME NEW c \in Connectors,
               \/ StartTransaction(c) \/ StopTransaction(c) \/ ReleaseConnector(c)
               \/ RepeatRequest(c) \/ StatusNotification(c) \/ ClearLimit(c) \/ AssignLimit(c)
        PROVE  UNCHANGED caps
    BY <2>7 DEF StartTransaction, StopTransaction, ReleaseConnector, RepeatRequest,
                StatusNotification, ClearLimit, AssignLimit
  <2>8. ASSUME NEW d \in ChargePoints, DropOff(d) \/ OnChargePointBoot(d) PROVE UNCHANGED caps
    BY <2>8 DEF DropOff, OnChargePointBoot
  <2>9. ASSUME NEW g \in Goroutines, TakeLock(g) PROVE UNCHANGED caps
    BY <2>9 DEF TakeLock, CheckPowerLimit, LocationUnreadable
  <2>10. ASSUME NEW p \in calls, Retry(p) PROVE UNCHANGED caps
    BY <2>10 DEF Retry
  <2>11. CASE EndPass \/ UNCHANGED vars
    BY <2>1, <2>11 DEF EndPass, vars
  <2> QED
    BY <2>1, <2>3, <2>4, <2>5, <2>6, <2>7, <2>8, <2>9, <2>10, <2>11 DEF Next, GoroutineStep, PassStep
<1> QED
  BY <1>1, BalancerTyped, PTL DEF Spec, CeilingNeverRises
=============================================================================
