--------------------------- MODULE BillingProofs ---------------------------
(***************************************************************************)
(* Proofs about Billing, for any sessions, sweeps, plans, prices, bounds   *)
(* and failing calls.                                                      *)
(***************************************************************************)
EXTENDS Billing, WellFoundedInduction, TLAPS

-----------------------------------------------------------------------------
(***************************************************************************)
(* Prices and rates are never negative.                                    *)
(***************************************************************************)
LEMMA QuotientNat == ASSUME NEW a \in Nat, NEW b \in Nat \ {0} PROVE a \div b \in Nat
  OBVIOUS

LEMMA ProductNat == ASSUME NEW a \in Nat, NEW b \in Nat PROVE a * b \in Nat
  OBVIOUS

LEMMA PlanFields == ASSUME NEW p \in Plans PROVE p.hour \in Nat /\ p.kwh \in Nat /\ p # NoPlan
  BY BillingAssumption DEF Plan

LEMMA MinutesNat == ASSUME NEW n \in Int, n > 3600 PROVE n \div 60 - 60 \in Nat
  OBVIOUS

LEMMA PaidMinutesNat == ASSUME NEW t \in Int PROVE PaidMinutes(t) \in Nat
  <1> DEFINE n == t * TickSeconds
  <1>1. n \in Int
    BY BillingAssumption
  <1> HIDE DEF n
  <1>2. (IF n > 3600 THEN n \div 60 - 60 ELSE 0) \in Nat
    BY <1>1, MinutesNat
  <1> QED BY <1>2 DEF PaidMinutes, n

LEMMA PriceNat ==
    ASSUME NEW p \in Plans \cup {NoPlan}, NEW t \in Int, NEW w \in Int
    PROVE  Price(p, t, w) \in Nat
  <1>1. CASE p = NoPlan
    BY <1>1 DEF Price
  <1>2. CASE p # NoPlan
    <2>1. p \in Plans /\ p.hour \in Nat /\ p.kwh \in Nat
      BY <1>2, PlanFields
    <2> DEFINE a == PaidMinutes(t) * p.hour
               b == w * p.kwh
    <2>2. a \in Nat
      BY <2>1, PaidMinutesNat, ProductNat
    <2>3. w > 0 => b \in Nat
      BY <2>1, ProductNat
    <2> HIDE DEF a, b
    <2>4. a \div 60 \in Nat
      BY <2>2, QuotientNat
    <2>5. w > 0 => b \div 1000 \in Nat
      BY <2>3, QuotientNat
    <2>6. (a \div 60) + (IF w > 0 THEN b \div 1000 ELSE 0) \in Nat
      BY <2>4, <2>5
    <2> QED BY <1>2, <2>6 DEF Price, a, b
  <1> QED BY <1>1, <1>2

\* A session that has lasted no time and has drawn nothing costs nothing.
LEMMA NothingIsFree ==
    ASSUME NEW p \in Plans \cup {NoPlan}, NEW w \in Int, w <= 0
    PROVE  Price(p, 0, w) = 0
  <1>1. PaidMinutes(0) = 0
    BY BillingAssumption DEF PaidMinutes
  <1>2. CASE p = NoPlan
    BY <1>2 DEF Price
  <1>3. CASE p # NoPlan
    <2>1. p.hour \in Nat
      BY <1>3, PlanFields
    <2>2. 0 * p.hour = 0
      BY <2>1
    <2>3. 0 \div 60 = 0
      OBVIOUS
    <2> QED BY <1>1, <1>3, <2>2, <2>3 DEF Price
  <1> QED BY <1>2, <1>3

LEMMA PowerRateNat ==
    ASSUME NEW last \in Meter \cup {None}, NEW time \in Ticks, NEW value \in Wh
    PROVE  PowerRate(last, time, value) \in Nat
  <1>1. CASE last # None /\ value > last.value /\ time > last.time
    <2>1. last.value \in Nat /\ last.time \in Nat /\ value \in Nat /\ time \in Nat
      BY <1>1, BillingAssumption DEF Meter, Ticks, Wh
    <2> DEFINE a == (value - last.value) * (3600 \div 1000) * 1000
               b == (time - last.time) * TickSeconds
    <2>2. a \in Nat
      <3>1. 3600 \div 1000 = 3
        OBVIOUS
      <3> QED BY <1>1, <2>1, <3>1
    <2>3. b \in Nat \ {0}
      <3> DEFINE d == time - last.time
      <3>1. d \in Nat \ {0}
        BY <1>1, <2>1
      <3> HIDE DEF d
      <3>2. d * TickSeconds \in Nat \ {0}
        BY <3>1, BillingAssumption
      <3> QED BY <3>2 DEF d
    <2> HIDE DEF a, b
    <2>4. a \div b \in Nat
      BY <2>2, <2>3, QuotientNat
    <2> QED BY <1>1, <2>4 DEF PowerRate, a, b
  <1>2. CASE ~(last # None /\ value > last.value /\ time > last.time)
    BY <1>2 DEF PowerRate
  <1> QED BY <1>1, <1>2

-----------------------------------------------------------------------------
(***************************************************************************)
(* What the operators make of documents and readings.                      *)
(***************************************************************************)
LEMMA DocTypes == \A d \in Doc : /\ d.plan \in Plans \cup {NoPlan}
                                /\ d.timeStart \in Int /\ d.timeStop \in Int
                                /\ d.meterStart \in Int /\ d.meterStop \in Int
  <1> SUFFICES ASSUME NEW d \in Doc
               PROVE  /\ d.plan \in Plans \cup {NoPlan}
                      /\ d.timeStart \in Int /\ d.timeStop \in Int
                      /\ d.meterStart \in Int /\ d.meterStop \in Int
    OBVIOUS
  <1>1. /\ d.plan \in Plans \cup {NoPlan} /\ d.timeStart \in Ticks /\ d.timeStop \in Ticks
        /\ d.meterStart \in Wh /\ d.meterStop \in Wh
    BY DEF Doc
  <1>2. \A n : n \in Ticks \cup Wh => n \in Int
    BY BillingAssumption DEF Ticks, Wh
  <1> QED BY <1>1, <1>2

LEMMA AbsentIsDoc == Absent \in Doc
  BY BillingAssumption DEF Absent, Doc, Ticks, Wh

LEMMA BillIsDoc == ASSUME NEW d \in Doc PROVE Bill(d) \in Doc
  <1> DEFINE p == Price(d.plan, d.timeStop - d.timeStart, d.meterStop - d.meterStart)
  <1>1. d.plan \in Plans \cup {NoPlan} /\ d.timeStop - d.timeStart \in Int
        /\ d.meterStop - d.meterStart \in Int
    BY DocTypes
  <1>3. p \in Nat
    BY <1>1, PriceNat
  <1> HIDE DEF p
  <1>2. ASSUME NEW n \in Nat PROVE [d EXCEPT !.amount = IF d.plan = NoPlan THEN @ ELSE n] \in Doc
    BY DEF Doc
  <1> QED BY <1>2, <1>3 DEF Bill, p

LEMMA NewMeterIsMeter ==
    ASSUME NEW r \in Reading, NEW last \in Meter \cup {None}
    PROVE  NewMeter(r, last) \in Meter
  <1>1. r.doc \in Doc /\ r.time \in Ticks /\ r.value \in Wh /\ r.power \in Nat
    BY DEF Reading
  <1>2. PowerRate(last, r.time, r.value) \in Nat
    BY <1>1, PowerRateNat
  <1>3. r.time \in Int /\ r.value \in Int
    BY <1>1, BillingAssumption DEF Ticks, Wh
  <1>4. Price(r.doc.plan, r.time - r.doc.timeStart, r.value - r.doc.meterStart) \in Nat
    <2>1. r.doc.plan \in Plans \cup {NoPlan} /\ r.time - r.doc.timeStart \in Int
          /\ r.value - r.doc.meterStart \in Int
      BY <1>1, <1>3, DocTypes
    <2> QED BY <2>1, PriceNat
  <1>5. (IF r.value > r.doc.meterStart THEN r.value - r.doc.meterStart ELSE 0) \in Nat
    BY <1>1, <1>3, DocTypes
  <1>6. (IF r.power > 0 THEN r.power ELSE PowerRate(last, r.time, r.value)) \in Nat
    BY <1>1, <1>2
  <1> QED BY <1>1, <1>4, <1>5, <1>6 DEF NewMeter, OnMeterValue, Meter, Wh

LEMMA RegisterNat == ASSUME TypeOK, NEW s \in Sessions PROVE Register(s) \in Wh
  <1>1. charger[s].base \in Nat /\ charger[s].steps \in Nat
    BY BillingAssumption DEF TypeOK, Charger, Wh
  <1>2. charger[s].steps * StepWh \in Nat
    BY <1>1, ProductNat, BillingAssumption
  <1> QED BY <1>1, <1>2 DEF Register, Wh

\* What transactionData may give as one end of the session.
Bound == {None} \cup [time : Ticks, value : Wh]

LEMMA SampledIsBound ==
    ASSUME NEW times \in SUBSET Ticks, NEW register \in Wh
    PROVE  Sampled(times, register) \subseteq Bound
  BY BillingAssumption DEF Sampled, Bound, Wh

LEMMA RequestedIsDoc ==
    ASSUME TypeOK, NEW s \in Sessions, NEW curve \in SUBSET Meter
    PROVE  /\ Requested(s, curve) \in Doc
           /\ Requested(s, curve).user = docs[s].user
           /\ Requested(s, curve).plan = docs[s].plan
           /\ Requested(s, curve).amount = docs[s].amount
           /\ Requested(s, curve).st = "finished"
           /\ Requested(s, curve).reason = ByCharger
  <1>1. docs[s] \in Doc /\ charger[s].time \in Ticks
    BY DEF TypeOK, Charger
  <1> QED BY <1>1, RegisterNat DEF Requested, Doc, ByCharger

\* The samples of the request change its times and registers only.
LEMMA DataIsDoc ==
    ASSUME NEW d \in Doc, NEW begin \in Bound, NEW end \in Bound
    PROVE  /\ TransactionData(d, begin, end) \in Doc
           /\ TransactionData(d, begin, end).user = d.user
           /\ TransactionData(d, begin, end).plan = d.plan
           /\ TransactionData(d, begin, end).amount = d.amount
           /\ TransactionData(d, begin, end).st = d.st
           /\ TransactionData(d, begin, end).reason = d.reason
  <1> DEFINE ms == IF begin = None THEN d.meterStart ELSE begin.value
             ts == IF begin = None THEN d.timeStart ELSE begin.time
             me == IF end = None THEN d.meterStop ELSE end.value
             te == IF end = None THEN d.timeStop ELSE end.time
  <1>1. ms \in Wh /\ ts \in Ticks /\ me \in Wh /\ te \in Ticks
    BY DEF Bound, Doc
  <1>2. TransactionData(d, begin, end) =
            [d EXCEPT !.meterStart = ms, !.timeStart = ts, !.meterStop = me, !.timeStop = te]
    BY DEF TransactionData
  <1> HIDE DEF ms, ts, me, te
  <1> QED BY <1>1, <1>2 DEF Doc

LEMMA StoppedIsDoc ==
    ASSUME TypeOK, NEW s \in Sessions, NEW curve \in SUBSET Meter,
           NEW begin \in Bound, NEW end \in Bound
    PROVE  Stopped(s, curve, begin, end) \in Doc
  <1>1. TransactionData(Requested(s, curve), begin, end) \in Doc
    BY RequestedIsDoc, DataIsDoc
  <1> QED BY <1>1, BillIsDoc DEF Stopped

\* What a stop makes of the document it has read.
LEMMA StopReadWrites ==
    ASSUME TypeOK, StopRead
    PROVE  \/ job' = [job EXCEPT !.pc = "release", !.doc = docs[job.s]]
           \/ \E begin \in Bound, end \in Bound :
                 job' = [job EXCEPT !.pc = "write", !.doc = Stopped(job.s, job.curve, begin, end)]
  <1>1. job.s \in Sessions
    BY DEF StopRead, TypeOK, Stopping
  <1> DEFINE s == job.s
  <1>2. /\ Register(s) \in Wh /\ charger[s].base \in Wh
        /\ {docs[s].timeStart, charger[s].time} \in SUBSET Ticks
        /\ {charger[s].time} \in SUBSET Ticks
    <2>1. docs[s] \in Doc /\ charger[s] \in Charger
      BY <1>1 DEF TypeOK
    <2>2. docs[s].timeStart \in Ticks /\ charger[s].time \in Ticks /\ charger[s].base \in Wh
      BY <2>1 DEF Doc, Charger
    <2>3. Register(s) \in Wh
      BY <1>1, RegisterNat
    <2> QED BY <2>2, <2>3
  <1>3. /\ Sampled({docs[s].timeStart, charger[s].time}, charger[s].base) \subseteq Bound
        /\ Sampled({charger[s].time}, Register(s)) \subseteq Bound
    BY <1>2, SampledIsBound
  <1>4. \/ job' = [job EXCEPT !.pc = "release", !.doc = docs[s]]
        \/ \E begin \in Sampled({docs[s].timeStart, charger[s].time}, charger[s].base),
              end \in Sampled({charger[s].time}, Register(s)) :
              job' = [job EXCEPT !.pc = "write", !.doc = Stopped(s, job.curve, begin, end)]
    BY DEF StopRead
  <1> QED BY <1>3, <1>4

LEMMA SweptIsDoc ==
    ASSUME NEW d \in Doc
    PROVE  /\ Aborted(d) \in Doc
           /\ \A m \in Meter : StoppedAt(d, m) \in Doc
           /\ \A S \in SUBSET Meter : WithCurve(d, S) \in Doc
  <1>1. Aborted(d) \in Doc
    BY DEF Aborted, Doc, AbortedBySystem
  <1>2. ASSUME NEW m \in Meter PROVE StoppedAt(d, m) \in Doc
    BY DEF StoppedAt, Doc, Meter, StoppedBySystem
  <1>3. ASSUME NEW S \in SUBSET Meter
        PROVE  WithCurve(d, S) \in Doc
    BY DEF Doc, WithCurve
  <1> QED BY <1>1, <1>2, <1>3

-----------------------------------------------------------------------------
(***************************************************************************)
(* Types.                                                                  *)
(***************************************************************************)
LEMMA InitTyped == Init => TypeOK
  <1> SUFFICES ASSUME Init PROVE TypeOK
    OBVIOUS
  <1>1. 0 \in Ticks /\ 0 \in Wh /\ 0 \in 0..MaxSteps /\ 0 \in 0..MaxFaults
        /\ 0 \in 0..MaxEdits /\ 0 \in 0..MaxDeaths
    BY BillingAssumption DEF Ticks, Wh
  <1>2. plans \in [user : Plans \cup {NoPlan}, default : Plans]
    BY BillingAssumption DEF Init
  <1> QED BY <1>1, <1>2, AbsentIsDoc DEF Init, TypeOK, Charger

LEMMA NatMin == ASSUME NEW T \in SUBSET Nat, T # {} PROVE \E x \in T : \A y \in T : x <= y
  <1> DEFINE R == {ss \in Nat \X Nat : ss[1] < ss[2]}
  <1>1. IsWellFoundedOn(R, Nat)
    BY NatLessThanWellFounded DEF OpToRel
  <1>2. PICK x \in T : \A y \in T : ~ (<<y, x>> \in R)
    <2> HIDE DEF R
    <2> QED BY <1>1, WFMin
  <1>3. ASSUME NEW y \in T PROVE x <= y
    <2>1. x \in Nat /\ y \in Nat
      OBVIOUS
    <2>2. ~(y < x)
      BY <1>2, <2>1
    <2> QED BY <2>1, <2>2
  <1> QED BY <1>3

\* Readings have a latest one, as time ends.
LEMMA LatestExists == ASSUME NEW S \in SUBSET Meter, S # {} PROVE Latest(S) # {}
  <1> DEFINE T == {LastTick - m.time : m \in S}
  <1>1. \A m \in S : m.time \in 0..LastTick
    BY DEF Meter, Ticks
  <1>2. T \in SUBSET Nat /\ T # {}
    BY <1>1, BillingAssumption
  <1>3. PICK x \in T : \A y \in T : x <= y
    <2> HIDE DEF T
    <2> QED BY <1>2, NatMin
  <1>4. PICK m \in S : x = LastTick - m.time
    OBVIOUS
  <1>5. ASSUME NEW n \in S PROVE n.time <= m.time
    <2>1. LastTick - m.time <= LastTick - n.time
      BY <1>3, <1>4
    <2> QED BY <2>1, <1>1, BillingAssumption
  <1> QED BY <1>4, <1>5 DEF Latest

LEMMA ChosenPlan ==
    ASSUME TypeOK, NEW now, NEW plan, ChoosePaymentPlan(now, plan)
    PROVE  cached' \in Plans \cup {NoPlan} /\ faults' \in 0..MaxFaults
  <1>1. PICK own \in GetUserPaymentPlan, default \in GetDefaultPaymentPlan :
            /\ cached' \in {default.plan, cached}
            /\ \/ faults' = faults + own.failed + default.failed
               \/ faults' = faults + own.failed + 0
            /\ faults' <= MaxFaults
    BY DEF ChoosePaymentPlan
  <1>2. default.plan \in Plans \cup {NoPlan} /\ own.failed \in Nat /\ default.failed \in Nat
    BY DEF GetUserPaymentPlan, GetDefaultPaymentPlan, TypeOK
  <1> QED BY <1>1, <1>2, BillingAssumption DEF TypeOK

LEMMA FaultCounted == ASSUME TypeOK, NEW call, Fails(call) PROVE faults' \in 0..MaxFaults
  BY BillingAssumption DEF TypeOK, Fails

LEMMA StepTyped == TypeOK /\ [Next]_vars => TypeOK'
  <1> SUFFICES ASSUME TypeOK, [Next]_vars PROVE TypeOK'
    OBVIOUS
  <1>1. ASSUME NEW s \in Sessions, OnStartTransaction(s) PROVE TypeOK'
    <2>1. PICK base \in Registers, user \in BOOLEAN, now \in TimesOfDay,
               plan \in Plans \cup {NoPlan} :
            /\ charger' = [charger EXCEPT ![s] =
                            [st |-> "on", base |-> base, steps |-> 0, time |-> clock]]
            /\ IF user THEN ChoosePaymentPlan(now, plan)
               ELSE plan = NoPlan /\ UNCHANGED <<cached, faults>>
            /\ docs' = [docs EXCEPT ![s] = NewDoc(user, plan, base)]
      BY <1>1 DEF OnStartTransaction
    <2>2. cached' \in Plans \cup {NoPlan} /\ faults' \in 0..MaxFaults
      BY <2>1, ChosenPlan DEF TypeOK
    <2>3. base \in Wh /\ 0 \in Wh /\ 0 \in Ticks /\ clock \in Ticks /\ 0 \in 0..MaxSteps
      BY BillingAssumption DEF Ticks, Wh, TypeOK
    <2>4. NewDoc(user, plan, base) \in Doc
      BY <2>3 DEF NewDoc, Doc, Wh
    <2>5. docs' \in [Sessions -> Doc]
      BY <2>1, <2>4 DEF TypeOK
    <2>6. charger' \in [Sessions -> Charger]
      BY <2>1, <2>3 DEF TypeOK, Charger
    <2> QED BY <1>1, <2>2, <2>5, <2>6 DEF OnStartTransaction, TypeOK
  <1>2. ASSUME NEW s \in Sessions, OnMeterValues(s) PROVE TypeOK'
    <2>1. \A power \in Powers : [pc |-> "process", doc |-> docs[s], time |-> clock,
                                 value |-> Register(s), power |-> power] \in Reading
      BY RegisterNat, BillingAssumption DEF TypeOK, Reading
    <2>2. pump' \in [Sessions -> Reading \cup Storing \cup {None}]
      BY <1>2, <2>1 DEF OnMeterValues, TypeOK
    <2> QED BY <1>2, <2>2 DEF OnMeterValues, TypeOK, dbVars, memVars, bounds
  <1>3. ASSUME NEW s \in Sessions, OnStatusNotification(s) PROVE TypeOK'
    BY <1>3 DEF OnStatusNotification, TypeOK, dbVars, bounds
  <1>4. ASSUME NEW s \in Sessions, Process(s) PROVE TypeOK'
    <2>1. pump[s] \in Reading
      BY <1>4 DEF Process, TypeOK, Storing
    <2>2. NewMeter(pump[s], lastMeter[s]) \in Meter
      BY <2>1, NewMeterIsMeter DEF TypeOK
    <2> DEFINE m == NewMeter(pump[s], lastMeter[s])
    <2>3. m.rate \in Nat /\ [pc |-> "store", meter |-> m] \in Storing
      BY <2>2 DEF Meter, Storing
    <2>4. /\ lastMeter' \in [Sessions -> Meter \cup {None}]
          /\ gauge' \in [Sessions -> Nat]
          /\ pump' \in [Sessions -> Reading \cup Storing \cup {None}]
      <3> HIDE DEF m
      <3>1. CASE pump[s].value > 0
        <4>1. /\ lastMeter' = [lastMeter EXCEPT ![s] = m]
              /\ gauge' = [gauge EXCEPT ![s] = m.rate]
              /\ pump' = [pump EXCEPT ![s] = [pc |-> "store", meter |-> m]]
          BY <1>4, <3>1 DEF Process, m
        <4> QED BY <4>1, <2>2, <2>3 DEF TypeOK, m
      <3>2. CASE ~(pump[s].value > 0)
        BY <1>4, <3>2 DEF Process, TypeOK
      <3> QED BY <3>1, <3>2
    <2> QED BY <1>4, <2>4 DEF Process, TypeOK, dbVars, bounds
  <1>5. ASSUME NEW s \in Sessions, AddTransactionMeterValue(s) PROVE TypeOK'
    <2>1. pump[s].meter \in Meter
      BY <1>5 DEF AddTransactionMeterValue, TypeOK, Storing, Reading
    <2>2. samples' \in [Sessions -> SUBSET Meter] /\ faults' \in 0..MaxFaults
      BY <1>5, <2>1, FaultCounted DEF AddTransactionMeterValue, TypeOK
    <2>3. pump' \in [Sessions -> Reading \cup Storing \cup {None}]
      BY <1>5 DEF AddTransactionMeterValue, TypeOK
    <2> QED BY <1>5, <2>2, <2>3 DEF AddTransactionMeterValue, TypeOK, memVars
  <1>6. ASSUME NEW s \in Sessions, OnStopTransaction(s) PROVE TypeOK'
    <2>1. PICK curve \in ReadAllTransactionMeterValues(s) :
            /\ job' = [pc |-> "read", s |-> s, doc |-> Absent, curve |-> curve.found]
            /\ faults' = faults + curve.failed /\ faults' <= MaxFaults
      BY <1>6 DEF OnStopTransaction
    <2>2. curve.found \in SUBSET Meter /\ curve.failed \in Nat
      BY DEF ReadAllTransactionMeterValues, TypeOK
    <2>3. job' \in Stopping
      BY <2>1, <2>2, AbsentIsDoc DEF Stopping
    <2>4. faults' \in 0..MaxFaults
      BY <2>1, <2>2, BillingAssumption DEF TypeOK
    <2> QED BY <1>6, <2>3, <2>4 DEF OnStopTransaction, TypeOK, dbVars
  <1>7. ASSUME NEW s \in Sessions, Draw(s) \/ End(s) \/ Contact(s) PROVE TypeOK'
    <2>1. charger[s] \in Charger /\ clock \in Ticks
      BY DEF TypeOK
    <2>2. charger[s].steps < MaxSteps => charger[s].steps + 1 \in 0..MaxSteps
      BY <2>1, BillingAssumption DEF Charger
    <2>3. charger' \in [Sessions -> Charger]
      <3>1. CASE Draw(s)
        BY <2>1, <2>2, <3>1 DEF Draw, TypeOK, Charger
      <3>2. CASE End(s)
        BY <2>1, <3>2 DEF End, TypeOK, Charger
      <3>3. CASE Contact(s)
        <4>1. PICK st \in {"offline", "gone", "back"} : charger' = [charger EXCEPT ![s].st = st]
          BY <3>3 DEF Contact
        <4> QED BY <2>1, <4>1 DEF TypeOK, Charger
      <3> QED BY <1>7, <3>1, <3>2, <3>3
    <2> QED BY <1>7, <2>3 DEF Draw, End, Contact, TypeOK, dbVars, memVars, bounds
  <1>8. CASE StopStep
    <2>1. job \in Stopping
      BY <1>8 DEF StopStep, StopUnreadable, StopRead, StopWrite, StopPurge, StopRelease, TypeOK
    <2>2. job.s \in Sessions /\ job.doc \in Doc /\ job.curve \in SUBSET Meter
      BY <2>1 DEF Stopping
    <2>3. CASE StopUnreadable
      <3>1. charger' \in [Sessions -> Charger]
        BY <2>2, <2>3 DEF StopUnreadable, TypeOK, Charger
      <3> QED BY <2>3, <3>1, FaultCounted DEF StopUnreadable, TypeOK, dbVars, memVars
    <2>4. CASE StopRead
      <3>1. /\ docs[job.s] \in Doc
            /\ \A begin, end \in Bound : Stopped(job.s, job.curve, begin, end) \in Doc
        BY <2>2, StoppedIsDoc DEF TypeOK
      <3>2. job' \in Stopping
        <4>1. PICK pc \in {"write", "release"}, d \in Doc :
                 job' = [job EXCEPT !.pc = pc, !.doc = d]
          BY <2>4, <3>1, StopReadWrites
        <4> QED BY <2>1, <4>1 DEF Stopping
      <3>3. gauge' \in [Sessions -> Nat]
        BY <2>4 DEF StopRead, TypeOK
      <3> QED BY <2>4, <3>2, <3>3 DEF StopRead, TypeOK, dbVars, bounds
    <2>5. CASE StopWrite
      <3>1. docs' \in [Sessions -> Doc] /\ faults' \in 0..MaxFaults
        BY <2>2, <2>5, FaultCounted DEF StopWrite, TypeOK
      <3>2. job' \in Stopping
        BY <2>1, <2>5 DEF StopWrite, Stopping
      <3> QED BY <2>5, <3>1, <3>2 DEF StopWrite, TypeOK, memVars
    <2>6. CASE StopPurge
      <3>1. samples' \in [Sessions -> SUBSET Meter] /\ faults' \in 0..MaxFaults
        BY <2>2, <2>6, FaultCounted DEF StopPurge, TypeOK
      <3>2. job' \in Stopping
        BY <2>1, <2>6 DEF StopPurge, Stopping
      <3> QED BY <2>6, <3>1, <3>2 DEF StopPurge, TypeOK, memVars
    <2>7. CASE StopRelease
      <3>1. charger' \in [Sessions -> Charger] /\ held' \in [Sessions -> BOOLEAN]
        BY <2>2, <2>7 DEF StopRelease, TypeOK, Charger
      <3> QED BY <2>7, <3>1 DEF StopRelease, TypeOK, dbVars, bounds
    <2> QED BY <1>8, <2>3, <2>4, <2>5, <2>6, <2>7 DEF StopStep
  <1>9. ASSUME NEW w \in Sweepers, Query(w) PROVE TypeOK'
    <2> DEFINE found == {[s |-> s, doc |-> docs[s]] : s \in GetUnfinishedTransactions}
    <2>1. found \in SUBSET Copy
      BY DEF GetUnfinishedTransactions, Copy, TypeOK
    <2>2. PICK c \in found : sweep' = [sweep EXCEPT ![w] = [pc |-> "next", todo |-> found, c |-> c]]
      BY <1>9 DEF Query
    <2> HIDE DEF found
    <2>3. sweep' \in [Sweepers -> Sweep \cup {None}]
      BY <2>1, <2>2 DEF TypeOK, Sweep
    <2> QED BY <1>9, <2>3 DEF Query, TypeOK, dbVars, memVars, bounds
  <1>10. ASSUME NEW w \in Sweepers, sweep[w] # None,
                ReadLast(w) \/ ReadCurve(w) \/ SweepWrite(w) \/ SweepRelease(w) \/ SweepPurge(w)
         PROVE  TypeOK'
    <2>1. /\ sweep[w] \in Sweep /\ sweep[w].todo \in SUBSET Copy
          /\ sweep[w].c \in Copy /\ sweep[w].c.s \in Sessions /\ sweep[w].c.doc \in Doc
      BY <1>10 DEF TypeOK, Sweep, Copy
    <2>2. ASSUME NEW pc \in {"next", "curve", "write", "release", "purge"}, NEW c \in Copy,
                 GoOn(w, pc, c)
          PROVE  sweep' \in [Sweepers -> Sweep \cup {None}]
      BY <2>1, <2>2 DEF GoOn, TypeOK, Sweep
    <2>3. CASE ReadLast(w)
      <3>1. PICK c \in sweep[w].todo :
              \/ \E m \in Latest(samples[c.s]) :
                    GoOn(w, "curve", [c EXCEPT !.doc = StoppedAt(@, m)]) /\ UNCHANGED faults
              \/ GoOn(w, "write", [c EXCEPT !.doc = Aborted(@)])
                    /\ (UNCHANGED faults \/ Fails("ReadTransactionMeterValue"))
        BY <2>3 DEF ReadLast
      <3>2. c \in Copy /\ c.s \in Sessions /\ c.doc \in Doc
        BY <2>1 DEF Copy
      <3>3. \A m \in Latest(samples[c.s]) : m \in Meter
        BY <3>2 DEF Latest, TypeOK
      <3>4. \A m \in Latest(samples[c.s]) : [c EXCEPT !.doc = StoppedAt(@, m)] \in Copy
        BY <3>2, <3>3, SweptIsDoc DEF Copy
      <3>5. [c EXCEPT !.doc = Aborted(@)] \in Copy
        BY <3>2, SweptIsDoc DEF Copy
      <3>6. sweep' \in [Sweepers -> Sweep \cup {None}]
        BY <3>1, <3>4, <3>5, <2>2
      <3>7. faults' \in 0..MaxFaults
        BY <3>1, FaultCounted DEF TypeOK
      <3> QED BY <2>3, <3>6, <3>7 DEF ReadLast, TypeOK, dbVars, memVars
    <2>4. CASE ReadCurve(w)
      <3>1. PICK curve \in ReadAllTransactionMeterValues(sweep[w].c.s) :
              /\ GoOn(w, "write", [sweep[w].c EXCEPT !.doc = Bill(WithCurve(@, curve.found))])
              /\ faults' = faults + curve.failed /\ faults' <= MaxFaults
        BY <2>4 DEF ReadCurve
      <3>2. curve.found \in SUBSET Meter /\ curve.failed \in Nat
        BY <2>1 DEF ReadAllTransactionMeterValues, TypeOK
      <3> DEFINE d == WithCurve(sweep[w].c.doc, curve.found)
      <3>3. d \in Doc
        BY <2>1, <3>2, SweptIsDoc
      <3>4. GoOn(w, "write", [sweep[w].c EXCEPT !.doc = Bill(d)])
        BY <3>1
      <3> HIDE DEF d
      <3>5. [sweep[w].c EXCEPT !.doc = Bill(d)] \in Copy
        BY <2>1, <3>3, BillIsDoc DEF Copy
      <3>6. sweep' \in [Sweepers -> Sweep \cup {None}]
        BY <3>4, <3>5, <2>2
      <3>7. faults' \in 0..MaxFaults
        BY <3>1, <3>2, BillingAssumption DEF TypeOK
      <3> QED BY <2>4, <3>6, <3>7 DEF ReadCurve, TypeOK, dbVars, memVars
    <2>5. CASE SweepWrite(w)
      <3>1. docs' \in [Sessions -> Doc] /\ faults' \in 0..MaxFaults
        BY <2>1, <2>5, FaultCounted DEF SweepWrite, TypeOK
      <3>2. sweep' \in [Sweepers -> Sweep \cup {None}]
        BY <2>1, <2>2, <2>5 DEF SweepWrite
      <3> QED BY <2>5, <3>1, <3>2 DEF SweepWrite, TypeOK, memVars
    <2>6. CASE SweepRelease(w)
      <3>1. sweep' \in [Sweepers -> Sweep \cup {None}]
        BY <2>1, <2>2, <2>6 DEF SweepRelease
      <3>2. held' \in [Sessions -> BOOLEAN] /\ gauge' \in [Sessions -> Nat]
        BY <2>6 DEF SweepRelease, TypeOK
      <3> QED BY <2>6, <3>1, <3>2 DEF SweepRelease, TypeOK, dbVars, bounds
    <2>7. CASE SweepPurge(w)
      <3>1. samples' \in [Sessions -> SUBSET Meter] /\ faults' \in 0..MaxFaults
        BY <2>1, <2>7, FaultCounted DEF SweepPurge, TypeOK
      <3>2. sweep' \in [Sweepers -> Sweep \cup {None}]
        BY <2>1, <2>7 DEF SweepPurge, TypeOK, Sweep
      <3> QED BY <2>7, <3>1, <3>2 DEF SweepPurge, TypeOK, memVars
    <2> QED BY <1>10, <2>3, <2>4, <2>5, <2>6, <2>7
  <1>11. CASE Tick
    BY <1>11, BillingAssumption DEF Tick, TypeOK, Ticks, dbVars, memVars, bounds
  <1>12. CASE EditPlans
    <2>1. plans' \in [user : Plans \cup {NoPlan}, default : Plans] /\ edits' \in 0..MaxEdits
      BY <1>12, BillingAssumption DEF EditPlans, TypeOK
    <2> QED BY <1>12, <2>1 DEF EditPlans, TypeOK, memVars
  <1>13. CASE Restart
    <2>1. ASSUME NEW s \in Sessions, samples[s] # {}
          PROVE  (CHOOSE m \in Latest(samples[s]) : TRUE) \in Meter
      <3>1. Latest(samples[s]) # {} /\ Latest(samples[s]) \subseteq Meter
        BY <2>1, LatestExists DEF TypeOK, Latest
      <3> QED BY <3>1
    <2>2. lastMeter' \in [Sessions -> Meter \cup {None}]
      BY <1>13, <2>1 DEF Restart, ReadLastMeterValues
    <2>3. deaths' \in 0..MaxDeaths /\ held' \in [Sessions -> BOOLEAN]
      BY <1>13, BillingAssumption DEF Restart, TypeOK, Open
    <2> QED BY <1>13, <2>2, <2>3 DEF Restart, TypeOK, dbVars
  <1>14. CASE UNCHANGED vars
    BY <1>14 DEF TypeOK, vars, dbVars, memVars, bounds
  <1>15. ASSUME NEW w \in Sweepers, SweepStep(w) PROVE TypeOK'
    BY <1>9, <1>10, <1>15 DEF SweepStep, ReadLast, ReadCurve, SweepWrite, SweepRelease,
       SweepPurge, At
  <1> QED BY <1>1, <1>2, <1>3, <1>4, <1>5, <1>6, <1>7, <1>8, <1>11, <1>12, <1>13, <1>14,
             <1>15 DEF Next, HandlerStep

\* The transactions collection, the stored and the remembered readings and the
\* figures in the hands of handlers and sweeps stay within their sets, and the
\* reading OnStart takes for the last one exists.
THEOREM BillingTyped == Spec => []TypeOK
  BY InitTyped, StepTyped, PTL DEF Spec

-----------------------------------------------------------------------------
(***************************************************************************)
(* The figures of a finished transaction.                                  *)
(***************************************************************************)
\* The amount is what the plan makes of the figures.
Agrees(d) == d.amount = Price(d.plan, d.timeStop - d.timeStart, d.meterStop - d.meterStart)

\* Nothing is charged before the end, and never without a plan.
Consistent(d) ==
    /\ d.plan = NoPlan => d.amount = 0
    /\ d.st = "open" => d.amount = 0 /\ d.meterStop = 0
    /\ d.st = "finished" => Agrees(d)

\* A sweep begins with copies that were open, and carries one at a time to its
\* bill.
CopiesConsistent(w) ==
    sweep[w] # None =>
        /\ \A c \in sweep[w].todo : c.doc.amount = 0 /\ c.doc.meterStop = 0
        /\ sweep[w].pc = "curve" => sweep[w].c.doc.amount = 0 /\ sweep[w].c.doc.st = "finished"
        /\ sweep[w].pc = "write" => Consistent(sweep[w].c.doc)

StopConsistent == job # None /\ job.pc = "write" => Consistent(job.doc)

Books ==
    /\ \A s \in Sessions : Consistent(docs[s])
    /\ StopConsistent
    /\ \A w \in Sweepers : CopiesConsistent(w)

LEMMA BillAgrees ==
    ASSUME NEW d \in Doc, d.plan = NoPlan => d.amount = 0, d.st = "finished"
    PROVE  Consistent(Bill(d))
  <1> DEFINE p == Price(d.plan, d.timeStop - d.timeStart, d.meterStop - d.meterStart)
  <1>1. d.plan = NoPlan => p = 0
    BY DEF Price
  <1> DEFINE b == Bill(d)
  <1>2. b = [d EXCEPT !.amount = IF d.plan = NoPlan THEN @ ELSE p]
    BY DEF Bill
  <1> HIDE DEF p, b
  <1>3. /\ b.plan = d.plan /\ b.timeStop = d.timeStop /\ b.timeStart = d.timeStart
        /\ b.meterStop = d.meterStop /\ b.meterStart = d.meterStart /\ b.st = d.st
        /\ b.amount = IF d.plan = NoPlan THEN d.amount ELSE p
    BY <1>2 DEF Doc
  <1>4. Consistent(b)
    BY <1>1, <1>3 DEF Consistent, Agrees, p
  <1> QED BY <1>4 DEF b

LEMMA AbortedAgrees ==
    ASSUME NEW d \in Doc, d.amount = 0, d.meterStop = 0
    PROVE  Consistent(Aborted(d))
  <1> DEFINE a == Aborted(d)
  <1>1. /\ a.plan = d.plan /\ a.timeStop = d.timeStart /\ a.timeStart = d.timeStart
        /\ a.meterStop = 0 /\ a.meterStart = d.meterStart /\ a.st = "finished" /\ a.amount = 0
    BY DEF Aborted, Doc
  <1> HIDE DEF a
  <1>2. d.plan \in Plans \cup {NoPlan} /\ d.timeStart - d.timeStart = 0
        /\ 0 - d.meterStart \in Int /\ 0 - d.meterStart <= 0
    <2>1. d.timeStart \in Ticks /\ d.meterStart \in Wh /\ d.plan \in Plans \cup {NoPlan}
      BY DEF Doc
    <2> QED BY <2>1 DEF Ticks, Wh
  <1>3. Price(d.plan, 0, 0 - d.meterStart) = 0
    BY <1>2, NothingIsFree
  <1>4. Consistent(a)
    BY <1>1, <1>2, <1>3 DEF Consistent, Agrees
  <1> QED BY <1>4 DEF a

LEMMA StoppedAgrees ==
    ASSUME TypeOK, NEW s \in Sessions, NEW curve \in SUBSET Meter,
           NEW begin \in Bound, NEW end \in Bound, Consistent(docs[s])
    PROVE  Consistent(Stopped(s, curve, begin, end))
  <1> DEFINE d == TransactionData(Requested(s, curve), begin, end)
  <1>1. d \in Doc /\ d.plan = docs[s].plan /\ d.amount = docs[s].amount /\ d.st = "finished"
    BY RequestedIsDoc, DataIsDoc
  <1>2. Stopped(s, curve, begin, end) = Bill(d)
    BY DEF Stopped
  <1> HIDE DEF d
  <1>3. d.plan = NoPlan => d.amount = 0
    BY <1>1 DEF Consistent
  <1> QED BY <1>1, <1>2, <1>3, BillAgrees

LEMMA InitBooks == Init => Books
  <1> SUFFICES ASSUME Init PROVE Books
    OBVIOUS
  <1>1. \A s \in Sessions : docs[s] = Absent
    BY DEF Init
  <1>2. Absent.st = "absent" /\ Absent.amount = 0
    BY DEF Absent
  <1>3. \A s \in Sessions : Consistent(docs[s])
    BY <1>1, <1>2 DEF Consistent
  <1>4. job = None /\ \A w \in Sweepers : sweep[w] = None
    BY DEF Init
  <1> QED BY <1>3, <1>4 DEF Books, StopConsistent, CopiesConsistent

\* A step that leaves documents, stop and sweeps alone keeps the books.
LEMMA BooksKept == ASSUME Books, UNCHANGED <<docs, job, sweep>> PROVE Books'
  BY DEF Books, StopConsistent, CopiesConsistent, Consistent, Agrees

LEMMA StepBooks == TypeOK /\ Books /\ [Next]_vars => Books'
  <1> SUFFICES ASSUME TypeOK, Books, [Next]_vars PROVE Books'
    OBVIOUS
  <1>1. ASSUME NEW s \in Sessions, OnStartTransaction(s) PROVE Books'
    <2>1. PICK user, plan, base : docs' = [docs EXCEPT ![s] = NewDoc(user, plan, base)]
      BY <1>1 DEF OnStartTransaction
    <2>2. Consistent(NewDoc(user, plan, base))
      BY DEF Consistent, NewDoc
    <2>3. \A t \in Sessions : docs'[t] \in {docs[t], NewDoc(user, plan, base)}
      BY <2>1 DEF TypeOK
    <2>4. \A t \in Sessions : Consistent(docs'[t])
      BY <2>2, <2>3 DEF Books
    <2>5. UNCHANGED <<job, sweep>>
      BY <1>1 DEF OnStartTransaction
    <2> QED BY <2>4, <2>5 DEF Books, StopConsistent, CopiesConsistent, Consistent, Agrees
  <1>2. ASSUME NEW s \in Sessions,
               \/ OnMeterValues(s) \/ OnStatusNotification(s) \/ Process(s)
               \/ AddTransactionMeterValue(s) \/ Draw(s) \/ End(s) \/ Contact(s)
        PROVE  Books'
    <2>1. UNCHANGED <<docs, job, sweep>>
      BY <1>2 DEF OnMeterValues, OnStatusNotification, Process, AddTransactionMeterValue,
                  Draw, End, Contact, dbVars
    <2> QED BY <2>1, BooksKept
  <1>3. ASSUME NEW s \in Sessions, OnStopTransaction(s) PROVE Books'
    <2>1. job'.pc = "read" /\ UNCHANGED <<docs, sweep>>
      BY <1>3 DEF OnStopTransaction, dbVars
    <2> QED BY <2>1 DEF Books, StopConsistent, CopiesConsistent, Consistent, Agrees
  <1>4. CASE StopStep
    <2>1. job \in Stopping
      BY <1>4 DEF StopStep, StopUnreadable, StopRead, StopWrite, StopPurge, StopRelease, TypeOK
    <2>2. job.s \in Sessions /\ job.doc \in Doc /\ job.curve \in SUBSET Meter
      BY <2>1 DEF Stopping
    <2>3. UNCHANGED sweep
      BY <1>4 DEF StopStep, StopUnreadable, StopRead, StopWrite, StopPurge, StopRelease
    <2>4. \A w \in Sweepers : CopiesConsistent(w)'
      BY <2>3 DEF Books, CopiesConsistent, Consistent, Agrees
    <2>5. CASE StopRead
      <3>1. \A begin, end \in Bound : Consistent(Stopped(job.s, job.curve, begin, end))
        BY <2>2, StoppedAgrees DEF Books
      <3>2. \/ job'.pc = "release"
            \/ \E begin, end \in Bound :
                  job'.pc = "write" /\ job'.doc = Stopped(job.s, job.curve, begin, end)
        BY <2>1, <2>5, StopReadWrites DEF Stopping
      <3>3. job'.pc = "write" => Consistent(job'.doc)
        BY <3>1, <3>2
      <3>4. UNCHANGED docs
        BY <2>5 DEF StopRead, dbVars
      <3> QED BY <2>4, <3>3, <3>4 DEF Books, StopConsistent, Consistent, Agrees
    <2>6. CASE StopWrite
      <3>1. Consistent(job.doc)
        BY <2>6 DEF StopWrite, Books, StopConsistent
      <3>2. \A s \in Sessions : docs'[s] \in {docs[s], job.doc}
        BY <2>6 DEF StopWrite, TypeOK
      <3>3. \A s \in Sessions : Consistent(docs'[s])
        BY <3>1, <3>2 DEF Books
      <3>4. job'.pc # "write"
        BY <2>1, <2>6 DEF StopWrite, Stopping
      <3> QED BY <2>4, <3>3, <3>4 DEF Books, StopConsistent, Consistent, Agrees
    <2>7. CASE StopUnreadable \/ StopPurge \/ StopRelease
      <3>1. UNCHANGED docs /\ (job' = None \/ job'.pc # "write")
        BY <2>1, <2>7 DEF StopUnreadable, StopPurge, StopRelease, dbVars, Stopping
      <3> QED BY <2>4, <3>1 DEF Books, StopConsistent, Consistent, Agrees
    <2> QED BY <1>4, <2>5, <2>6, <2>7 DEF StopStep
  <1>5. ASSUME NEW w \in Sweepers, Query(w) PROVE Books'
    <2> DEFINE found == {[s |-> s, doc |-> docs[s]] : s \in GetUnfinishedTransactions}
    <2>1. PICK c \in found : sweep' = [sweep EXCEPT ![w] = [pc |-> "next", todo |-> found, c |-> c]]
      BY <1>5 DEF Query
    <2>2. \A k \in found : k.doc.amount = 0 /\ k.doc.meterStop = 0
      BY DEF GetUnfinishedTransactions, Open, Books, Consistent
    <2> HIDE DEF found
    <2>3. UNCHANGED <<docs, job>>
      BY <1>5 DEF Query, dbVars
    <2>4. ASSUME NEW v \in Sweepers PROVE CopiesConsistent(v)'
      <3>1. CASE v = w
        BY <2>1, <2>2, <3>1 DEF CopiesConsistent, TypeOK
      <3>2. CASE v # w
        <4>1. sweep'[v] = sweep[v]
          BY <2>1, <3>2 DEF TypeOK
        <4> QED BY <4>1 DEF Books, CopiesConsistent, Consistent, Agrees
      <3> QED BY <3>1, <3>2
    <2> QED BY <2>3, <2>4 DEF Books, StopConsistent, Consistent, Agrees
  <1>6. ASSUME NEW w \in Sweepers, sweep[w] # None,
               ReadLast(w) \/ ReadCurve(w) \/ SweepWrite(w) \/ SweepRelease(w) \/ SweepPurge(w)
        PROVE  Books'
    <2>1. /\ sweep[w] \in Sweep /\ sweep[w].todo \in SUBSET Copy
          /\ sweep[w].c \in Copy /\ sweep[w].c.s \in Sessions /\ sweep[w].c.doc \in Doc
      BY <1>6 DEF TypeOK, Sweep, Copy
    <2>2. UNCHANGED job
      BY <1>6 DEF ReadLast, ReadCurve, SweepWrite, SweepRelease, SweepPurge
    <2>3. \A v \in Sweepers : v # w => sweep'[v] = sweep[v]
      <3>1. ASSUME NEW pc, NEW c, GoOn(w, pc, c)
            PROVE  \A v \in Sweepers : v # w => sweep'[v] = sweep[v]
        BY <3>1 DEF GoOn, TypeOK
      <3>2. CASE ReadLast(w)
        BY <3>1, <3>2 DEF ReadLast
      <3>3. CASE ReadCurve(w)
        BY <3>1, <3>3 DEF ReadCurve
      <3>4. CASE SweepWrite(w)
        BY <3>1, <3>4 DEF SweepWrite
      <3>5. CASE SweepRelease(w)
        BY <3>1, <3>5 DEF SweepRelease
      <3>6. CASE SweepPurge(w)
        BY <3>6 DEF SweepPurge, TypeOK
      <3> QED BY <1>6, <3>2, <3>3, <3>4, <3>5, <3>6
    <2>4. ASSUME CopiesConsistent(w)', \A s \in Sessions : Consistent(docs'[s]) PROVE Books'
      <3>1. \A v \in Sweepers : v # w => CopiesConsistent(v)'
        BY <2>3 DEF Books, CopiesConsistent, Consistent, Agrees
      <3> QED BY <2>2, <2>4, <3>1 DEF Books, StopConsistent, Consistent, Agrees
    <2>5. ASSUME UNCHANGED docs PROVE \A s \in Sessions : Consistent(docs'[s])
      BY <2>5 DEF Books
    <2>6. ASSUME NEW pc, NEW c, GoOn(w, pc, c)
          PROVE  sweep'[w].pc = pc /\ sweep'[w].c = c /\ sweep'[w].todo = sweep[w].todo
      BY <2>1, <2>6 DEF GoOn, TypeOK, Sweep
    <2>7. \A c \in sweep[w].todo : c.doc.amount = 0 /\ c.doc.meterStop = 0
      BY <1>6 DEF Books, CopiesConsistent
    <2>8. CASE ReadLast(w)
      <3>1. PICK c \in sweep[w].todo :
              \/ \E m \in Latest(samples[c.s]) : GoOn(w, "curve", [c EXCEPT !.doc = StoppedAt(@, m)])
              \/ GoOn(w, "write", [c EXCEPT !.doc = Aborted(@)])
        BY <2>8 DEF ReadLast
      <3>2. c \in Copy /\ c.doc \in Doc /\ c.doc.amount = 0 /\ c.doc.meterStop = 0
        BY <2>1, <2>7 DEF Copy
      <3>3. Consistent(Aborted(c.doc))
        BY <3>2, AbortedAgrees
      <3>4. \A m : StoppedAt(c.doc, m).amount = 0 /\ StoppedAt(c.doc, m).st = "finished"
        BY <3>2 DEF StoppedAt, Doc
      <3>5. [c EXCEPT !.doc = Aborted(@)].doc = Aborted(c.doc)
        BY <3>2 DEF Copy
      <3>6. \A m : [c EXCEPT !.doc = StoppedAt(@, m)].doc = StoppedAt(c.doc, m)
        BY <3>2 DEF Copy
      <3>7. CopiesConsistent(w)'
        <4>1. CASE GoOn(w, "write", [c EXCEPT !.doc = Aborted(@)])
          <5>1. sweep'[w].pc = "write" /\ sweep'[w].c.doc = Aborted(c.doc)
                /\ sweep'[w].todo = sweep[w].todo
            BY <4>1, <2>6, <3>5
          <5> QED BY <5>1, <2>7, <3>3 DEF CopiesConsistent, Consistent, Agrees
        <4>2. ASSUME NEW m, GoOn(w, "curve", [c EXCEPT !.doc = StoppedAt(@, m)])
              PROVE  CopiesConsistent(w)'
          <5>1. sweep'[w].pc = "curve" /\ sweep'[w].c.doc = StoppedAt(c.doc, m)
                /\ sweep'[w].todo = sweep[w].todo
            BY <4>2, <2>6, <3>6
          <5> QED BY <5>1, <2>7, <3>4 DEF CopiesConsistent
        <4> QED BY <3>1, <4>1, <4>2
      <3>8. UNCHANGED docs
        BY <2>8 DEF ReadLast, dbVars
      <3> QED BY <2>4, <2>5, <3>7, <3>8
    <2>9. CASE ReadCurve(w)
      <3>1. PICK curve \in ReadAllTransactionMeterValues(sweep[w].c.s) :
              GoOn(w, "write", [sweep[w].c EXCEPT !.doc = Bill(WithCurve(@, curve.found))])
        BY <2>9 DEF ReadCurve
      <3>2. curve.found \in SUBSET Meter
        BY <2>1 DEF ReadAllTransactionMeterValues, TypeOK
      <3> DEFINE d == WithCurve(sweep[w].c.doc, curve.found)
      <3>3. d \in Doc /\ d.amount = 0 /\ d.st = "finished"
        <4>1. sweep[w].c.doc.amount = 0 /\ sweep[w].c.doc.st = "finished"
          BY <1>6, <2>9 DEF ReadCurve, At, Books, CopiesConsistent
        <4>2. d \in Doc
          BY <2>1, <3>2, SweptIsDoc
        <4> QED BY <4>1, <4>2, <2>1 DEF Doc, WithCurve
      <3>4. GoOn(w, "write", [sweep[w].c EXCEPT !.doc = Bill(d)])
        BY <3>1
      <3> HIDE DEF d
      <3>5. Consistent(Bill(d))
        BY <3>3, BillAgrees
      <3>6. sweep'[w].pc = "write" /\ sweep'[w].c.doc = Bill(d) /\ sweep'[w].todo = sweep[w].todo
        BY <2>1, <2>6, <3>4 DEF Copy
      <3>7. CopiesConsistent(w)'
        BY <3>5, <3>6, <2>7 DEF CopiesConsistent, Consistent, Agrees
      <3>8. UNCHANGED docs
        BY <2>9 DEF ReadCurve, dbVars
      <3> QED BY <2>4, <2>5, <3>7, <3>8
    <2>10. CASE SweepWrite(w)
      <3>1. Consistent(sweep[w].c.doc)
        BY <1>6, <2>10 DEF SweepWrite, At, Books, CopiesConsistent
      <3>2. \A s \in Sessions : docs'[s] \in {docs[s], sweep[w].c.doc}
        BY <2>10 DEF SweepWrite, TypeOK
      <3>3. \A s \in Sessions : Consistent(docs'[s])
        BY <3>1, <3>2 DEF Books
      <3>4. sweep'[w].pc = "release" /\ sweep'[w].todo = sweep[w].todo
        BY <2>6, <2>10 DEF SweepWrite
      <3>5. CopiesConsistent(w)'
        BY <3>4, <2>7 DEF CopiesConsistent
      <3> QED BY <2>4, <3>3, <3>5
    <2>11. CASE SweepRelease(w)
      <3>1. sweep'[w].pc = "purge" /\ sweep'[w].todo = sweep[w].todo
        BY <2>6, <2>11 DEF SweepRelease
      <3>2. CopiesConsistent(w)'
        BY <3>1, <2>7 DEF CopiesConsistent
      <3>3. UNCHANGED docs
        BY <2>11 DEF SweepRelease, dbVars
      <3> QED BY <2>4, <2>5, <3>2, <3>3
    <2>12. CASE SweepPurge(w)
      <3>1. \/ sweep'[w] = None
            \/ sweep'[w].pc = "next" /\ sweep'[w].todo \subseteq sweep[w].todo
        BY <2>12 DEF SweepPurge, TypeOK
      <3>2. CopiesConsistent(w)'
        BY <3>1, <2>7 DEF CopiesConsistent
      <3>3. UNCHANGED docs
        BY <2>12 DEF SweepPurge
      <3> QED BY <2>4, <2>5, <3>2, <3>3
    <2> QED BY <1>6, <2>8, <2>9, <2>10, <2>11, <2>12
  <1>7. CASE Tick \/ EditPlans \/ UNCHANGED vars
    <2>1. UNCHANGED <<docs, job, sweep>>
      BY <1>7 DEF Tick, EditPlans, vars, dbVars
    <2> QED BY <2>1, BooksKept
  <1>8. CASE Restart
    <2>1. UNCHANGED docs /\ job' = None /\ \A w \in Sweepers : sweep'[w] = None
      BY <1>8 DEF Restart, dbVars
    <2> QED BY <2>1 DEF Books, StopConsistent, CopiesConsistent, Consistent, Agrees
  <1>9. ASSUME NEW w \in Sweepers, SweepStep(w) PROVE Books'
    BY <1>5, <1>6, <1>9 DEF SweepStep, ReadLast, ReadCurve, SweepWrite, SweepRelease,
       SweepPurge, At
  <1> QED BY <1>1, <1>2, <1>3, <1>4, <1>7, <1>8, <1>9 DEF Next, HandlerStep

\* A finished transaction is billed for exactly the figures stored with it,
\* whatever stops, sweeps and restarts interleave and whichever calls fail.
THEOREM BillsAgree == Spec => []FiguresAgree
  <1>1. Init => TypeOK /\ Books
    BY InitTyped, InitBooks
  <1>2. TypeOK /\ Books /\ [Next]_vars => TypeOK' /\ Books'
    BY StepTyped, StepBooks
  <1>3. TypeOK /\ Books => FiguresAgree
    <2> SUFFICES ASSUME TypeOK, Books, NEW s \in Sessions, Finished(s)
                 PROVE  Agrees(docs[s]) /\ docs[s].amount >= 0
      BY DEF FiguresAgree, Agrees
    <2>1. Agrees(docs[s])
      BY DEF Books, Consistent, Finished
    <2>2. docs[s].amount \in Nat
      BY DEF TypeOK, Doc
    <2> QED BY <2>1, <2>2
  <1> QED BY <1>1, <1>2, <1>3, PTL DEF Spec

-----------------------------------------------------------------------------
(***************************************************************************)
(* Plans.  A document is without a plan only if a lookup had failed when   *)
(* it was inserted, and every copy of it keeps its user and its plan.      *)
(***************************************************************************)
Excused(d, failures) == d.user /\ d.plan = NoPlan => failures > 0

PlanInv ==
    /\ \A s \in Sessions : Excused(docs[s], faults)
    /\ job # None => Excused(job.doc, faults)
    /\ \A w \in Sweepers : sweep[w] # None =>
          \A c \in sweep[w].todo \cup {sweep[w].c} : Excused(c.doc, faults)

LEMMA FaultsGrow == ASSUME TypeOK, [Next]_vars PROVE faults' >= faults
  <1>0. faults \in Nat
    BY BillingAssumption DEF TypeOK
  <1>1. \A call : Fails(call) => faults' >= faults
    BY <1>0 DEF Fails
  <1>2. ASSUME NEW s, NEW curve \in ReadAllTransactionMeterValues(s),
               faults' = faults + curve.failed
        PROVE  faults' >= faults
    BY <1>0, <1>2 DEF ReadAllTransactionMeterValues
  <1>3. ASSUME NEW s \in Sessions, OnStartTransaction(s) PROVE faults' >= faults
    <2>1. ASSUME NEW now, NEW plan, ChoosePaymentPlan(now, plan) PROVE faults' >= faults
      <3>1. PICK own \in GetUserPaymentPlan, default \in GetDefaultPaymentPlan :
                \/ faults' = faults + own.failed + default.failed
                \/ faults' = faults + own.failed + 0
        BY <2>1 DEF ChoosePaymentPlan
      <3>2. own.failed \in Nat /\ default.failed \in Nat
        BY DEF GetUserPaymentPlan, GetDefaultPaymentPlan
      <3> QED BY <1>0, <3>1, <3>2
    <2> QED BY <1>0, <1>3, <2>1 DEF OnStartTransaction
  <1>4. ASSUME NEW s \in Sessions, OnStopTransaction(s) PROVE faults' >= faults
    BY <1>2, <1>4 DEF OnStopTransaction
  <1>5. ASSUME NEW s \in Sessions,
               \/ OnMeterValues(s) \/ OnStatusNotification(s) \/ Process(s)
               \/ AddTransactionMeterValue(s) \/ Draw(s) \/ End(s) \/ Contact(s)
        PROVE  faults' >= faults
    BY <1>0, <1>1, <1>5 DEF OnMeterValues, OnStatusNotification, Process,
       AddTransactionMeterValue, Draw, End, Contact, bounds
  <1>6. CASE StopStep
    <2>1. CASE StopUnreadable
      BY <1>1, <2>1 DEF StopUnreadable
    <2>2. CASE StopRead \/ StopRelease
      <3>1. StopRead => UNCHANGED faults
        BY DEF StopRead, bounds
      <3>2. StopRelease => UNCHANGED faults
        BY DEF StopRelease, bounds
      <3> QED BY <1>0, <2>2, <3>1, <3>2
    <2>3. CASE StopWrite
      <3>1. faults' = faults \/ Fails("UpdateTransaction")
        BY <2>3 DEF StopWrite
      <3> QED BY <1>0, <1>1, <3>1
    <2>4. CASE StopPurge
      <3>1. faults' = faults \/ Fails("DeleteTransactionMeterValues")
        BY <2>4 DEF StopPurge
      <3> QED BY <1>0, <1>1, <3>1
    <2> QED BY <1>6, <2>1, <2>2, <2>3, <2>4 DEF StopStep
  <1>7. ASSUME NEW w \in Sweepers, SweepStep(w) PROVE faults' >= faults
    <2>1. CASE ReadCurve(w)
      BY <1>2, <2>1 DEF ReadCurve
    <2>2. CASE Query(w) \/ SweepRelease(w)
      BY <1>0, <2>2 DEF Query, SweepRelease, bounds
    <2>3. CASE ReadLast(w)
      <3>1. faults' = faults \/ Fails("ReadTransactionMeterValue")
        BY <2>3 DEF ReadLast
      <3> QED BY <1>0, <1>1, <3>1
    <2>4. CASE SweepWrite(w)
      <3>1. faults' = faults \/ Fails("UpdateTransaction")
        BY <2>4 DEF SweepWrite
      <3> QED BY <1>0, <1>1, <3>1
    <2>5. CASE SweepPurge(w)
      <3>1. faults' = faults \/ Fails("DeleteTransactionMeterValues")
        BY <2>5 DEF SweepPurge
      <3> QED BY <1>0, <1>1, <3>1
    <2> QED BY <1>7, <2>1, <2>2, <2>3, <2>4, <2>5 DEF SweepStep
  <1>8. CASE Tick \/ EditPlans \/ Restart \/ UNCHANGED vars
    BY <1>0, <1>8 DEF Tick, EditPlans, Restart, vars, bounds
  <1> QED BY <1>3, <1>4, <1>5, <1>6, <1>7, <1>8 DEF Next, HandlerStep

\* Without a failure the user's own plan or the default is found.
LEMMA ChoiceExcused ==
    ASSUME TypeOK, NEW now, ChoosePaymentPlan(now, NoPlan)
    PROVE  faults' > 0
  <1>0. faults \in Nat /\ plans.default \in Plans /\ NoPlan \notin Plans
    BY BillingAssumption DEF TypeOK
  <1>1. PICK own \in GetUserPaymentPlan, default \in GetDefaultPaymentPlan :
            LET current == own.plan # NoPlan /\ IsCurrentTimeRange(own.plan, now)
                read == ~current /\ cached = NoPlan
            IN /\ cached' = IF read THEN default.plan ELSE cached
               /\ NoPlan = IF current THEN own.plan ELSE cached'
               /\ faults' = faults + own.failed + (IF read THEN default.failed ELSE 0)
    BY DEF ChoosePaymentPlan
  <1>2. default.plan = NoPlan /\ faults' = faults + own.failed + default.failed
    BY <1>1
  <1>3. own.failed \in Nat /\ default.failed = 1
    BY <1>0, <1>2 DEF GetUserPaymentPlan, GetDefaultPaymentPlan
  <1> QED BY <1>0, <1>2, <1>3

LEMMA SameTerms ==
    ASSUME NEW d \in Doc, NEW n
    PROVE  /\ Excused(d, n) => Excused(Aborted(d), n)
           /\ Excused(d, n) => \A m : Excused(StoppedAt(d, m), n)
           /\ Excused(d, n) => \A S : Excused(Bill(WithCurve(d, S)), n)
  <1>1. \A m : StoppedAt(d, m).user = d.user /\ StoppedAt(d, m).plan = d.plan
    BY DEF StoppedAt, Doc
  <1>2. Aborted(d).user = d.user /\ Aborted(d).plan = d.plan
    BY DEF Aborted, Doc
  <1>3. ASSUME NEW S
        PROVE  Bill(WithCurve(d, S)).user = d.user /\ Bill(WithCurve(d, S)).plan = d.plan
    <2> DEFINE e == WithCurve(d, S)
               p == Price(e.plan, e.timeStop - e.timeStart, e.meterStop - e.meterStart)
    <2>1. e = [d EXCEPT !.curve = IF S # {} THEN S ELSE @]
      BY DEF WithCurve
    <2>2. Bill(e) = [e EXCEPT !.amount = IF e.plan = NoPlan THEN @ ELSE p]
      BY DEF Bill
    <2> HIDE DEF e, p
    <2>3. Bill(e).user = d.user /\ Bill(e).plan = d.plan
      BY <2>1, <2>2 DEF Doc
    <2> QED BY <2>3 DEF e
  <1> QED BY <1>1, <1>2, <1>3 DEF Excused

\* What a stop keeps of the document, and how it marks it.
LEMMA StoppedFields ==
    ASSUME TypeOK, NEW s \in Sessions, NEW curve \in SUBSET Meter,
           NEW begin \in Bound, NEW end \in Bound
    PROVE  /\ Stopped(s, curve, begin, end).user = docs[s].user
           /\ Stopped(s, curve, begin, end).plan = docs[s].plan
           /\ Stopped(s, curve, begin, end).st = "finished"
           /\ Stopped(s, curve, begin, end).reason = ByCharger
  <1> DEFINE e == TransactionData(Requested(s, curve), begin, end)
             p == Price(e.plan, e.timeStop - e.timeStart, e.meterStop - e.meterStart)
  <1>1. /\ e \in Doc /\ e.user = docs[s].user /\ e.plan = docs[s].plan
        /\ e.st = "finished" /\ e.reason = ByCharger
    BY RequestedIsDoc, DataIsDoc
  <1>2. Bill(e) = [e EXCEPT !.amount = IF e.plan = NoPlan THEN @ ELSE p]
    BY DEF Bill
  <1>3. Stopped(s, curve, begin, end) = Bill(e)
    BY DEF Stopped
  <1> HIDE DEF e, p
  <1>4. /\ Bill(e).user = e.user /\ Bill(e).plan = e.plan
        /\ Bill(e).st = e.st /\ Bill(e).reason = e.reason
    BY <1>1, <1>2 DEF Doc
  <1> QED BY <1>1, <1>3, <1>4

LEMMA InitPlans == Init => PlanInv
  <1> SUFFICES ASSUME Init PROVE PlanInv
    OBVIOUS
  <1>1. job = None /\ \A w \in Sweepers : sweep[w] = None
    BY DEF Init
  <1>2. \A s \in Sessions : docs[s].user = FALSE
    BY DEF Init, Absent
  <1> QED BY <1>1, <1>2 DEF PlanInv, Excused

LEMMA StepPlans == TypeOK /\ PlanInv /\ [Next]_vars => PlanInv'
  <1> SUFFICES ASSUME TypeOK, PlanInv, [Next]_vars PROVE PlanInv'
    OBVIOUS
  <1>0. \A d : Excused(d, faults) => Excused(d, faults')
    BY FaultsGrow, StepTyped DEF Excused, TypeOK
  <1>1. ASSUME NEW s \in Sessions, OnStartTransaction(s) PROVE PlanInv'
    <2>0. PICK base \in Registers, user \in BOOLEAN, now \in TimesOfDay,
               plan \in Plans \cup {NoPlan} :
            /\ IF user THEN ChoosePaymentPlan(now, plan)
               ELSE plan = NoPlan /\ UNCHANGED <<cached, faults>>
            /\ docs' = [docs EXCEPT ![s] = NewDoc(user, plan, base)]
      BY <1>1 DEF OnStartTransaction
    <2>2. Excused(NewDoc(user, plan, base), faults')
      <3>1. NewDoc(user, plan, base).user = user /\ NewDoc(user, plan, base).plan = plan
        BY DEF NewDoc
      <3>2. user /\ plan = NoPlan => faults' > 0
        BY <2>0, ChoiceExcused
      <3> QED BY <3>1, <3>2 DEF Excused
    <2>3. \A t \in Sessions : docs'[t] \in {docs[t], NewDoc(user, plan, base)}
      BY <2>0 DEF TypeOK
    <2>4. UNCHANGED <<job, sweep>>
      BY <1>1 DEF OnStartTransaction
    <2> QED BY <1>0, <2>2, <2>3, <2>4 DEF PlanInv
  <1>2. ASSUME UNCHANGED <<docs, job, sweep>> PROVE PlanInv'
    BY <1>0, <1>2 DEF PlanInv
  <1>3. ASSUME NEW s \in Sessions,
               \/ OnMeterValues(s) \/ OnStatusNotification(s) \/ Process(s)
               \/ AddTransactionMeterValue(s) \/ Draw(s) \/ End(s) \/ Contact(s)
        PROVE  PlanInv'
    BY <1>2, <1>3 DEF OnMeterValues, OnStatusNotification, Process, AddTransactionMeterValue,
       Draw, End, Contact, dbVars
  <1>4. CASE Tick \/ EditPlans \/ UNCHANGED vars
    BY <1>2, <1>4 DEF Tick, EditPlans, vars, dbVars
  <1>5. ASSUME NEW s \in Sessions, OnStopTransaction(s) PROVE PlanInv'
    <2>1. job'.doc = Absent /\ UNCHANGED <<docs, sweep>>
      BY <1>5 DEF OnStopTransaction, dbVars
    <2>2. Excused(Absent, faults')
      BY DEF Absent, Excused
    <2> QED BY <1>0, <2>1, <2>2 DEF PlanInv
  <1>6. CASE StopStep
    <2>1. job \in Stopping /\ UNCHANGED sweep /\ job # None
      BY <1>6 DEF StopStep, StopUnreadable, StopRead, StopWrite, StopPurge, StopRelease, TypeOK
    <2>2. job.s \in Sessions /\ job.doc \in Doc /\ job.curve \in SUBSET Meter
      BY <2>1 DEF Stopping
    <2>3. \A s \in Sessions : docs'[s] \in {docs[s], job.doc}
      BY <1>6 DEF StopStep, StopUnreadable, StopRead, StopWrite, StopPurge, StopRelease,
         TypeOK, dbVars
    <2>4. job' # None => Excused(job'.doc, faults)
      <3>1. CASE StopRead
        <4>1. \A begin, end \in Bound : Excused(Stopped(job.s, job.curve, begin, end), faults)
          BY <2>2, StoppedFields DEF PlanInv, Excused
        <4>2. \/ job'.doc = docs[job.s]
              \/ \E begin, end \in Bound : job'.doc = Stopped(job.s, job.curve, begin, end)
          BY <2>1, <3>1, StopReadWrites DEF Stopping
        <4> QED BY <2>2, <4>1, <4>2 DEF PlanInv
      <3>2. CASE StopUnreadable \/ StopWrite \/ StopPurge \/ StopRelease
        <4>1. job' = None \/ job'.doc = job.doc
          BY <2>1, <3>2 DEF StopUnreadable, StopWrite, StopPurge, StopRelease, Stopping
        <4> QED BY <2>1, <4>1 DEF PlanInv
      <3> QED BY <1>6, <3>1, <3>2 DEF StopStep
    <2> QED BY <1>0, <2>1, <2>3, <2>4 DEF PlanInv
  <1>7. ASSUME NEW w \in Sweepers, SweepStep(w) PROVE PlanInv'
    <2>0. UNCHANGED job
      BY <1>7 DEF SweepStep, Query, ReadLast, ReadCurve, SweepWrite, SweepRelease, SweepPurge
    <2>1. ASSUME \A s \in Sessions : Excused(docs'[s], faults),
                 \A v \in Sweepers : v # w => sweep'[v] = sweep[v],
                 sweep'[w] # None =>
                    \A c \in sweep'[w].todo \cup {sweep'[w].c} : Excused(c.doc, faults)
          PROVE  PlanInv'
      BY <1>0, <2>0, <2>1 DEF PlanInv
    <2>2. CASE Query(w)
      <3> DEFINE found == {[s |-> s, doc |-> docs[s]] : s \in GetUnfinishedTransactions}
      <3>1. PICK c \in found :
               sweep' = [sweep EXCEPT ![w] = [pc |-> "next", todo |-> found, c |-> c]]
        BY <2>2 DEF Query
      <3>2. \A k \in found : Excused(k.doc, faults)
        BY DEF GetUnfinishedTransactions, PlanInv
      <3> HIDE DEF found
      <3>3. sweep'[w].todo = found /\ sweep'[w].c = c
        BY <3>1 DEF TypeOK
      <3>4. \A v \in Sweepers : v # w => sweep'[v] = sweep[v]
        BY <3>1 DEF TypeOK
      <3> QED BY <2>1, <2>2, <3>1, <3>2, <3>3, <3>4 DEF Query, dbVars, PlanInv
    <2>3. ASSUME NEW pc, NEW c, GoOn(w, pc, c), sweep[w] # None, Excused(c.doc, faults),
                 \A s \in Sessions : docs'[s] \in {docs[s], sweep[w].c.doc}
          PROVE  PlanInv'
      <3>1. /\ sweep'[w].c = c /\ sweep'[w].todo = sweep[w].todo
            /\ \A v \in Sweepers : v # w => sweep'[v] = sweep[v]
        BY <2>3 DEF GoOn, TypeOK, Sweep
      <3> QED BY <2>1, <2>3, <3>1 DEF PlanInv
    <2>4. ASSUME sweep[w] # None
          PROVE  /\ \A c \in sweep[w].todo \cup {sweep[w].c} :
                       c \in Copy /\ c.doc \in Doc /\ Excused(c.doc, faults)
      BY <2>4 DEF TypeOK, Sweep, Copy, PlanInv
    <2>5. CASE ReadLast(w)
      <3>1. PICK c \in sweep[w].todo :
              \/ \E m \in Latest(samples[c.s]) : GoOn(w, "curve", [c EXCEPT !.doc = StoppedAt(@, m)])
              \/ GoOn(w, "write", [c EXCEPT !.doc = Aborted(@)])
        BY <2>5 DEF ReadLast
      <3>2. c \in Copy /\ c.doc \in Doc /\ Excused(c.doc, faults) /\ sweep[w] # None
        BY <2>4, <2>5 DEF ReadLast, At
      <3>3. \A m : Excused([c EXCEPT !.doc = StoppedAt(@, m)].doc, faults)
        BY <3>2, SameTerms DEF Copy
      <3>4. Excused([c EXCEPT !.doc = Aborted(@)].doc, faults)
        BY <3>2, SameTerms DEF Copy
      <3>5. UNCHANGED docs
        BY <2>5 DEF ReadLast, dbVars
      <3> QED BY <2>3, <3>1, <3>2, <3>3, <3>4, <3>5
    <2>6. CASE ReadCurve(w)
      <3>1. PICK curve \in ReadAllTransactionMeterValues(sweep[w].c.s) :
              GoOn(w, "write", [sweep[w].c EXCEPT !.doc = Bill(WithCurve(@, curve.found))])
        BY <2>6 DEF ReadCurve
      <3>2. sweep[w] # None
        BY <2>6 DEF ReadCurve, At
      <3>3. sweep[w].c \in Copy /\ sweep[w].c.doc \in Doc /\ Excused(sweep[w].c.doc, faults)
        BY <2>4, <3>2
      <3>4. Excused([sweep[w].c EXCEPT !.doc = Bill(WithCurve(@, curve.found))].doc, faults)
        BY <3>3, SameTerms DEF Copy
      <3>5. UNCHANGED docs
        BY <2>6 DEF ReadCurve, dbVars
      <3> QED BY <2>3, <3>1, <3>2, <3>4, <3>5
    <2>7. CASE SweepWrite(w)
      <3>1. sweep[w] # None /\ GoOn(w, "release", sweep[w].c)
        BY <2>7 DEF SweepWrite, At
      <3>2. \A s \in Sessions : docs'[s] \in {docs[s], sweep[w].c.doc}
        BY <2>7 DEF SweepWrite, TypeOK
      <3> QED BY <2>3, <2>4, <3>1, <3>2
    <2>8. CASE SweepRelease(w)
      <3>1. sweep[w] # None /\ GoOn(w, "purge", sweep[w].c) /\ UNCHANGED docs
        BY <2>8 DEF SweepRelease, At, dbVars
      <3> QED BY <2>3, <2>4, <3>1
    <2>9. CASE SweepPurge(w)
      <3> DEFINE left == {d \in sweep[w].todo : d.s # sweep[w].c.s}
                 rest == [pc |-> "next", todo |-> left, c |-> sweep[w].c]
      <3>1. sweep' = [sweep EXCEPT ![w] = IF left = {} THEN None ELSE rest]
        BY <2>9 DEF SweepPurge
      <3>2. UNCHANGED docs /\ sweep[w] # None
        BY <2>9 DEF SweepPurge, At
      <3>3. \A v \in Sweepers : v # w => sweep'[v] = sweep[v]
        BY <3>1 DEF TypeOK
      <3>4. sweep'[w] \in {None, rest}
        BY <3>1 DEF TypeOK
      <3>5. rest.todo \subseteq sweep[w].todo /\ rest.c = sweep[w].c
        OBVIOUS
      <3> HIDE DEF rest, left
      <3> QED BY <2>1, <2>4, <3>2, <3>3, <3>4, <3>5 DEF PlanInv
    <2> QED BY <1>7, <2>2, <2>5, <2>6, <2>7, <2>8, <2>9 DEF SweepStep
  <1>8. CASE Restart
    <2>1. UNCHANGED docs /\ job' = None /\ \A w \in Sweepers : sweep'[w] = None
      BY <1>8 DEF Restart, dbVars
    <2> QED BY <1>0, <2>1 DEF PlanInv
  <1> QED BY <1>1, <1>3, <1>4, <1>5, <1>6, <1>7, <1>8 DEF Next, HandlerStep

\* No session of a named user is without a plan unless a lookup has failed:
\* whatever plans there are, whichever hours they are for and however the
\* back office edits them, and no stop or sweep loses the plan on the way.
THEOREM PlanIsFound == Spec => []SomePlanIsFound
  <1>1. PlanInv => SomePlanIsFound
    BY DEF PlanInv, SomePlanIsFound, Excused
  <1>2. TypeOK /\ PlanInv /\ [Next]_vars => TypeOK' /\ PlanInv'
    BY StepTyped, StepPlans
  <1> QED BY <1>1, <1>2, InitTyped, InitPlans, PTL DEF Spec

-----------------------------------------------------------------------------
(***************************************************************************)
(* Running prices.  Until its charger stops it, all papers of a session,   *)
(* its document, the reading in hand and the copies of sweeps, have the    *)
(* terms the session started with, and every reading shows their price.    *)
(***************************************************************************)
Shows(m, terms) == m.price = OnMeterValue(terms, m.time, m.value)
Alike(d, terms) ==
    d.plan = terms.plan /\ d.timeStart = terms.timeStart /\ d.meterStart = terms.meterStart
Paper(d, terms) == Alike(d, terms) /\ \A m \in d.curve : Shows(m, terms)

\* What OnMeterValues has in hand.
Carries(p, terms) == IF p.pc = "process" THEN Alike(p.doc, terms) ELSE Shows(p.meter, terms)

Copies(w) == IF sweep[w] = None THEN {} ELSE sweep[w].todo \cup {sweep[w].c}

OnTerms(s, terms) ==
    /\ docs[s].reason # ByCharger => Paper(docs[s], terms)
    /\ \A m \in samples[s] : Shows(m, terms)
    /\ pump[s] # None => Carries(pump[s], terms)
    /\ \A w \in Sweepers : \A c \in Copies(w) : c.s = s => Paper(c.doc, terms)

\* Only a charger that has ended its session stops it.
StoppedByCharger(s) ==
    docs[s].reason = ByCharger => docs[s].st # "open" /\ charger[s].st \in {"ended", "done"}

Untouched(s) ==
    charger[s].st = "idle" =>
        /\ docs[s].st = "absent" /\ samples[s] = {} /\ pump[s] = None
        /\ \A w \in Sweepers : \A c \in Copies(w) : c.s # s

StopMarked ==
    job # None => /\ charger[job.s].st = "ended"
                  /\ job.pc = "write" => job.doc.reason = ByCharger /\ job.doc.st = "finished"

SweepMarked(w) ==
    sweep[w] # None /\ sweep[w].pc \in {"curve", "write"} => sweep[w].c.doc.reason # ByCharger

SessionTerms(s) == (\E terms : OnTerms(s, terms)) /\ StoppedByCharger(s) /\ Untouched(s)

TermsInv ==
    /\ \A s \in Sessions : SessionTerms(s)
    /\ StopMarked
    /\ \A w \in Sweepers : SweepMarked(w)

LEMMA InitTerms == Init => TermsInv
  <1> SUFFICES ASSUME Init PROVE TermsInv
    OBVIOUS
  <1>1. job = None /\ \A w \in Sweepers : sweep[w] = None /\ Copies(w) = {}
    BY DEF Init, Copies
  <1>2. ASSUME NEW s \in Sessions
        PROVE  OnTerms(s, Absent) /\ StoppedByCharger(s) /\ Untouched(s)
    <2>1. docs[s] = Absent /\ samples[s] = {} /\ pump[s] = None
      BY DEF Init
    <2>2. Absent.curve = {} /\ Absent.reason # ByCharger /\ Absent.st = "absent"
      BY DEF Absent, ByCharger
    <2> QED BY <1>1, <2>1, <2>2 DEF OnTerms, Paper, Alike, StoppedByCharger, Untouched
  <1> QED BY <1>1, <1>2 DEF TermsInv, SessionTerms, StopMarked, SweepMarked

\* Nothing strange to the terms comes in: the terms hold on.
LEMMA TermsKept ==
    ASSUME NEW s \in Sessions, NEW terms, OnTerms(s, terms),
           docs'[s] = docs[s] \/ docs'[s].reason = ByCharger \/ Paper(docs'[s], terms),
           \A m \in samples'[s] : m \in samples[s] \/ Shows(m, terms),
           pump'[s] \in {pump[s], None} \/ Carries(pump'[s], terms),
           \A w \in Sweepers : \A c \in Copies(w)' :
               c \in Copies(w) \/ (c.s = s => Paper(c.doc, terms))
    PROVE  OnTerms(s, terms)'
  BY DEF OnTerms, Paper, Alike, Shows, OnMeterValue, Carries

\* What the charger does, and what its stop leaves of it.
LEMMA ChargerMarks ==
    ASSUME TypeOK, StopMarked, [Next]_vars, NEW s \in Sessions, charger[s].st # "idle"
    PROVE  /\ charger'[s].st # "idle"
           /\ charger[s].st \in {"ended", "done"} => charger'[s].st \in {"ended", "done"}
           /\ charger[s].st = "ended" => charger'[s].st = "ended" \/ job' = None
  <1> DEFINE Goal == /\ charger'[s].st # "idle"
                     /\ charger[s].st \in {"ended", "done"} => charger'[s].st \in {"ended", "done"}
                     /\ charger[s].st = "ended" => charger'[s].st = "ended" \/ job' = None
  <1>1. ASSUME charger'[s] = charger[s] PROVE Goal
    BY <1>1
  <1>2. CASE Tick \/ EditPlans \/ Restart \/ UNCHANGED vars
    BY <1>1, <1>2 DEF Tick, EditPlans, Restart, vars
  <1>3. ASSUME NEW w \in Sweepers, SweepStep(w) PROVE Goal
    BY <1>1, <1>3 DEF SweepStep, Query, ReadLast, ReadCurve, SweepWrite, SweepRelease, SweepPurge
  <1>4. CASE StopRead \/ StopWrite \/ StopPurge
    BY <1>1, <1>4 DEF StopRead, StopWrite, StopPurge
  <1>5. CASE StopUnreadable \/ StopRelease
    <2>1. charger' = [charger EXCEPT ![job.s].st = "done"] /\ job # None /\ job' = None
      BY <1>5 DEF StopUnreadable, StopRelease
    <2>2. charger'[s].st \in {charger[s].st, "done"}
      BY <2>1 DEF TypeOK, Charger
    <2> QED BY <2>1, <2>2
  <1>6. ASSUME NEW t \in Sessions,
               \/ OnMeterValues(t) \/ OnStatusNotification(t) \/ Process(t)
               \/ AddTransactionMeterValue(t) \/ OnStopTransaction(t)
        PROVE  Goal
    BY <1>1, <1>6 DEF OnMeterValues, OnStatusNotification, Process, AddTransactionMeterValue,
       OnStopTransaction
  <1>7. ASSUME NEW t \in Sessions, OnStartTransaction(t) PROVE Goal
    BY <1>1, <1>7 DEF OnStartTransaction, TypeOK
  <1>8. ASSUME NEW t \in Sessions, NEW st \in {"on", "offline", "back", "gone", "ended"},
               charger[t].st \in {"on", "offline", "back"},
               charger'[t].st = st, t # s => charger'[s] = charger[s]
        PROVE  Goal
    BY <1>1, <1>8
  <1>9. ASSUME NEW t \in Sessions, Draw(t) PROVE Goal
    <2>1. /\ charger[t].st \in {"on", "offline", "back"} /\ charger'[t].st = charger[t].st
          /\ t # s => charger'[s] = charger[s]
      BY <1>9 DEF Draw, TypeOK, Charger
    <2> QED BY <1>8, <2>1
  <1>10. ASSUME NEW t \in Sessions, End(t) PROVE Goal
    <2>1. /\ charger[t].st \in {"on", "offline", "back"} /\ charger'[t].st = "ended"
          /\ t # s => charger'[s] = charger[s]
      BY <1>10 DEF End, InContact, TypeOK, Charger
    <2> QED BY <1>8, <2>1
  <1>11. ASSUME NEW t \in Sessions, Contact(t) PROVE Goal
    <2>1. PICK st \in {"offline", "gone", "back"} : charger' = [charger EXCEPT ![t].st = st]
      BY <1>11 DEF Contact
    <2>2. charger[t].st \in {"on", "offline", "back"}
      BY <1>11 DEF Contact, InContact
    <2>3. charger'[t].st = st /\ (t # s => charger'[s] = charger[s])
      BY <2>1 DEF TypeOK, Charger
    <2> QED BY <1>8, <2>2, <2>3
  <1> QED BY <1>2, <1>3, <1>4, <1>5, <1>6, <1>7, <1>9, <1>10, <1>11
          DEF Next, HandlerStep, StopStep

\* A session that has begun is on its terms after a step that leaves it so.
LEMMA SessionOnTerms ==
    ASSUME TypeOK, StopMarked, [Next]_vars, NEW s \in Sessions, charger[s].st # "idle",
           NEW terms, OnTerms(s, terms)',
           docs'[s].reason = ByCharger =>
              docs'[s].st # "open" /\ charger[s].st \in {"ended", "done"}
    PROVE  SessionTerms(s)'
  <1>1. /\ charger'[s].st # "idle"
        /\ charger[s].st \in {"ended", "done"} => charger'[s].st \in {"ended", "done"}
    BY ChargerMarks
  <1>2. StoppedByCharger(s)' /\ Untouched(s)'
    BY <1>1 DEF StoppedByCharger, Untouched
  <1>3. (\E t : OnTerms(s, t))'
    OBVIOUS
  <1> QED BY <1>2, <1>3 DEF SessionTerms

\* So is one that a step leaves alone, whose readings it deletes or forgets, or
\* whose copies it drops.
LEMMA SessionKept ==
    ASSUME TypeOK, TermsInv, [Next]_vars, NEW s \in Sessions,
           docs'[s] = docs[s], samples'[s] \subseteq samples[s], pump'[s] \in {pump[s], None},
           \A w \in Sweepers : \A c \in Copies(w)' : c.s = s => c \in Copies(w)
    PROVE  SessionTerms(s)'
  <1>1. SessionTerms(s) /\ StopMarked
    BY DEF TermsInv
  <1>2. PICK terms : OnTerms(s, terms)
    BY <1>1 DEF SessionTerms
  <1>3. OnTerms(s, terms)'
    <2>1. \A w \in Sweepers : \A c \in Copies(w)' :
             c \in Copies(w) \/ (c.s = s => Paper(c.doc, terms))
      OBVIOUS
    <2> QED BY <1>2, <2>1, TermsKept
  <1>4. CASE charger[s].st # "idle"
    BY <1>1, <1>3, <1>4, SessionOnTerms DEF SessionTerms, StoppedByCharger
  <1>5. CASE charger[s].st = "idle"
    <2>1. /\ docs'[s].st = "absent" /\ samples'[s] = {} /\ pump'[s] = None
          /\ \A w \in Sweepers : \A c \in Copies(w)' : c.s # s
      BY <1>1, <1>5 DEF SessionTerms, Untouched
    <2>2. docs'[s].reason # ByCharger
      BY <1>1, <1>5 DEF SessionTerms, StoppedByCharger
    <2>3. StoppedByCharger(s)' /\ Untouched(s)'
      BY <2>1, <2>2 DEF StoppedByCharger, Untouched
    <2>4. (\E t : OnTerms(s, t))'
      BY <1>3
    <2> QED BY <2>3, <2>4 DEF SessionTerms
  <1> QED BY <1>4, <1>5

\* A stop that goes on, or begins for a charger that has ended its session.
LEMMA StopKept ==
    ASSUME TypeOK, StopMarked, [Next]_vars,
           \/ job' = None
           \/ /\ job'.s \in Sessions /\ charger[job'.s].st = "ended"
              /\ job'.pc = "write" => job'.doc.reason = ByCharger /\ job'.doc.st = "finished"
    PROVE  StopMarked'
  <1> SUFFICES ASSUME job' # None PROVE StopMarked'
    BY DEF StopMarked
  <1>1. PICK s \in Sessions : s = job'.s
    OBVIOUS
  <1>2. charger[s].st = "ended" /\ charger[s].st # "idle"
    BY <1>1
  <1>3. charger'[s].st = "ended"
    BY <1>2, ChargerMarks
  <1> QED BY <1>1, <1>3 DEF StopMarked

\* A reading shows the price of the document it was worked out from.
LEMMA NewMeterShows ==
    ASSUME NEW r, NEW last, NEW terms, Alike(r.doc, terms)
    PROVE  Shows(NewMeter(r, last), terms)
  BY DEF Shows, NewMeter, OnMeterValue, Alike

\* A sweep changes the end, the bill and the curve of its copy, not its terms.
LEMMA SweptIsPaper ==
    ASSUME NEW d \in Doc, NEW terms, Paper(d, terms)
    PROVE  /\ Paper(Aborted(d), terms) /\ Aborted(d).reason # ByCharger
           /\ \A m : Paper(StoppedAt(d, m), terms) /\ StoppedAt(d, m).reason # ByCharger
           /\ \A S : (\A m \in S : Shows(m, terms)) => Paper(Bill(WithCurve(d, S)), terms)
  <1>1. Paper(Aborted(d), terms) /\ Aborted(d).reason # ByCharger
    BY DEF Paper, Alike, Aborted, Doc, ByCharger, AbortedBySystem
  <1>2. ASSUME NEW m PROVE Paper(StoppedAt(d, m), terms) /\ StoppedAt(d, m).reason # ByCharger
    BY DEF Paper, Alike, StoppedAt, Doc, ByCharger, StoppedBySystem
  <1>3. ASSUME NEW S, \A m \in S : Shows(m, terms)
        PROVE  Paper(Bill(WithCurve(d, S)), terms)
    <2> DEFINE e == WithCurve(d, S)
               p == Price(e.plan, e.timeStop - e.timeStart, e.meterStop - e.meterStart)
    <2>1. e = [d EXCEPT !.curve = IF S # {} THEN S ELSE @]
      BY DEF WithCurve
    <2>2. Bill(e) = [e EXCEPT !.amount = IF e.plan = NoPlan THEN @ ELSE p]
      BY DEF Bill
    <2> HIDE DEF e, p
    <2>3. Alike(e, d) /\ e.curve \in {S, d.curve}
      BY <2>1 DEF Doc, Alike
    <2>4. Alike(Bill(e), e) /\ Bill(e).curve = e.curve
      BY <2>1, <2>2 DEF Doc, Alike
    <2>5. Paper(Bill(e), terms)
      BY <1>3, <2>3, <2>4 DEF Paper, Alike
    <2> QED BY <2>5 DEF e
  <1> QED BY <1>1, <1>2, <1>3

LEMMA BillKeepsReason ==
    ASSUME NEW d \in Doc, NEW S PROVE Bill(WithCurve(d, S)).reason = d.reason
  <1> DEFINE e == WithCurve(d, S)
             p == Price(e.plan, e.timeStop - e.timeStart, e.meterStop - e.meterStart)
  <1>1. e = [d EXCEPT !.curve = IF S # {} THEN S ELSE @]
    BY DEF WithCurve
  <1>2. Bill(e) = [e EXCEPT !.amount = IF e.plan = NoPlan THEN @ ELSE p]
    BY DEF Bill
  <1> HIDE DEF e, p
  <1>3. Bill(e).reason = d.reason
    BY <1>1, <1>2 DEF Doc
  <1> QED BY <1>3 DEF e

\* The handlers and chargers of one session: stops and sweeps stand still.
LEMMA HandlerTerms ==
    ASSUME TypeOK, TermsInv, [Next]_vars, UNCHANGED <<job, sweep>>,
           NEW s \in Sessions, SessionTerms(s)',
           \A t \in Sessions : t # s =>
              docs'[t] = docs[t] /\ samples'[t] = samples[t] /\ pump'[t] = pump[t]
    PROVE  TermsInv'
  <1>1. \A w \in Sweepers : Copies(w)' = Copies(w)
    BY DEF Copies
  <1>2. \A t \in Sessions : SessionTerms(t)'
    <2> SUFFICES ASSUME NEW t \in Sessions, t # s PROVE SessionTerms(t)'
      OBVIOUS
    <2> QED BY <1>1, SessionKept
  <1>3. StopMarked'
    <2>1. StopMarked
      BY DEF TermsInv
    <2>2. job # None => job \in Stopping /\ job.s \in Sessions
      BY DEF TypeOK, Stopping
    <2> QED BY <2>1, <2>2, StopKept DEF StopMarked
  <1>4. \A w \in Sweepers : SweepMarked(w)'
    BY DEF TermsInv, SweepMarked
  <1> QED BY <1>2, <1>3, <1>4 DEF TermsInv

LEMMA StepTerms == TypeOK /\ TermsInv /\ [Next]_vars => TermsInv'
  <1> SUFFICES ASSUME TypeOK, TermsInv, [Next]_vars PROVE TermsInv'
    OBVIOUS
  <1>0. /\ TypeOK' /\ StopMarked
        /\ \A s \in Sessions : SessionTerms(s) /\ StoppedByCharger(s) /\ Untouched(s)
    BY StepTyped DEF TermsInv, SessionTerms
  <1>1. ASSUME NEW s \in Sessions, OnStartTransaction(s) PROVE TermsInv'
    <2>1. PICK user, plan, base : docs' = [docs EXCEPT ![s] = NewDoc(user, plan, base)]
      BY <1>1 DEF OnStartTransaction
    <2>0. PICK d : d = NewDoc(user, plan, base)
      OBVIOUS
    <2>2. d.curve = {} /\ d.reason # ByCharger /\ d.st = "open"
      BY <2>0 DEF NewDoc, ByCharger
    <2>3. /\ charger[s].st = "idle" /\ charger'[s].st = "on"
          /\ UNCHANGED <<samples, pump, job, sweep>>
      BY <1>1 DEF OnStartTransaction, TypeOK
    <2>4. /\ samples'[s] = {} /\ pump'[s] = None
          /\ \A w \in Sweepers : \A c \in Copies(w)' : c.s # s
      BY <1>0, <2>3 DEF Untouched, Copies
    <2>5. docs'[s] = d /\ \A t \in Sessions : t # s => docs'[t] = docs[t]
      BY <2>0, <2>1 DEF TypeOK
    <2>6. OnTerms(s, d)'
      BY <2>2, <2>4, <2>5 DEF OnTerms, Paper, Alike
    <2>7. StoppedByCharger(s)' /\ Untouched(s)'
      BY <2>2, <2>3, <2>5 DEF StoppedByCharger, Untouched
    <2>8. (\E t : OnTerms(s, t))'
      BY <2>6
    <2>9. SessionTerms(s)'
      BY <2>7, <2>8 DEF SessionTerms
    <2> QED BY <2>3, <2>5, <2>9, HandlerTerms
  <1>2. ASSUME NEW s \in Sessions, OnMeterValues(s) PROVE TermsInv'
    <2>1. PICK power \in Powers :
            pump' = [pump EXCEPT ![s] = [pc |-> "process", doc |-> docs[s], time |-> clock,
                                         value |-> Register(s), power |-> power]]
      BY <1>2 DEF OnMeterValues
    <2>2. UNCHANGED <<docs, samples, job, sweep>> /\ charger[s].st \in {"on", "back"}
      BY <1>2 DEF OnMeterValues, InContact, dbVars
    <2>3. /\ pump'[s].pc = "process" /\ pump'[s].doc = docs[s]
          /\ \A t \in Sessions : t # s => pump'[t] = pump[t]
      BY <2>1 DEF TypeOK
    <2>4. docs[s].reason # ByCharger
      BY <1>0, <2>2 DEF StoppedByCharger
    <2>5. PICK terms : OnTerms(s, terms)
      BY <1>0 DEF SessionTerms
    <2>6. Carries(pump'[s], terms)
      BY <2>3, <2>4, <2>5 DEF Carries, OnTerms, Paper
    <2>7. OnTerms(s, terms)'
      BY <2>2, <2>5, <2>6, TermsKept DEF Copies
    <2>8. SessionTerms(s)'
      BY <1>0, <2>2, <2>4, <2>7, SessionOnTerms
    <2> QED BY <2>2, <2>3, <2>8, HandlerTerms
  <1>3. ASSUME NEW s \in Sessions, Process(s) PROVE TermsInv'
    <2>1. /\ pump[s] # None /\ pump[s].pc = "process" /\ UNCHANGED <<docs, samples, job, sweep>>
          /\ \A t \in Sessions : t # s => pump'[t] = pump[t]
      BY <1>3 DEF Process, dbVars, TypeOK
    <2>2. PICK terms : OnTerms(s, terms)
      BY <1>0 DEF SessionTerms
    <2> DEFINE m == NewMeter(pump[s], lastMeter[s])
    <2>3. Shows(m, terms)
      <3>1. Alike(pump[s].doc, terms)
        BY <2>1, <2>2 DEF OnTerms, Carries
      <3> QED BY <3>1, NewMeterShows
    <2> HIDE DEF m
    <2>4. pump'[s] = None \/ pump'[s] = [pc |-> "store", meter |-> m]
      <3>1. \/ pump' = [pump EXCEPT ![s] = [pc |-> "store", meter |-> m]]
            \/ pump' = [pump EXCEPT ![s] = None]
        BY <1>3 DEF Process, m
      <3> QED BY <3>1 DEF TypeOK
    <2>5. pump'[s] = None \/ Carries(pump'[s], terms)
      BY <2>3, <2>4 DEF Carries
    <2>6. OnTerms(s, terms)'
      BY <2>1, <2>2, <2>5, TermsKept DEF Copies
    <2>7. charger[s].st # "idle"
      BY <1>0, <2>1 DEF Untouched
    <2>8. SessionTerms(s)'
      BY <1>0, <2>1, <2>6, <2>7, SessionOnTerms DEF StoppedByCharger
    <2> QED BY <2>1, <2>8, HandlerTerms
  <1>4. ASSUME NEW s \in Sessions, AddTransactionMeterValue(s) PROVE TermsInv'
    <2>1. /\ pump[s] # None /\ pump[s].pc = "store" /\ UNCHANGED <<docs, job, sweep>>
          /\ pump'[s] = None
          /\ \A t \in Sessions : t # s => pump'[t] = pump[t] /\ samples'[t] = samples[t]
      BY <1>4 DEF AddTransactionMeterValue, TypeOK
    <2>2. PICK terms : OnTerms(s, terms)
      BY <1>0 DEF SessionTerms
    <2>3. Shows(pump[s].meter, terms)
      BY <2>1, <2>2 DEF OnTerms, Carries
    <2>4. \A m \in samples'[s] : m \in samples[s] \/ m = pump[s].meter
      BY <1>4 DEF AddTransactionMeterValue, TypeOK
    <2>5. OnTerms(s, terms)'
      BY <2>1, <2>2, <2>3, <2>4, TermsKept DEF Copies
    <2>6. charger[s].st # "idle"
      BY <1>0, <2>1 DEF Untouched
    <2>7. SessionTerms(s)'
      BY <1>0, <2>1, <2>5, <2>6, SessionOnTerms DEF StoppedByCharger
    <2> QED BY <2>1, <2>7, HandlerTerms
  <1>5. ASSUME UNCHANGED <<docs, samples, pump, sweep>>, StopMarked' PROVE TermsInv'
    <2>1. \A w \in Sweepers : Copies(w)' = Copies(w)
      BY <1>5 DEF Copies
    <2>2. \A t \in Sessions : SessionTerms(t)'
      BY <1>5, <2>1, SessionKept
    <2>3. \A w \in Sweepers : SweepMarked(w)'
      BY <1>5 DEF TermsInv, SweepMarked
    <2> QED BY <1>5, <2>2, <2>3 DEF TermsInv
  <1>6. ASSUME UNCHANGED job PROVE StopMarked'
    <2>1. job # None => job \in Stopping /\ job.s \in Sessions
      BY DEF TypeOK, Stopping
    <2> QED BY <1>0, <1>6, <2>1, StopKept DEF StopMarked
  <1>7. ASSUME NEW s \in Sessions, OnStatusNotification(s) \/ Draw(s) \/ End(s) \/ Contact(s)
        PROVE  TermsInv'
    <2>1. UNCHANGED <<docs, samples, pump, job, sweep>>
      BY <1>7 DEF OnStatusNotification, Draw, End, Contact, dbVars
    <2> QED BY <1>5, <1>6, <2>1
  <1>8. CASE Tick \/ EditPlans \/ UNCHANGED vars
    <2>1. UNCHANGED <<docs, samples, pump, job, sweep>>
      BY <1>8 DEF Tick, EditPlans, vars, dbVars
    <2> QED BY <1>5, <1>6, <2>1
  <1>9. ASSUME NEW s \in Sessions, OnStopTransaction(s) PROVE TermsInv'
    <2>1. /\ job'.s = s /\ job'.pc = "read" /\ charger[s].st = "ended"
          /\ UNCHANGED <<docs, samples, pump, sweep>>
      BY <1>9 DEF OnStopTransaction, dbVars
    <2> QED BY <1>0, <1>5, <2>1, StopKept
  <1>10. CASE StopStep
    <2>1. job # None /\ job \in Stopping /\ UNCHANGED <<pump, sweep>>
      BY <1>10 DEF StopStep, StopUnreadable, StopRead, StopWrite, StopPurge, StopRelease, TypeOK
    <2>2. job.s \in Sessions /\ job.curve \in SUBSET Meter /\ charger[job.s].st = "ended"
      BY <1>0, <2>1 DEF Stopping, StopMarked
    <2>3. \A w \in Sweepers : Copies(w)' = Copies(w) /\ SweepMarked(w)'
      BY <2>1 DEF Copies, TermsInv, SweepMarked
    <2>4. CASE StopRead
      <3>1. UNCHANGED <<docs, samples>>
        BY <2>4 DEF StopRead, dbVars
      <3>2. \A begin, end \in Bound :
                /\ Stopped(job.s, job.curve, begin, end).reason = ByCharger
                /\ Stopped(job.s, job.curve, begin, end).st = "finished"
        BY <2>2, StoppedFields
      <3>3. /\ job'.s = job.s
            /\ \/ job'.pc = "release"
               \/ \E begin, end \in Bound : job'.doc = Stopped(job.s, job.curve, begin, end)
        BY <2>1, <2>4, StopReadWrites DEF Stopping
      <3>4. StopMarked'
        BY <1>0, <2>2, <3>2, <3>3, StopKept
      <3> QED BY <1>5, <2>1, <3>1, <3>4
    <2>5. CASE StopWrite
      <3>1. /\ job'.s = job.s /\ job'.pc # "write" /\ job.pc = "write" /\ UNCHANGED samples
        BY <2>1, <2>5 DEF StopWrite, Stopping
      <3>2. StopMarked'
        BY <1>0, <2>2, <3>1, StopKept
      <3>3. job.doc.reason = ByCharger /\ job.doc.st = "finished"
        BY <1>0, <2>1, <3>1 DEF StopMarked
      <3>4. PICK s \in Sessions : s = job.s
        BY <2>2
      <3>5. docs'[s] \in {docs[s], job.doc} /\ \A t \in Sessions : t # s => docs'[t] = docs[t]
        BY <2>5, <3>4 DEF StopWrite, TypeOK
      <3>6. PICK terms : OnTerms(s, terms)
        BY <1>0 DEF SessionTerms
      <3>7. OnTerms(s, terms)'
        BY <2>1, <2>3, <3>1, <3>3, <3>5, <3>6, TermsKept
      <3>8. SessionTerms(s)'
        BY <1>0, <2>2, <3>3, <3>4, <3>5, <3>7, SessionOnTerms DEF StoppedByCharger
      <3>9. \A t \in Sessions : SessionTerms(t)'
        BY <2>1, <2>3, <3>1, <3>5, <3>8, SessionKept
      <3> QED BY <2>3, <3>2, <3>9 DEF TermsInv
    <2>6. CASE StopPurge
      <3>1. job'.s = job.s /\ job'.pc # "write" /\ UNCHANGED docs
        BY <2>1, <2>6 DEF StopPurge, Stopping
      <3>2. \A t \in Sessions : samples'[t] \subseteq samples[t]
        BY <2>6 DEF StopPurge, TypeOK
      <3>3. StopMarked'
        BY <1>0, <2>2, <3>1, StopKept
      <3>4. \A t \in Sessions : SessionTerms(t)'
        BY <2>1, <2>3, <3>1, <3>2, SessionKept
      <3> QED BY <2>3, <3>3, <3>4 DEF TermsInv
    <2>7. CASE StopUnreadable \/ StopRelease
      <3>1. job' = None /\ UNCHANGED <<docs, samples>>
        BY <2>7 DEF StopUnreadable, StopRelease, dbVars
      <3> QED BY <1>5, <2>1, <3>1 DEF StopMarked
    <2> QED BY <1>10, <2>4, <2>5, <2>6, <2>7 DEF StopStep
  <1>11. ASSUME NEW w \in Sweepers, SweepStep(w) PROVE TermsInv'
    <2>0. UNCHANGED <<job, pump>>
      BY <1>11 DEF SweepStep, Query, ReadLast, ReadCurve, SweepWrite, SweepRelease, SweepPurge
    <2>1. ASSUME \A s \in Sessions : SessionTerms(s)',
                 \A v \in Sweepers : v # w => sweep'[v] = sweep[v],
                 SweepMarked(w)'
          PROVE  TermsInv'
      <3>1. \A v \in Sweepers : v # w => SweepMarked(v)'
        BY <2>1 DEF TermsInv, SweepMarked
      <3> QED BY <1>6, <2>0, <2>1, <3>1 DEF TermsInv
    <2>2. ASSUME sweep[w] # None
          PROVE  /\ \A c \in Copies(w) : c \in Copy /\ c.s \in Sessions /\ c.doc \in Doc
                                         /\ charger[c.s].st # "idle"
                 /\ Copies(w) = sweep[w].todo \cup {sweep[w].c}
      <3>1. Copies(w) = sweep[w].todo \cup {sweep[w].c}
        BY <2>2 DEF Copies
      <3>2. \A c \in Copies(w) : c \in Copy /\ c.s \in Sessions /\ c.doc \in Doc
        BY <2>2, <3>1 DEF TypeOK, Sweep, Copy
      <3> QED BY <1>0, <3>1, <3>2 DEF Untouched
    <2>3. ASSUME NEW pc, NEW k \in Copy, GoOn(w, pc, k), sweep[w] # None, UNCHANGED <<docs, samples>>,
                 charger[k.s].st # "idle",
                 \A terms : OnTerms(k.s, terms) => Paper(k.doc, terms),
                 pc \in {"curve", "write"} => k.doc.reason # ByCharger
          PROVE  TermsInv'
      <3>1. /\ sweep'[w].c = k /\ sweep'[w].todo = sweep[w].todo /\ sweep'[w].pc = pc
            /\ \A v \in Sweepers : v # w => sweep'[v] = sweep[v]
        BY <2>3 DEF GoOn, TypeOK, Sweep
      <3>2. \A v \in Sweepers : \A c \in Copies(v)' : c \in Copies(v) \/ c = k
        BY <2>3, <3>1 DEF Copies
      <3>3. ASSUME NEW s \in Sessions PROVE SessionTerms(s)'
        <4>1. CASE s = k.s
          <5>1. PICK terms : OnTerms(s, terms)
            BY <1>0 DEF SessionTerms
          <5>2. OnTerms(s, terms)'
            BY <2>0, <2>3, <3>2, <4>1, <5>1, TermsKept
          <5> QED BY <1>0, <2>3, <4>1, <5>2, SessionOnTerms DEF StoppedByCharger
        <4>2. CASE s # k.s
          BY <2>0, <2>3, <3>2, <4>2, SessionKept
        <4> QED BY <4>1, <4>2
      <3>4. SweepMarked(w)'
        BY <2>3, <3>1 DEF SweepMarked
      <3> QED BY <2>1, <3>1, <3>3, <3>4
    <2>4. ASSUME sweep[w] # None, NEW c \in Copies(w), NEW terms, OnTerms(c.s, terms)
          PROVE  Paper(c.doc, terms)
      BY <2>4 DEF OnTerms
    <2>5. CASE Query(w)
      <3> DEFINE found == {[s |-> s, doc |-> docs[s]] : s \in GetUnfinishedTransactions}
      <3>1. PICK k \in found :
               sweep' = [sweep EXCEPT ![w] = [pc |-> "next", todo |-> found, c |-> k]]
        BY <2>5 DEF Query
      <3>2. UNCHANGED <<docs, samples>>
        BY <2>5 DEF Query, dbVars
      <3>3. \A c \in found : c.s \in Sessions /\ c.doc = docs[c.s] /\ docs[c.s].st = "open"
        BY DEF GetUnfinishedTransactions, Open
      <3> HIDE DEF found
      <3>4. /\ sweep'[w].todo = found /\ sweep'[w].c = k /\ sweep'[w].pc = "next"
            /\ \A v \in Sweepers : v # w => sweep'[v] = sweep[v]
        BY <3>1 DEF TypeOK
      <3>5. \A v \in Sweepers : \A c \in Copies(v)' : c \in Copies(v) \/ c \in found
        BY <3>1, <3>4 DEF Copies
      <3>6. ASSUME NEW s \in Sessions PROVE SessionTerms(s)'
        <4>1. CASE docs[s].st = "open"
          <5>1. docs[s].reason # ByCharger /\ charger[s].st # "idle"
            BY <1>0, <4>1 DEF StoppedByCharger, Untouched
          <5>2. PICK terms : OnTerms(s, terms)
            BY <1>0 DEF SessionTerms
          <5>3. Paper(docs[s], terms)
            BY <5>1, <5>2 DEF OnTerms
          <5>4. OnTerms(s, terms)'
            BY <2>0, <3>2, <3>3, <3>5, <5>2, <5>3, TermsKept
          <5> QED BY <1>0, <3>2, <5>1, <5>4, SessionOnTerms
        <4>2. CASE docs[s].st # "open"
          BY <2>0, <3>2, <3>3, <3>5, <4>2, SessionKept
        <4> QED BY <4>1, <4>2
      <3>7. SweepMarked(w)'
        BY <3>4 DEF SweepMarked
      <3> QED BY <2>1, <3>4, <3>6, <3>7
    <2>6. CASE ReadLast(w)
      <3>1. PICK c \in sweep[w].todo :
              \/ \E m \in Latest(samples[c.s]) : GoOn(w, "curve", [c EXCEPT !.doc = StoppedAt(@, m)])
              \/ GoOn(w, "write", [c EXCEPT !.doc = Aborted(@)])
        BY <2>6 DEF ReadLast
      <3>2. sweep[w] # None /\ UNCHANGED <<docs, samples>>
        BY <2>6 DEF ReadLast, At, dbVars
      <3>3. c \in Copies(w) /\ c \in Copy /\ c.s \in Sessions /\ c.doc \in Doc
            /\ charger[c.s].st # "idle"
        BY <2>2, <3>1, <3>2
      <3>4. CASE GoOn(w, "write", [c EXCEPT !.doc = Aborted(@)])
        <4> DEFINE k == [c EXCEPT !.doc = Aborted(@)]
        <4>1. k.s = c.s /\ k.doc = Aborted(c.doc) /\ k \in Copy
          BY <3>3, SweptIsDoc DEF Copy
        <4>2. GoOn(w, "write", k)
          BY <3>4
        <4> HIDE DEF k
        <4>3. \A terms : OnTerms(k.s, terms) => Paper(k.doc, terms)
          BY <2>4, <3>2, <3>3, <4>1, SweptIsPaper
        <4>4. k.doc.reason # ByCharger
          BY <3>3, <4>1 DEF Aborted, Doc, AbortedBySystem, ByCharger
        <4> QED BY <2>3, <3>2, <3>3, <4>1, <4>2, <4>3, <4>4
      <3>5. ASSUME NEW m \in Latest(samples[c.s]), GoOn(w, "curve", [c EXCEPT !.doc = StoppedAt(@, m)])
            PROVE  TermsInv'
        <4> DEFINE k == [c EXCEPT !.doc = StoppedAt(@, m)]
        <4>0. m \in Meter
          BY <3>3 DEF Latest, TypeOK
        <4>1. k.s = c.s /\ k.doc = StoppedAt(c.doc, m) /\ k \in Copy
          BY <3>3, <4>0, SweptIsDoc DEF Copy
        <4>2. GoOn(w, "curve", k)
          BY <3>5
        <4> HIDE DEF k
        <4>3. \A terms : OnTerms(k.s, terms) => Paper(k.doc, terms)
          BY <2>4, <3>2, <3>3, <4>1, SweptIsPaper
        <4>4. k.doc.reason # ByCharger
          BY <3>3, <4>1 DEF StoppedAt, Doc, StoppedBySystem, ByCharger
        <4> QED BY <2>3, <3>2, <3>3, <4>1, <4>2, <4>3, <4>4
      <3> QED BY <3>1, <3>4, <3>5
    <2>7. CASE ReadCurve(w)
      <3> DEFINE c == sweep[w].c
      <3>1. PICK curve \in ReadAllTransactionMeterValues(c.s) :
              GoOn(w, "write", [c EXCEPT !.doc = Bill(WithCurve(@, curve.found))])
        BY <2>7 DEF ReadCurve
      <3>2. sweep[w] # None /\ sweep[w].pc = "curve" /\ UNCHANGED <<docs, samples>>
        BY <2>7 DEF ReadCurve, At, dbVars
      <3>3. /\ c \in Copies(w) /\ c \in Copy /\ c.s \in Sessions /\ c.doc \in Doc
            /\ charger[c.s].st # "idle" /\ c.doc.reason # ByCharger
        BY <2>2, <3>2 DEF TermsInv, SweepMarked
      <3> HIDE DEF c
      <3>4. curve.found \in SUBSET samples[c.s] /\ curve.found \in SUBSET Meter
        BY <3>3 DEF ReadAllTransactionMeterValues, TypeOK
      <3> DEFINE d == Bill(WithCurve(c.doc, curve.found))
                 k == [c EXCEPT !.doc = d]
      <3>5. GoOn(w, "write", k)
        BY <3>1, <3>3 DEF Copy
      <3>6. d \in Doc /\ d.reason # ByCharger
        BY <3>3, <3>4, SweptIsDoc, BillIsDoc, BillKeepsReason
      <3>7. \A terms : OnTerms(c.s, terms) => Paper(d, terms)
        <4> SUFFICES ASSUME NEW terms, OnTerms(c.s, terms) PROVE Paper(d, terms)
          OBVIOUS
        <4>1. Paper(c.doc, terms) /\ \A m \in curve.found : Shows(m, terms)
          BY <2>4, <3>2, <3>3, <3>4 DEF OnTerms
        <4> QED BY <3>3, <4>1, SweptIsPaper
      <3> HIDE DEF d
      <3>8. k.s = c.s /\ k.doc = d /\ k \in Copy
        BY <3>3, <3>6 DEF Copy
      <3> HIDE DEF k
      <3> QED BY <2>3, <3>2, <3>3, <3>5, <3>6, <3>7, <3>8
    <2>8. CASE SweepWrite(w)
      <3>1. /\ sweep[w] # None /\ sweep[w].pc = "write" /\ GoOn(w, "release", sweep[w].c)
            /\ UNCHANGED samples
        BY <2>8 DEF SweepWrite, At
      <3> DEFINE c == sweep[w].c
      <3>2. /\ c \in Copies(w) /\ c.s \in Sessions /\ charger[c.s].st # "idle"
            /\ c.doc.reason # ByCharger
        BY <2>2, <3>1 DEF TermsInv, SweepMarked
      <3>3. /\ sweep'[w].c = c /\ sweep'[w].todo = sweep[w].todo /\ sweep'[w].pc = "release"
            /\ \A v \in Sweepers : v # w => sweep'[v] = sweep[v]
        BY <3>1 DEF GoOn, TypeOK, Sweep
      <3>4. docs' = [docs EXCEPT ![c.s] = c.doc] \/ UNCHANGED docs
        BY <2>8 DEF SweepWrite
      <3> HIDE DEF c
      <3>5. PICK s \in Sessions : s = c.s
        BY <3>2
      <3>6. docs'[s] \in {docs[s], c.doc} /\ \A t \in Sessions : t # s => docs'[t] = docs[t]
        BY <3>4, <3>5 DEF TypeOK
      <3>7. \A v \in Sweepers : \A k \in Copies(v)' : k \in Copies(v)
        BY <3>1, <3>3 DEF Copies, c
      <3>8. SessionTerms(s)'
        <4>1. PICK terms : OnTerms(s, terms)
          BY <1>0 DEF SessionTerms
        <4>2. Paper(c.doc, terms)
          BY <2>4, <3>1, <3>2, <3>5, <4>1
        <4>3. OnTerms(s, terms)'
          BY <2>0, <3>1, <3>6, <3>7, <4>1, <4>2, TermsKept
        <4> QED BY <1>0, <3>2, <3>5, <3>6, <4>3, SessionOnTerms DEF StoppedByCharger
      <3>9. \A t \in Sessions : SessionTerms(t)'
        BY <2>0, <3>1, <3>6, <3>7, <3>8, SessionKept
      <3>10. SweepMarked(w)'
        BY <3>3 DEF SweepMarked
      <3> QED BY <2>1, <3>3, <3>9, <3>10
    <2>9. CASE SweepRelease(w)
      <3>1. sweep[w] # None /\ GoOn(w, "purge", sweep[w].c) /\ UNCHANGED <<docs, samples>>
        BY <2>9 DEF SweepRelease, At, dbVars
      <3>2. sweep[w].c \in Copies(w) /\ sweep[w].c \in Copy /\ charger[sweep[w].c.s].st # "idle"
        BY <2>2, <3>1
      <3>3. \A terms : OnTerms(sweep[w].c.s, terms) => Paper(sweep[w].c.doc, terms)
        BY <2>4, <3>1, <3>2
      <3> QED BY <2>3, <3>1, <3>2, <3>3
    <2>10. CASE SweepPurge(w)
      <3> DEFINE left == {d \in sweep[w].todo : d.s # sweep[w].c.s}
                 rest == [pc |-> "next", todo |-> left, c |-> sweep[w].c]
      <3>1. sweep' = [sweep EXCEPT ![w] = IF left = {} THEN None ELSE rest]
        BY <2>10 DEF SweepPurge
      <3>2. UNCHANGED docs /\ sweep[w] # None
        BY <2>10 DEF SweepPurge, At
      <3>3. \A v \in Sweepers : v # w => sweep'[v] = sweep[v]
        BY <3>1 DEF TypeOK
      <3>4. sweep'[w] \in {None, rest}
        BY <3>1 DEF TypeOK
      <3>5. rest.todo \subseteq sweep[w].todo /\ rest.c = sweep[w].c /\ rest.pc = "next"
        OBVIOUS
      <3> HIDE DEF rest, left
      <3>6. SweepMarked(w)'
        BY <3>4, <3>5 DEF SweepMarked
      <3>7. \A v \in Sweepers : \A k \in Copies(v)' : k \in Copies(v)
        BY <3>2, <3>3, <3>4, <3>5 DEF Copies
      <3>8. \A t \in Sessions : samples'[t] \subseteq samples[t]
        BY <2>10 DEF SweepPurge, TypeOK
      <3>9. \A t \in Sessions : SessionTerms(t)'
        BY <2>0, <3>2, <3>7, <3>8, SessionKept
      <3> QED BY <2>1, <3>3, <3>6, <3>9
    <2> QED BY <1>11, <2>5, <2>6, <2>7, <2>8, <2>9, <2>10 DEF SweepStep
  <1>12. CASE Restart
    <2>1. /\ UNCHANGED <<docs, samples>> /\ job' = None
          /\ \A s \in Sessions : pump'[s] = None
          /\ \A w \in Sweepers : sweep'[w] = None
      BY <1>12 DEF Restart, dbVars
    <2>2. StopMarked' /\ \A w \in Sweepers : SweepMarked(w)' /\ Copies(w)' = {}
      BY <2>1 DEF StopMarked, SweepMarked, Copies
    <2>3. \A t \in Sessions : SessionTerms(t)'
      BY <2>1, <2>2, SessionKept
    <2> QED BY <2>2, <2>3 DEF TermsInv
  <1> QED BY <1>1, <1>2, <1>3, <1>4, <1>7, <1>8, <1>9, <1>10, <1>11, <1>12
          DEF Next, HandlerStep

\* The driver of a session that the system closes pays what the last reading
\* showed, whichever plans, readings, sweeps, stops and restarts overtake each
\* other: until the charger itself stops a session no handler changes the terms
\* of its document or of any copy of it.
THEOREM ShownIsPaid == Spec => []ShownIsBilled
  <1>1. TypeOK /\ Books /\ TermsInv => ShownIsBilled
    <2> SUFFICES ASSUME Books, TermsInv,
                        NEW s \in Sessions, Finished(s), docs[s].reason = StoppedBySystem,
                        NEW m \in docs[s].curve,
                        m.time = docs[s].timeStop, m.value = docs[s].meterStop
                 PROVE  m.price = docs[s].amount
      BY DEF ShownIsBilled
    <2>1. PICK terms : OnTerms(s, terms)
      BY DEF TermsInv, SessionTerms
    <2>2. docs[s].reason # ByCharger
      BY DEF ByCharger, StoppedBySystem
    <2>3. Alike(docs[s], terms) /\ Shows(m, terms)
      BY <2>1, <2>2 DEF OnTerms, Paper
    <2>4. Agrees(docs[s])
      BY DEF Books, Consistent, Finished
    <2> QED BY <2>3, <2>4 DEF Alike, Shows, OnMeterValue, Agrees
  <1>2. TypeOK /\ Books /\ TermsInv /\ [Next]_vars => TypeOK' /\ Books' /\ TermsInv'
    BY StepTyped, StepBooks, StepTerms
  <1> QED BY <1>1, <1>2, InitTyped, InitBooks, InitTerms, PTL DEF Spec
=============================================================================
