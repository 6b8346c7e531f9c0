------------------------------ MODULE Billing ------------------------------
(***************************************************************************)
(* What a charging session costs: the payment plan chosen when it starts,  *)
(* the meter values recorded on the way with their running price and power *)
(* rate, and the figures it is finished with                               *)
(* (billing/affleck.go, entity/payment_plan.go, and OnMeterValues,         *)
(* OnStopTransaction and finishAbandonedTransaction of                     *)
(* server/system_handler.go).                                              *)
(*                                                                         *)
(* OnMeterValues takes no lock, a sweep takes h.mux only to release the    *)
(* connector, and the start and the stop hold it throughout; so readings,  *)
(* sweeps and stops of one session interleave at their database calls.     *)
(* Each session has a connector of its own.  How sessions follow each      *)
(* other on a connector is in Transactions, polling in MeterPolling.       *)
(*                                                                         *)
(* Time is coarse: a tick is billed as TickSeconds, no handler runs as     *)
(* long as one, and a charger reports in every tick until it is first out  *)
(* of contact.  Energy is drawn in steps of StepWh.  A MeterValues request *)
(* carries one energy reading: of the other measurands only the active     *)
(* power changes a figure that is stored here.  The read pump of a charger *)
(* handles its requests one after the other; that a reading left over in   *)
(* the pump of a lost connection overlaps a stop on the next one is left   *)
(* out.                                                                    *)
(***************************************************************************)
EXTENDS Integers, FiniteSets

CONSTANTS
    Sessions,       \* transactions, each on a connector of its own
    Sweepers,       \* goroutines that may run checkAndFinishTransactions
    Plans,          \* payment plans, as documents of the collection
    NoPlan,
    InitialPlans,   \* what the payment_plans collection may hold at first
    None,           \* no reading, no handler
    TimesOfDay,     \* minutes of the day at which a session may start
    Registers,      \* what the register shows when a session starts, in Wh
    Powers,         \* what a charger reports as active power, in W; 0: nothing
    OtherValues,    \* sampled values of other measurands in transactionData
    TickSeconds,
    StepWh,
    MaxSteps,       \* bound: steps of energy a session draws
    LastStart,      \* bound: the tick after which no session starts
    LastReport,     \* bound: the last tick of a charger that stays in contact
    LastTick,       \* bound: when time ends
    StaleTicks,     \* transactionStaleAfter, in ticks without a report
    GraceTicks,     \* transactionReleaseGrace, likewise
    FaultKinds,     \* the database calls that may fail in this instance
    MaxFaults,      \* bound: how many of them fail
    MaxEdits,       \* bound: changes of the default plan by the back office
    MaxDeaths       \* bound: how often the process dies

Midnight == 24 * 60
Unset == -1     \* a start_time or end_time that is empty
Plan == [kwh : Nat, hour : Nat,
         start : 0..(Midnight - 1) \cup {Unset}, end : 0..(Midnight - 1) \cup {Unset}]

ASSUME BillingAssumption ==
    /\ Plans \subseteq Plan /\ NoPlan \notin Plans
    /\ InitialPlans \subseteq [user : Plans \cup {NoPlan}, default : Plans]
    /\ TimesOfDay \subseteq 0..(Midnight - 1) /\ TimesOfDay # {}
    /\ Registers \subseteq Nat /\ Powers \subseteq Nat /\ OtherValues \subseteq Nat
    /\ TickSeconds \in Nat \ {0} /\ StepWh \in Nat
    /\ MaxSteps \in Nat /\ LastStart \in Nat /\ LastReport \in Nat
    /\ LastTick \in Nat /\ LastReport + StaleTicks <= LastTick
    /\ GraceTicks \in Nat \ {0} /\ StaleTicks \in Nat /\ GraceTicks <= StaleTicks
    /\ MaxFaults \in Nat /\ MaxEdits \in Nat /\ MaxDeaths \in Nat

VARIABLES
    clock,      \* ticks
    plans,      \* the payment_plans collection: the user's plan, the default
    cached,     \* Affleck.defaultPlan
    docs,       \* the transactions collection
    samples,    \* the meter_values collection, by transaction
    held,       \* connector.CurrentTransactionId is this session
    lastMeter,  \* SystemHandler.lastMeter
    gauge,      \* the power rate gauge of the session's connector
    pump,       \* OnMeterValues in the read pump of the session's charger
    job,        \* the OnStopTransaction that holds h.mux
    sweep,      \* the goroutines in finishAbandonedTransaction
    charger,    \* the session as its charger sees it
    faults, edits, deaths

dbVars == <<plans, docs, samples>>
memVars == <<cached, held, lastMeter, gauge>>
bounds == <<faults, edits, deaths>>
vars == <<clock, dbVars, memVars, pump, job, sweep, charger, bounds>>

(***************************************************************************)
(* Records.                                                                *)
(***************************************************************************)
Ticks == 0..LastTick
Wh == Nat

ByCharger == "by charger"
StoppedBySystem == "stopped by system"
AbortedBySystem == "aborted by system"

Meter == [time : Ticks, value : Wh, rate : Nat, energy : Wh, price : Nat]

Doc == [st : {"absent", "open", "finished"}, user : BOOLEAN, plan : Plans \cup {NoPlan},
        timeStart : Ticks, meterStart : Wh, timeStop : Ticks, meterStop : Wh,
        amount : Nat, curve : SUBSET Meter,
        reason : {"", ByCharger, StoppedBySystem, AbortedBySystem}]

\* The document OnStartTransaction inserts: stopped at the zero time, with
\* nothing consumed.
NewDoc(user, plan, register) ==
    [st |-> "open", user |-> user, plan |-> plan, timeStart |-> clock,
     meterStart |-> register, timeStop |-> 0, meterStop |-> 0, amount |-> 0,
     curve |-> {}, reason |-> ""]
Absent == [st |-> "absent", user |-> FALSE, plan |-> NoPlan, timeStart |-> 0,
           meterStart |-> 0, timeStop |-> 0, meterStop |-> 0, amount |-> 0,
           curve |-> {}, reason |-> ""]

Open(s) == docs[s].st = "open"
Finished(s) == docs[s].st = "finished"

\* The reading with the latest time, as a set: empty if there is none.
Latest(S) == {m \in S : \A n \in S : n.time <= m.time}

Fails(call) == call \in FaultKinds /\ faults < MaxFaults /\ faults' = faults + 1

(***************************************************************************)
(* Payment plans and prices.                                               *)
(***************************************************************************)
\* IsCurrentTimeRange: a range may run over midnight; one with a single end
\* is never current.
IsCurrentTimeRange(p, now) ==
    \/ p.start = Unset /\ p.end = Unset
    \/ /\ p.start # Unset /\ p.end # Unset
       /\ IF p.start <= p.end THEN p.start <= now /\ now <= p.end
          ELSE p.start <= now \/ now <= p.end

\* GetUserPaymentPlan: the plan of the user, or the default if the user has
\* none or the plan cannot be found; nothing if a collection cannot be read.
GetUserPaymentPlan ==
    LET own == IF plans.user # NoPlan THEN plans.user ELSE plans.default
    IN {[plan |-> own, failed |-> 0]}
       \cup (IF "GetUserPaymentPlan" \in FaultKinds
             THEN {[plan |-> p, failed |-> 1] : p \in {plans.default, NoPlan}} ELSE {})

GetDefaultPaymentPlan ==
    {[plan |-> plans.default, failed |-> 0]}
    \cup (IF "GetDefaultPaymentPlan" \in FaultKinds
          THEN {[plan |-> NoPlan, failed |-> 1]} ELSE {})

\* choosePaymentPlan for a named user: the plan of the user if it is current,
\* or else the default, which is read once and kept.
ChoosePaymentPlan_OwnOnly(now, plan) ==
    \E own \in GetUserPaymentPlan :
        /\ plan = IF own.plan # NoPlan /\ IsCurrentTimeRange(own.plan, now)
                  THEN own.plan ELSE cached
        /\ faults' = faults + own.failed /\ faults' <= MaxFaults
        /\ UNCHANGED cached
ChoosePaymentPlan(now, plan) ==
    \E own \in GetUserPaymentPlan, default \in GetDefaultPaymentPlan :
        LET current == own.plan # NoPlan /\ IsCurrentTimeRange(own.plan, now)
            read == ~current /\ cached = NoPlan
        IN /\ cached' = IF read THEN default.plan ELSE cached
           /\ plan = IF current THEN own.plan ELSE cached'
           /\ faults' = faults + own.failed + (IF read THEN default.failed ELSE 0)
           /\ faults' <= MaxFaults

\* Minutes beyond the first hour, whole; nothing for a shorter session.
PaidMinutes(ticks) ==
    IF ticks * TickSeconds > 3600 THEN (ticks * TickSeconds) \div 60 - 60 ELSE 0

\* The price of a session that has lasted so long and consumed so much.
Price(plan, ticks, wh) ==
    IF plan = NoPlan THEN 0
    ELSE ((PaidMinutes(ticks) * plan.hour) \div 60)
         + (IF wh > 0 THEN (wh * plan.kwh) \div 1000 ELSE 0)

(***************************************************************************)
(* The chargers: environment.  A charger that is "on" reports in every     *)
(* tick.  One that is "offline" may come "back", also after a sweep has    *)
(* taken its session for dead, and be lost once more; one that is "gone"   *)
(* never comes back.                                                       *)
(***************************************************************************)
Charger == [st : {"idle", "on", "offline", "back", "gone", "ended", "done"},
            base : Wh, steps : 0..MaxSteps, time : Ticks]
InContact(s) == charger[s].st \in {"on", "back"}
Register(s) == charger[s].base + charger[s].steps * StepWh

Draw(s) ==
    /\ charger[s].st \in {"on", "offline", "back"}
    /\ charger[s].steps < MaxSteps
    /\ charger' = [charger EXCEPT ![s].steps = @ + 1]
    /\ UNCHANGED <<clock, dbVars, memVars, pump, job, sweep, bounds>>

\* The session ends: its StopTransaction is sent, and sent again until it is
\* answered.
End(s) ==
    /\ InContact(s)
    /\ charger' = [charger EXCEPT ![s].st = "ended", ![s].time = clock]
    /\ UNCHANGED <<clock, dbVars, memVars, pump, job, sweep, bounds>>

Contact(s) ==
    /\ \/ InContact(s) /\ \E st \in {"offline", "gone"} :
              charger' = [charger EXCEPT ![s].st = st]
       \/ charger[s].st = "offline" /\ charger' = [charger EXCEPT ![s].st = "back"]
    /\ UNCHANGED <<clock, dbVars, memVars, pump, job, sweep, bounds>>

\* last_activity of GetUnfinishedTransactions.
LastActivity(s) ==
    IF samples[s] = {} THEN docs[s].timeStart
    ELSE LET last == (CHOOSE m \in Latest(samples[s]) : TRUE).time
         IN IF last >= docs[s].timeStart THEN last ELSE docs[s].timeStart

Tick ==
    /\ clock < LastTick
    /\ \A s \in Sessions :
        /\ pump[s] = None
        /\ charger[s].st = "on" => /\ clock < LastReport
                                   /\ Open(s) => clock - LastActivity(s) + 1 < StaleTicks
    /\ clock' = clock + 1
    /\ UNCHANGED <<dbVars, memVars, pump, job, sweep, charger, bounds>>

(***************************************************************************)
(* OnStartTransaction: the plan is chosen and stored with the transaction. *)
(***************************************************************************)
MuxFree == job = None

OnStartTransaction(s) ==
    /\ MuxFree
    /\ charger[s].st = "idle"
    /\ clock <= LastStart
    /\ \E base \in Registers, user \in BOOLEAN, now \in TimesOfDay,
          plan \in Plans \cup {NoPlan} :
        /\ charger' = [charger EXCEPT ![s] = [st |-> "on", base |-> base, steps |-> 0, time |-> clock]]
        /\ IF user THEN ChoosePaymentPlan(now, plan)
           ELSE plan = NoPlan /\ UNCHANGED <<cached, faults>>
        /\ docs' = [docs EXCEPT ![s] = NewDoc(user, plan, base)]
    /\ held' = [held EXCEPT ![s] = TRUE]
    /\ UNCHANGED <<clock, plans, samples, lastMeter, gauge, pump, job, sweep, edits, deaths>>

(***************************************************************************)
(* OnMeterValues: GetTransaction; then the reading is worked out from the  *)
(* last one, kept as the last one and shown on the gauge; then stored.     *)
(***************************************************************************)
Reading == [pc : {"process"}, doc : Doc, time : Ticks, value : Wh, power : Nat]
Storing == [pc : {"store"}, meter : Meter]

OnMeterValues(s) ==
    /\ InContact(s)
    /\ pump[s] = None
    /\ \E power \in Powers :
        pump' = [pump EXCEPT ![s] = [pc |-> "process", doc |-> docs[s], time |-> clock,
                                     value |-> Register(s), power |-> power]]
    /\ UNCHANGED <<clock, dbVars, memVars, job, sweep, charger, bounds>>

\* The running price: the session as if it stopped with this reading.
OnMeterValue_NoFreeHour(doc, time, value) ==
    IF doc.plan = NoPlan THEN 0
    ELSE (((time - doc.timeStart) * TickSeconds * doc.plan.hour) \div 3600)
         + (IF value > doc.meterStart THEN ((value - doc.meterStart) * doc.plan.kwh) \div 1000 ELSE 0)
OnMeterValue(doc, time, value) == Price(doc.plan, time - doc.timeStart, value - doc.meterStart)

\* PowerRate, in W: 3600/1000 of the code is a division of integer constants.
PowerRate(last, time, value) ==
    IF last # None /\ value > last.value /\ time > last.time
    THEN ((value - last.value) * (3600 \div 1000) * 1000) \div ((time - last.time) * TickSeconds)
    ELSE 0

NewMeter(r, last) ==
    [time |-> r.time, value |-> r.value,
     rate |-> IF r.power > 0 THEN r.power ELSE PowerRate(last, r.time, r.value),
     energy |-> IF r.value > r.doc.meterStart THEN r.value - r.doc.meterStart ELSE 0,
     price |-> OnMeterValue(r.doc, r.time, r.value)]

Process(s) ==
    /\ pump[s] # None /\ pump[s].pc = "process"
    /\ IF pump[s].value > 0
       THEN LET m == NewMeter(pump[s], lastMeter[s])
            IN /\ lastMeter' = [lastMeter EXCEPT ![s] = m]
               /\ gauge' = [gauge EXCEPT ![s] = m.rate]
               /\ pump' = [pump EXCEPT ![s] = [pc |-> "store", meter |-> m]]
       ELSE pump' = [pump EXCEPT ![s] = None] /\ UNCHANGED <<lastMeter, gauge>>
    /\ UNCHANGED <<clock, dbVars, cached, held, job, sweep, charger, bounds>>

Minute(time) == (time * TickSeconds) \div 60

\* An upsert by transaction, measurand and minute.
AddTransactionMeterValue(s) ==
    /\ pump[s] # None /\ pump[s].pc = "store"
    /\ \/ /\ samples' = [samples EXCEPT ![s] =
                {m \in @ : Minute(m.time) # Minute(pump[s].meter.time)} \cup {pump[s].meter}]
          /\ UNCHANGED faults
       \/ UNCHANGED samples /\ Fails("AddTransactionMeterValue")
    /\ pump' = [pump EXCEPT ![s] = None]
    /\ UNCHANGED <<clock, plans, docs, memVars, job, sweep, charger, edits, deaths>>

\* Not Charging any more, whatever the session does: the gauge falls to zero.
OnStatusNotification(s) ==
    /\ MuxFree
    /\ charger[s].st \in {"on", "back", "ended"}
    /\ pump[s] = None
    /\ gauge' = [gauge EXCEPT ![s] = 0]
    /\ UNCHANGED <<clock, dbVars, cached, held, lastMeter, pump, job, sweep, charger, bounds>>

(***************************************************************************)
(* OnStopTransaction, from its first to its last statement under h.mux:    *)
(* the samples are read, then the document; the figures are worked out on  *)
(* that copy, which is written; then the samples are deleted, then the     *)
(* connector is released.                                                  *)
(***************************************************************************)
Stopping == [pc : {"read", "write", "purge", "release"}, s : Sessions, doc : Doc,
             curve : SUBSET Meter]

\* What a caller makes of ReadAllTransactionMeterValues: an error is no values.
ReadAllTransactionMeterValues(s) ==
    {[found |-> samples[s], failed |-> 0]}
    \cup (IF "ReadAllTransactionMeterValues" \in FaultKinds
          THEN {[found |-> {}, failed |-> 1]} ELSE {})

\* OnTransactionFinished: the amount these figures come to.
Bill(doc) == [doc EXCEPT !.amount = IF doc.plan = NoPlan THEN @ ELSE
                Price(doc.plan, doc.timeStop - doc.timeStart, doc.meterStop - doc.meterStart)]

\* The last value of transactionData with context Transaction.Begin, or with
\* Transaction.End: none, the register, or whatever else was sampled there.
Sampled(times, register) == {None} \cup [time : times, value : {register} \cup OtherValues]

TransactionData(doc, begin, end) ==
    [doc EXCEPT !.meterStart = IF begin = None THEN @ ELSE begin.value,
                !.timeStart = IF begin = None THEN @ ELSE begin.time,
                !.meterStop = IF end = None THEN @ ELSE end.value,
                !.timeStop = IF end = None THEN @ ELSE end.time]

\* The figures of the request itself.
Requested(s, curve) ==
    [docs[s] EXCEPT !.st = "finished", !.timeStop = charger[s].time,
                    !.meterStop = Register(s), !.reason = ByCharger,
                    !.curve = IF curve # {} THEN curve ELSE @]

Stopped_BilledFirst(s, curve, begin, end) ==
    TransactionData(Bill(Requested(s, curve)), begin, end)
Stopped(s, curve, begin, end) ==
    Bill(TransactionData(Requested(s, curve), begin, end))

OnStopTransaction(s) ==
    /\ MuxFree
    /\ charger[s].st = "ended"
    /\ pump[s] = None
    /\ \E curve \in ReadAllTransactionMeterValues(s) :
        /\ job' = [pc |-> "read", s |-> s, doc |-> Absent, curve |-> curve.found]
        /\ faults' = faults + curve.failed /\ faults' <= MaxFaults
    /\ lastMeter' = [lastMeter EXCEPT ![s] = None]
    /\ UNCHANGED <<clock, dbVars, cached, held, gauge, pump, sweep, charger, edits, deaths>>

StopUnreadable ==
    /\ job # None /\ job.pc = "read"
    /\ Fails("GetTransaction")
    /\ charger' = [charger EXCEPT ![job.s].st = "done"]
    /\ job' = None
    /\ UNCHANGED <<clock, dbVars, memVars, pump, sweep, edits, deaths>>

StopRead ==
    /\ job # None /\ job.pc = "read"
    /\ gauge' = [gauge EXCEPT ![job.s] = 0]
    /\ IF Finished(job.s) /\ docs[job.s].meterStop >= Register(job.s)
       THEN job' = [job EXCEPT !.pc = "release", !.doc = docs[job.s]]
       ELSE \E begin \in Sampled({docs[job.s].timeStart, charger[job.s].time}, charger[job.s].base),
               end \in Sampled({charger[job.s].time}, Register(job.s)) :
            job' = [job EXCEPT !.pc = "write", !.doc = Stopped(job.s, job.curve, begin, end)]
    /\ UNCHANGED <<clock, dbVars, cached, held, lastMeter, pump, sweep, charger, bounds>>

StopWrite ==
    /\ job # None /\ job.pc = "write"
    /\ \/ /\ docs' = [docs EXCEPT ![job.s] = job.doc]
          /\ job' = [job EXCEPT !.pc = "purge"]
          /\ UNCHANGED faults
       \/ /\ UNCHANGED docs /\ Fails("UpdateTransaction")
          /\ job' = [job EXCEPT !.pc = "release"]
    /\ UNCHANGED <<clock, plans, samples, memVars, pump, sweep, charger, edits, deaths>>

StopPurge ==
    /\ job # None /\ job.pc = "purge"
    /\ \/ samples' = [samples EXCEPT ![job.s] = {}] /\ UNCHANGED faults
       \/ UNCHANGED samples /\ Fails("DeleteTransactionMeterValues")
    /\ job' = [job EXCEPT !.pc = "release"]
    /\ UNCHANGED <<clock, plans, docs, memVars, pump, sweep, charger, edits, deaths>>

StopRelease ==
    /\ job # None /\ job.pc = "release"
    /\ held' = [held EXCEPT ![job.s] = FALSE]
    /\ charger' = [charger EXCEPT ![job.s].st = "done"]
    /\ job' = None
    /\ UNCHANGED <<clock, dbVars, cached, lastMeter, gauge, pump, sweep, bounds>>

(***************************************************************************)
(* checkAndFinishTransactions and finishAbandonedTransaction.  The query   *)
(* returns copies of the documents, and a copy is what is written back.    *)
(***************************************************************************)
Copy == [s : Sessions, doc : Doc]
Sweep == [pc : {"next", "curve", "write", "release", "purge"}, todo : SUBSET Copy, c : Copy]

\* GetUnfinishedTransactions.
GetUnfinishedTransactions ==
    {s \in Sessions : /\ Open(s)
                      /\ \/ clock - LastActivity(s) >= StaleTicks
                         \/ ~held[s] /\ clock - LastActivity(s) >= GraceTicks}

Query(w) ==
    /\ sweep[w] = None
    /\ LET found == {[s |-> s, doc |-> docs[s]] : s \in GetUnfinishedTransactions}
       IN \E c \in found : sweep' = [sweep EXCEPT ![w] = [pc |-> "next", todo |-> found, c |-> c]]
    /\ UNCHANGED <<clock, dbVars, memVars, pump, job, charger, bounds>>

At(w, pc) == sweep[w] # None /\ sweep[w].pc = pc

\* The goroutine of sweep w goes on with copy c of a transaction.
GoOn(w, pc, c) == sweep' = [sweep EXCEPT ![w].pc = pc, ![w].c = c]

\* With a meter value the session stops at the last one; without one it stops
\* when it started, which keeps its duration out of the bill.
StoppedAt_NoMeter(doc, m) ==
    [doc EXCEPT !.st = "finished", !.timeStop = m.time, !.reason = StoppedBySystem]
StoppedAt(doc, m) ==
    [doc EXCEPT !.st = "finished", !.meterStop = m.value, !.timeStop = m.time,
                !.reason = StoppedBySystem]
Aborted(doc) ==
    [doc EXCEPT !.st = "finished", !.timeStop = doc.timeStart, !.reason = AbortedBySystem]

\* ReadTransactionMeterValue; an error is taken for no meter value.
ReadLast(w) ==
    /\ At(w, "next")
    /\ \E c \in sweep[w].todo :
        \/ /\ \E m \in Latest(samples[c.s]) :
               GoOn(w, "curve", [c EXCEPT !.doc = StoppedAt(@, m)])
           /\ UNCHANGED faults
        \/ /\ samples[c.s] = {} /\ UNCHANGED faults
           /\ GoOn(w, "write", [c EXCEPT !.doc = Aborted(@)])
        \/ /\ Fails("ReadTransactionMeterValue")
           /\ GoOn(w, "write", [c EXCEPT !.doc = Aborted(@)])
    /\ UNCHANGED <<clock, dbVars, memVars, pump, job, charger, edits, deaths>>

\* The curve, and the bill.
WithCurve(doc, found) == [doc EXCEPT !.curve = IF found # {} THEN found ELSE @]

ReadCurve(w) ==
    /\ At(w, "curve")
    /\ \E curve \in ReadAllTransactionMeterValues(sweep[w].c.s) :
        /\ GoOn(w, "write", [sweep[w].c EXCEPT !.doc = Bill(WithCurve(@, curve.found))])
        /\ faults' = faults + curve.failed /\ faults' <= MaxFaults
    /\ UNCHANGED <<clock, dbVars, memVars, pump, job, charger, edits, deaths>>

SweepWrite(w) ==
    /\ At(w, "write")
    /\ \/ docs' = [docs EXCEPT ![sweep[w].c.s] = sweep[w].c.doc] /\ UNCHANGED faults
       \/ UNCHANGED docs /\ Fails("UpdateTransaction")
    /\ GoOn(w, "release", sweep[w].c)
    /\ UNCHANGED <<clock, plans, samples, memVars, pump, job, charger, edits, deaths>>

SweepRelease_GaugeKept(w) ==
    /\ At(w, "release")
    /\ MuxFree
    /\ held' = [held EXCEPT ![sweep[w].c.s] = FALSE]
    /\ GoOn(w, "purge", sweep[w].c)
    /\ UNCHANGED <<clock, dbVars, cached, lastMeter, gauge, pump, job, charger, bounds>>
SweepRelease(w) ==
    /\ At(w, "release")
    /\ MuxFree
    /\ held' = [held EXCEPT ![sweep[w].c.s] = FALSE]
    /\ gauge' = [gauge EXCEPT ![sweep[w].c.s] = 0]
    /\ GoOn(w, "purge", sweep[w].c)
    /\ UNCHANGED <<clock, dbVars, cached, lastMeter, pump, job, charger, bounds>>

SweepPurge(w) ==
    /\ At(w, "purge")
    /\ LET c == sweep[w].c
           left == {d \in sweep[w].todo : d.s # c.s}
       IN /\ \/ samples' = [samples EXCEPT ![c.s] = {}] /\ UNCHANGED faults
             \/ UNCHANGED samples /\ Fails("DeleteTransactionMeterValues")
          /\ sweep' = [sweep EXCEPT ![w] = IF left = {} THEN None
                                           ELSE [pc |-> "next", todo |-> left, c |-> c]]
    /\ UNCHANGED <<clock, plans, docs, memVars, pump, job, charger, edits, deaths>>

SweepStep(w) ==
    Query(w) \/ ReadLast(w) \/ ReadCurve(w) \/ SweepWrite(w) \/ SweepRelease(w) \/ SweepPurge(w)

(***************************************************************************)
(* The back office replaces the default plan.  The process dies (the maps  *)
(* of OnMeterValues are not locked) and OnStart loads the last readings.   *)
(***************************************************************************)
EditPlans ==
    /\ edits < MaxEdits
    /\ \E s \in Sessions : docs[s].st = "absent"   \* bound: no start reads it else
    /\ \E p \in Plans \ {plans.default} : plans' = [plans EXCEPT !.default = p]
    /\ edits' = edits + 1
    /\ UNCHANGED <<clock, docs, samples, memVars, pump, job, sweep, charger, faults, deaths>>

\* ReadLastMeterValues.
ReadLastMeterValues ==
    [s \in Sessions |-> IF samples[s] = {} THEN None ELSE CHOOSE m \in Latest(samples[s]) : TRUE]

Restart ==
    /\ deaths < MaxDeaths
    /\ deaths' = deaths + 1
    /\ cached' = NoPlan
    /\ held' = [s \in Sessions |-> held[s] /\ Open(s)]
    /\ lastMeter' = ReadLastMeterValues
    /\ gauge' = [s \in Sessions |-> 0]
    /\ pump' = [s \in Sessions |-> None]
    /\ job' = None
    /\ sweep' = [w \in Sweepers |-> None]
    /\ UNCHANGED <<clock, dbVars, charger, faults, edits>>

Init ==
    /\ clock = 0
    /\ plans \in InitialPlans
    /\ cached = NoPlan
    /\ docs = [s \in Sessions |-> Absent]
    /\ samples = [s \in Sessions |-> {}]
    /\ held = [s \in Sessions |-> FALSE]
    /\ lastMeter = [s \in Sessions |-> None]
    /\ gauge = [s \in Sessions |-> 0]
    /\ pump = [s \in Sessions |-> None]
    /\ job = None
    /\ sweep = [w \in Sweepers |-> None]
    /\ charger = [s \in Sessions |-> [st |-> "idle", base |-> 0, steps |-> 0, time |-> 0]]
    /\ faults = 0 /\ edits = 0 /\ deaths = 0

HandlerStep(s) == Process(s) \/ AddTransactionMeterValue(s) \/ OnStopTransaction(s)
StopStep == StopUnreadable \/ StopRead \/ StopWrite \/ StopPurge \/ StopRelease

Next ==
    \/ \E s \in Sessions :
        \/ OnStartTransaction(s) \/ OnMeterValues(s) \/ OnStatusNotification(s)
        \/ HandlerStep(s)
        \/ Draw(s) \/ End(s) \/ Contact(s)
    \/ StopStep
    \/ \E w \in Sweepers : SweepStep(w)
    \/ Tick \/ EditPlans \/ Restart

Spec == Init /\ [][Next]_vars

\* Goroutines run, the ticker of the sweep fires again and again, an ended
\* session's stop is repeated until it is answered, and time passes.
Fairness ==
    /\ WF_vars(Tick) /\ WF_vars(StopStep)
    /\ \A s \in Sessions : WF_vars(HandlerStep(s))
    /\ \A w \in Sweepers : WF_vars(SweepStep(w))
FairSpec == Spec /\ Fairness

(***************************************************************************)
(* Properties.                                                             *)
(***************************************************************************)
\* The documents, the stored and the remembered readings, the figures handlers
\* and sweeps carry, and the counters stay within their sets.
TypeOK ==
    /\ clock \in Ticks
    /\ plans \in [user : Plans \cup {NoPlan}, default : Plans]
    /\ cached \in Plans \cup {NoPlan}
    /\ docs \in [Sessions -> Doc]
    /\ samples \in [Sessions -> SUBSET Meter]
    /\ held \in [Sessions -> BOOLEAN]
    /\ lastMeter \in [Sessions -> Meter \cup {None}]
    /\ gauge \in [Sessions -> Nat]
    /\ pump \in [Sessions -> Reading \cup Storing \cup {None}]
    /\ job \in Stopping \cup {None}
    /\ sweep \in [Sweepers -> Sweep \cup {None}]
    /\ charger \in [Sessions -> Charger]
    /\ faults \in 0..MaxFaults /\ edits \in 0..MaxEdits /\ deaths \in 0..MaxDeaths

\* The amount of a finished transaction is what its own plan makes of the
\* figures stored with it: bill, times and registers are never mixed from a
\* stop, a sweep and an outdated copy, in whatever order they write
\* (OnTransactionFinished after transactionData; a session without a meter
\* value stops when it started).
FiguresAgree ==
    \A s \in Sessions : Finished(s) =>
        /\ docs[s].amount = Price(docs[s].plan, docs[s].timeStop - docs[s].timeStart,
                                  docs[s].meterStop - docs[s].meterStart)
        /\ docs[s].amount >= 0

\* The session of a named user is without a plan only if a lookup has failed:
\* a user or a plan that cannot be found and a plan outside its hours fall
\* back on the default (choosePaymentPlan, GetUserPaymentPlan).
SomePlanIsFound ==
    \A s \in Sessions : docs[s].user /\ docs[s].plan = NoPlan => faults > 0

\* The driver of a session that the system closes is billed what the last
\* reading showed: the price OnMeterValue stored with it, from the document as
\* it was then, is the amount OnTransactionFinished makes of a sweep's copy.
ShownIsBilled ==
    \A s \in Sessions : Finished(s) /\ docs[s].reason = StoppedBySystem =>
        \A m \in docs[s].curve :
            m.time = docs[s].timeStop /\ m.value = docs[s].meterStop => m.price = docs[s].amount

\* The consumption curve saved with a finished transaction loses no point.
\* Not so: a sweep that listed the transaction before its stop writes its own
\* copy over it, and readings that arrive after a sweep has closed a
\* transaction replace its curve when the late stop comes
\* (Billing_lost_curve.cfg).
CurveIsKept ==
    [][\A s \in Sessions : Finished(s) => docs[s].curve \subseteq docs'[s].curve]_vars

\* The session is open, nothing that its charger sent is still being handled,
\* and the sweep takes it for dead before time ends.
Abandoned(s) ==
    /\ charger[s].st = "gone" /\ Open(s) /\ pump[s] = None
    /\ LastActivity(s) + StaleTicks <= LastTick

\* Once an open session is over for its charger, lost or about to be stopped by
\* a StopTransaction that finds its document, the power gauge of its connector
\* falls to zero and stays there, although readings set it without a lock
\* (OnStopTransaction, and finishAbandonedTransaction for a charger that sends
\* no stop).
GaugeSettles ==
    \A s \in Sessions :
        (Abandoned(s) \/ (charger[s].st = "ended" /\ faults = MaxFaults)) ~> [](gauge[s] = 0)

\* The same of every session whose charger is lost.  Not so: a reading that
\* comes in once a sweep has closed its transaction, or while it does, sets the
\* gauge again, and no sweep looks at a finished transaction
\* (Billing_prices.cfg with this property).
GaugeFollowsCharger == \A s \in Sessions : (charger[s].st = "gone") ~> [](gauge[s] = 0)

\* A session whose charger is lost is billed for the energy it has measured,
\* whatever has failed before: from a state in which nobody is closing it and
\* no more calls fail, a sweep finds the last reading and works out the amount
\* from it (finishAbandonedTransaction).
SessionIsBilled ==
    \A s \in Sessions :
        (/\ Abandoned(s)
         /\ \E m \in samples[s] : m.price > 0
         /\ faults = MaxFaults /\ \A w \in Sweepers : sweep[w] = None)
            ~> (Finished(s) /\ docs[s].amount > 0)

\* The same of a session whose closing is still to fail.  Not so: a failed
\* ReadTransactionMeterValue is taken for a session without readings, and a
\* failed UpdateTransaction does not keep the sweep from deleting the readings
\* (Billing_failed_read.cfg).
FailuresAreRepaired ==
    \A s \in Sessions :
        (Abandoned(s) /\ \E m \in samples[s] : m.price > 0)
            ~> (Finished(s) /\ docs[s].amount > 0)
=============================================================================
