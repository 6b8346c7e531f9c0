----------------------------- MODULE MCBilling -----------------------------
(***************************************************************************)
(* Instances of Billing for TLC.                                           *)
(***************************************************************************)
EXTENDS Billing

CONSTANTS s1, w1, none

DayPlan == [kwh |-> 45, hour |-> 100, start |-> 480, end |-> 1200]
NightPlan == [kwh |-> 30, hour |-> 0, start |-> 1320, end |-> 360]

MCPlans == {DayPlan, NightPlan}
\* The night plan runs over midnight; by day its user pays the default.
MCInitial == {[user |-> NightPlan, default |-> DayPlan]}
MCTimes == {600, 1400}
MCFaults == {"GetUserPaymentPlan", "GetDefaultPaymentPlan", "GetTransaction",
             "AddTransactionMeterValue", "DeleteTransactionMeterValues",
             "UpdateTransaction", "ReadTransactionMeterValue",
             "ReadAllTransactionMeterValues"}
=============================================================================
