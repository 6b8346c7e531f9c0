----------------------------- MODULE MCRouting -----------------------------
(***************************************************************************)
(* Routing for TLC: one feature of each protocol alone, one of both, one   *)
(* that is registered and not routed, and one that is unknown; commands    *)
(* with the payloads that some of their handlers refuse.                   *)
(***************************************************************************)
EXTENDS Routing

AllOffers == {<<>>, <<OCPP16>>, <<OCPP201, OCPP16>>, <<OCPP21, OCPP201>>}
AllFeatures == {"BootNotification", "StartTransaction", "TransactionEvent", "TriggerMessage"}
AllCommands == {"Reset", "GetConfiguration", "GetCompositeSchedule", "GetVariables", "RequestStopTransaction"}
AllPayloads == {"empty", "number", "odd object", "odd list"}
=============================================================================
