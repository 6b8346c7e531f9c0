----------------------------- MODULE Protocols -----------------------------
(***************************************************************************)
(* The versions of OCPP: which one a connection agrees on, and which       *)
(* messages have a type and a handler in it.  Routing works with these.    *)
(***************************************************************************)
EXTENDS Sequences

VARIABLES
    agreed,         \* ws.protocol of each connection
    handled         \* which handlers took the last message of a connection

OCPP16 == "ocpp1.6"
OCPP201 == "ocpp2.0.1"
OCPP21 == "ocpp2.1"
UnknownVersion == ""
Versions == {OCPP16, OCPP201, OCPP21}

(***************************************************************************)
(* What is served.                                                         *)
(***************************************************************************)
Subprotocols == {OCPP16, OCPP201}

Routed16 == {"BootNotification", "Authorize", "Heartbeat", "StartTransaction",
             "StopTransaction", "MeterValues", "StatusNotification", "DataTransfer",
             "DiagnosticsStatusNotification", "FirmwareStatusNotification"}
Routed201 == {"BootNotification", "Heartbeat", "NotifyReport", "Authorize",
              "ClearedChargingLimit", "TransactionEvent", "StatusNotification"}

\* What EnableVersionAwareRouting registers: the features of NewHandler16.
Registered16 == Routed16 \cup
    {"RemoteStartTransaction", "RemoteStopTransaction", "GetConfiguration",
     "ChangeConfiguration", "SendLocalList", "TriggerMessage"}
GetTypes(version, action) == version = OCPP16 /\ action \in Registered16

Routes(version) == CASE version = OCPP16 -> Routed16
                     [] version = OCPP201 -> Routed201
                     [] OTHER -> {}

\* The first offer that the server supports; without one the default applies.
Negotiate(offer) ==
    LET common == SelectSeq(offer, LAMBDA proto : proto \in Subprotocols)
    IN IF common = <<>> THEN OCPP16 ELSE Head(common)

-----------------------------------------------------------------------------
\* A message is taken by the handlers of the protocol its own connection agreed
\* on, also while another connection of the charge point with another protocol
\* is being served.
HandledByOwnProtocol ==
    \A s \in DOMAIN handled : handled[s] \in Versions => handled[s] = agreed[s]

=============================================================================
