------------------------------ MODULE Routing ------------------------------
(***************************************************************************)
(* From the subprotocol of a connection to the handler of a message, and   *)
(* from an API command to the request that is sent (handleWsRequest,       *)
(* handleIncomingMessage, ParseRequestVersionAware, handleApiRequest).     *)
(*                                                                         *)
(* All connections are of one charge point.  CentralSystem.connections     *)
(* holds one version for it, stored by every message; RemoveConnection has *)
(* no caller.  The pool is that of Connections without its queue limits:   *)
(* everything sent goes to the client registered when it is delivered.     *)
(*                                                                         *)
(* A message of the charge point may be malformed; its handler takes its   *)
(* time.  An answer of the charge point stores the version like a refused  *)
(* message does.  Of the payload of a command its shape is kept, and what  *)
(* the handlers of commands make of it.                                    *)
(***************************************************************************)
EXTENDS Integers, Sequences, Protocols

CONSTANTS
    Sockets,        \* the connections, in any order
    Offers,         \* what a charge point may offer when it dials
    Features,       \* the actions it may send
    WellFormed,     \* whether they may be, or fail to be, well formed
    Commands,       \* the features of API commands
    Payloads,       \* the shapes of their payloads
    MaxQueue        \* bound: messages in pool.send

NoSocket == "none"

\* Nothing, a number, a JSON object that fits the feature or has a field out of
\* range, a JSON array that fits or does not, and anything else.
Shapes == {"empty", "number", "object", "odd object", "list", "odd list", "text"}

ASSUME RoutingAssumption ==
    /\ NoSocket \notin Sockets
    /\ WellFormed \subseteq BOOLEAN
    /\ Payloads \subseteq Shapes
    /\ MaxQueue \in Nat

VARIABLES
    stage,          \* the read pump of each connection
    client,         \* pool.clients
    connections,    \* cs.connections
    message,        \* the action a pump is handling
    queue,          \* pool.send
    delivered       \* the last thing written to a connection

vars == <<stage, agreed, client, connections, message, handled, queue, delivered>>

Nothing == "nothing"
Envelope == [kind : {"answer", "command"}, version : Versions, auto : BOOLEAN]
NoDelivery == [kind |-> Nothing, to |-> NoSocket, version |-> OCPP16, auto |-> FALSE]
Delivery == {NoDelivery} \cup
    [kind : {"answer", "command"}, to : Sockets, version : Versions, auto : BOOLEAN]

(***************************************************************************)
(* The connection.                                                         *)
(***************************************************************************)
\* Takes whatever is registered for the charge point out of the pool.
HandleWsRequest(s) ==
    /\ stage[s] = "new"
    /\ stage' = [stage EXCEPT ![s] = "dial"]
    /\ client' = NoSocket
    /\ UNCHANGED <<agreed, connections, message, handled, queue, delivered>>

\* The upgrade fails, or the connection is registered unless an older one has
\* registered itself again.
Upgrade(s) ==
    /\ stage[s] = "dial"
    /\ \/ /\ \E offer \in Offers : agreed' = [agreed EXCEPT ![s] = Negotiate(offer)]
          /\ stage' = [stage EXCEPT ![s] = "open"]
          /\ client' = IF client = NoSocket THEN s ELSE client
       \/ /\ stage' = [stage EXCEPT ![s] = "closed"]
          /\ UNCHANGED <<agreed, client>>
    /\ UNCHANGED <<connections, message, handled, queue, delivered>>

\* Registers the connection if none is, and enters handleIncomingMessage.
StoreProtocol_First(s, f) ==
    /\ stage[s] = "open"
    /\ stage' = [stage EXCEPT ![s] = "parse"]
    /\ client' = IF client = NoSocket THEN s ELSE client
    /\ connections' = IF connections = UnknownVersion THEN agreed[s] ELSE connections
    /\ message' = [message EXCEPT ![s] = f]
    /\ handled' = [handled EXCEPT ![s] = Nothing]
    /\ UNCHANGED <<agreed, queue, delivered>>
StoreProtocol(s, f) ==
    /\ stage[s] = "open"
    /\ stage' = [stage EXCEPT ![s] = "parse"]
    /\ client' = IF client = NoSocket THEN s ELSE client
    /\ connections' = agreed[s]
    /\ message' = [message EXCEPT ![s] = f]
    /\ handled' = [handled EXCEPT ![s] = Nothing]
    /\ UNCHANGED <<agreed, queue, delivered>>

ProtocolOf_Shared(s) == connections
ProtocolOf(s) == agreed[s]

\* The frame has its four parts, the action is registered, and the payload fits
\* its type and its validation tags.
ParseRequestVersionAware(version, action, wellFormed) == wellFormed /\ GetTypes(version, action)

\* A message that does not parse, or is not routed, is logged and not answered.
Route(s) ==
    /\ stage[s] = "parse"
    /\ \E wellFormed \in WellFormed :
       LET version == ProtocolOf(s)
           taken == /\ ParseRequestVersionAware(version, message[s], wellFormed)
                    /\ message[s] \in Routes(version)
       IN /\ handled' = [handled EXCEPT ![s] = IF taken THEN version ELSE "refused"]
          /\ stage' = [stage EXCEPT ![s] = IF taken THEN "handler" ELSE "open"]
    /\ UNCHANGED <<agreed, client, connections, message, queue, delivered>>

SendResponse(s) ==
    /\ stage[s] = "handler"
    /\ Len(queue) < MaxQueue
    /\ queue' = Append(queue, [kind |-> "answer", version |-> handled[s], auto |-> FALSE])
    /\ stage' = [stage EXCEPT ![s] = "open"]
    /\ UNCHANGED <<agreed, client, connections, message, handled, delivered>>

\* By the id of the charge point, whichever connection is registered.
Close(s) ==
    /\ stage[s] = "open"
    /\ stage' = [stage EXCEPT ![s] = "closed"]
    /\ client' = NoSocket
    /\ UNCHANGED <<agreed, connections, message, handled, queue, delivered>>

Deliver ==
    /\ queue # <<>>
    /\ queue' = Tail(queue)
    /\ delivered' = IF client = NoSocket THEN delivered
                    ELSE [kind |-> Head(queue).kind, to |-> client,
                          version |-> Head(queue).version, auto |-> Head(queue).auto]
    /\ UNCHANGED <<stage, agreed, client, connections, message, handled>>

(***************************************************************************)
(* API commands.                                                           *)
(***************************************************************************)
\* An explicit version, the stored one, or the default.
ResolveProtocolVersion(explicit) ==
    IF explicit # UnknownVersion THEN explicit
    ELSE IF connections # UnknownVersion THEN connections
    ELSE OCPP16

\* Everything that is not 2.0.1 is built as 1.6.
BuiltAs(version) == IF version = OCPP201 THEN OCPP201 ELSE OCPP16

\* The payloads for which a handler builds a request, when getChargePoint finds
\* the charge point.
CoreCommands ==
    [TriggerMessage         |-> Shapes,
     SendLocalList          |-> Shapes,
     RemoteStartTransaction |-> Shapes,
     RemoteStopTransaction  |-> {"number"},
     GetConfiguration       |-> Shapes,
     ChangeConfiguration    |-> {"object", "odd object"}]

\* parseCompositeScheduleQuery: a bare number may be zero or negative, the
\* duration of an object may not.
ProfileCommands ==
    [SetChargingProfile   |-> {"object", "odd object"},
     GetCompositeSchedule |-> {"number", "object"},
     ClearChargingProfile |-> {"object", "odd object"},
     GetDiagnostics       |-> Shapes \ {"empty"},
     Reset                |-> Shapes]

HandleApiRequestV16(feature) ==
    CASE feature \in DOMAIN CoreCommands -> CoreCommands[feature]
      [] feature \in DOMAIN ProfileCommands -> ProfileCommands[feature]
      [] OTHER -> {}

\* The charge point is not looked up.  A stop without an id names one of its
\* sessions, whatever the connector of the command is, and is refused without
\* one; TriggerMessage is not implemented.
Commands201(charging) ==
    [RequestStartTransaction |-> Shapes,
     RequestStopTransaction  |-> IF charging THEN Shapes ELSE Shapes \ {"empty"},
     Reset                   |-> Shapes,
     GetVariables            |-> Shapes \ {"odd list"},
     SetVariables            |-> {"list"},
     TriggerMessage          |-> {}]

HandleApiRequestV201(feature, charging) ==
    IF feature \in DOMAIN Commands201(charging) THEN Commands201(charging)[feature] ELSE {}

\* Admission says whether the charge point is found, Transactions whether it is
\* charging; here both may be.
HandleApiRequest(feature, explicit, payload) ==
    /\ client # NoSocket
    /\ LET version == BuiltAs(ResolveProtocolVersion(explicit))
       IN /\ \E found, charging \in BOOLEAN :
                IF version = OCPP201 THEN payload \in HandleApiRequestV201(feature, charging)
                ELSE found /\ payload \in HandleApiRequestV16(feature)
          /\ Len(queue) < MaxQueue
          /\ queue' = Append(queue, [kind |-> "command", version |-> version,
                                     auto |-> explicit = UnknownVersion])
    /\ UNCHANGED <<stage, agreed, client, connections, message, handled, delivered>>

-----------------------------------------------------------------------------
Init ==
    /\ stage = [s \in Sockets |-> "new"]
    /\ agreed = [s \in Sockets |-> OCPP16]
    /\ client = NoSocket
    /\ connections = UnknownVersion
    /\ message = [s \in Sockets |-> Nothing]
    /\ handled = [s \in Sockets |-> Nothing]
    /\ queue = <<>>
    /\ delivered = NoDelivery

Pump(s) == (\E f \in Features : StoreProtocol(s, f)) \/ Route(s) \/ SendResponse(s)

Next ==
    \/ \E s \in Sockets : HandleWsRequest(s) \/ Upgrade(s) \/ Pump(s) \/ Close(s)
    \/ \E f \in Commands, v \in Versions \cup {UnknownVersion}, p \in Payloads : HandleApiRequest(f, v, p)
    \/ Deliver

Spec == Init /\ [][Next]_vars

\* The pool works on, a pump goes on with its message, and a connected charge
\* point sends heartbeats.
FairSpec ==
    /\ Spec
    /\ WF_vars(Deliver)
    /\ \A s \in Sockets : SF_vars(Pump(s))

-----------------------------------------------------------------------------
\* Every variable has its type.
TypeOK ==
    /\ stage \in [Sockets -> {"new", "dial", "open", "parse", "handler", "closed"}]
    /\ agreed \in [Sockets -> Versions]
    /\ client \in Sockets \cup {NoSocket}
    /\ connections \in Versions \cup {UnknownVersion}
    /\ message \in [Sockets -> Features \cup {Nothing}]
    /\ handled \in [Sockets -> Versions \cup {Nothing, "refused"}]
    /\ queue \in Seq(Envelope) /\ Len(queue) <= MaxQueue
    /\ delivered \in Delivery

\* Once one connection is left, the stored version becomes the one it agreed
\* on, whatever older connections and late messages had stored.
VersionSettles ==
    \A s \in Sockets :
        <>[](stage[s] \notin {"new", "dial", "closed"} /\ \A w \in Sockets \ {s} : stage[w] \in {"new", "closed"})
            => <>[](connections = agreed[s])

\* "Uses the protocol version from the active connection": a command without a
\* version is built for the protocol of the connection it is delivered to.
CommandMatchesConnection ==
    delivered.kind = "command" /\ delivered.auto => delivered.version = agreed[delivered.to]

\* A message that the handlers of the agreed protocol can route is taken by them.
AgreedProtocolIsServed ==
    \A s \in Sockets :
        stage[s] = "open" /\ message[s] \in Routes(agreed[s]) => handled[s] = agreed[s]

=============================================================================
