------------------------- MODULE ConnectionsProofs -------------------------
(***************************************************************************)
(* What holds of the connections of a charge point for any number of them  *)
(* and any capacity of the channels: that the pool serves its client       *)
(* (Connections), and that a message goes to the handlers of the protocol  *)
(* its own connection speaks (Routing, the instance Router below, over the *)
(* same sockets and with variables of its own).                            *)
(***************************************************************************)
EXTENDS Connections, Protocols, TLAPS

\* The channels keep within their capacities, whatever is sent and whoever reads.
THEOREM ConnectionsTyped == Spec => []TypeOK
<1>1. Init => TypeOK
  <2> SUFFICES ASSUME Init PROVE TypeOK
    OBVIOUS
  <2>1. stage \in [Sockets -> Stages] /\ client \in Sockets \cup {NoSocket}
    BY DEF Init, Stages
  <2>2. up \subseteq Sockets /\ wire \subseteq Sockets /\ closedSend \subseteq Sockets
    BY DEF Init
  <2>3. /\ queue \in 0..PoolBuffer /\ outbox \in [Sockets -> 0..SendBuffer]
        /\ reports \in [Reports -> 0..MaxReports]
    BY ConnectionsAssumption DEF Init
  <2>4. online \in BOOLEAN
    BY DEF Init
  <2> QED
    BY <2>1, <2>2, <2>3, <2>4 DEF TypeOK
<1>2. TypeOK /\ [Next]_vars => TypeOK'
  <2> SUFFICES ASSUME TypeOK, [Next]_vars PROVE TypeOK'
    OBVIOUS
  <2> USE ConnectionsAssumption DEF TypeOK, Stages, Reports
  <2>1. ASSUME NEW w \in Sockets, HandleWsRequest(w) \/ Send(w) \/ Drop(w) PROVE TypeOK'
    BY <2>1 DEF HandleWsRequest, Send, Drop
  <2>2. ASSUME NEW w \in Sockets, Replace(w) \/ Close(w) \/ HandleMessage(w) PROVE TypeOK'
    BY <2>2 DEF Replace, Close, HandleMessage, DeleteClient
  <2>3. ASSUME NEW w \in Sockets, Upgrade(w) \/ Register(w) PROVE TypeOK'
    BY <2>3 DEF Upgrade, Register, CheckAddClient, Report
  <2>4. ASSUME NEW w \in Sockets, ReadMessage(w) PROVE TypeOK'
    BY <2>4 DEF ReadMessage, Report
  <2>5. ASSUME NEW w \in Sockets, WritePump(w) PROVE TypeOK'
    BY <2>5 DEF WritePump
  <2>6. CASE Request
    BY <2>6 DEF Request
  <2>7. CASE Deliver
    BY <2>7 DEF Deliver, Room
  <2>8. CASE Panic
    <3>1. stage' \in [Sockets -> Stages] /\ client' \in Sockets \cup {NoSocket}
      BY <2>8 DEF Panic
    <3>2. up' \subseteq Sockets /\ wire' \subseteq Sockets /\ closedSend' \subseteq Sockets
      BY <2>8 DEF Panic
    <3>3. /\ queue' \in 0..PoolBuffer /\ outbox' \in [Sockets -> 0..SendBuffer]
          /\ reports' \in [Reports -> 0..MaxReports]
      BY <2>8 DEF Panic
    <3>4. online' \in BOOLEAN
      BY <2>8 DEF Panic
    <3> QED
      BY <3>1, <3>2, <3>3, <3>4
  <2>9. ASSUME NEW r \in Reports, OnOnlineStatusChanged(r) PROVE TypeOK'
    BY <2>9 DEF OnOnlineStatusChanged
  <2>10. CASE UNCHANGED vars
    BY <2>10 DEF vars
  <2> QED
    BY <2>1, <2>2, <2>3, <2>4, <2>5, <2>6, <2>7, <2>8, <2>9, <2>10 DEF Next, SocketStep
<1> QED
  BY <1>1, <1>2, PTL DEF Spec

\* The pool never keeps a socket whose read pump has ended.  It is registered
\* only by its own read pump or upgrade, and every close removes it.
THEOREM PoolServesItsClient == Spec => []ClientIsServed
<1>1. Init => ClientIsServed
  BY DEF Init, ClientIsServed
<1>2. TypeOK /\ ClientIsServed /\ [Next]_vars => ClientIsServed'
  <2> SUFFICES ASSUME TypeOK, ClientIsServed, [Next]_vars PROVE ClientIsServed'
    OBVIOUS
  <2> USE ConnectionsAssumption DEF TypeOK, ClientIsServed, Pumping
  <2>1. ASSUME NEW w \in Sockets, HandleWsRequest(w) PROVE ClientIsServed'
    BY <2>1 DEF HandleWsRequest
  <2>2. ASSUME NEW w \in Sockets, Send(w) \/ Drop(w) \/ WritePump(w) PROVE ClientIsServed'
    BY <2>2 DEF Send, Drop, WritePump
  <2>3. ASSUME NEW w \in Sockets, Replace(w) \/ Close(w) PROVE ClientIsServed'
    BY <2>3 DEF Replace, Close, DeleteClient
  <2>4. ASSUME NEW w \in Sockets, Upgrade(w) PROVE ClientIsServed'
    <3>1. CASE CheckAddClient(w) /\ stage' = [stage EXCEPT ![w] = "open"]
      BY <3>1 DEF CheckAddClient
    <3>2. CASE stage' = [stage EXCEPT ![w] = "closed"] /\ UNCHANGED client
      BY <2>4, <3>2 DEF Upgrade
    <3> QED
      BY <2>4, <3>1, <3>2 DEF Upgrade
  <2>5. ASSUME NEW w \in Sockets, ReadMessage(w) \/ HandleMessage(w) PROVE ClientIsServed'
    BY <2>5 DEF ReadMessage, HandleMessage
  <2>6. ASSUME NEW w \in Sockets, Register(w) PROVE ClientIsServed'
    BY <2>6 DEF Register, CheckAddClient
  <2>7. CASE Request \/ Deliver \/ Panic
    BY <2>7 DEF Request, Deliver, Panic
  <2>8. ASSUME NEW r \in Reports, OnOnlineStatusChanged(r) PROVE ClientIsServed'
    BY <2>8 DEF OnOnlineStatusChanged
  <2>9. CASE UNCHANGED vars
    BY <2>9 DEF vars
  <2> QED
    BY <2>1, <2>2, <2>3, <2>4, <2>5, <2>6, <2>7, <2>8, <2>9 DEF Next, SocketStep
<1> QED
  BY <1>1, <1>2, ConnectionsTyped, PTL DEF Spec

-----------------------------------------------------------------------------
(***************************************************************************)
(* The protocol of a connection.                                           *)
(***************************************************************************)
CONSTANTS Offers, Features, WellFormed, Commands, Payloads, MaxQueue

VARIABLES routeStage, routeClient, connections, message, routeQueue, delivered

Router == INSTANCE Routing
              WITH stage <- routeStage, client <- routeClient, queue <- routeQueue

RouteStages == {"new", "dial", "open", "parse", "handler", "closed"}

\* A connection has handled nothing before it has agreed on a protocol, so the
\* choice of the protocol cannot come after the handler.
RouteInv ==
    /\ routeStage \in [Sockets -> RouteStages]
    /\ DOMAIN agreed = Sockets /\ agreed = [s \in Sockets |-> agreed[s]]
    /\ handled \in [Sockets -> Router!Versions \cup {Router!Nothing, "refused"}]
    /\ \A s \in Sockets : routeStage[s] \in {"new", "dial"} => handled[s] = Router!Nothing
    /\ Router!HandledByOwnProtocol

\* Only the versions of the protocols are in the registry, so what is taken has
\* one of them.
LEMMA TakenIsAVersion ==
    ASSUME NEW version, NEW action, Router!GetTypes(version, action)
    PROVE  version \in Router!Versions
  BY DEF Router!GetTypes, Router!Versions, Router!OCPP16

LEMMA NothingIsNoVersion == Router!Nothing \notin Router!Versions
  BY DEF Router!Nothing, Router!Versions, Router!OCPP16, Router!OCPP201, Router!OCPP21

LEMMA RouteInit == Router!Init => RouteInv
  BY NothingIsNoVersion
     DEF Router!Init, RouteInv, RouteStages, Router!HandledByOwnProtocol

\* One step of Routing keeps the invariant: the protocol is chosen while nothing
\* is handled, and Route writes the protocol of its own connection.
LEMMA RouteStep == RouteInv /\ [Router!Next]_(Router!vars) => RouteInv'
  <1> SUFFICES ASSUME RouteInv, [Router!Next]_(Router!vars) PROVE RouteInv'
      OBVIOUS
  <1> USE DEF RouteInv, RouteStages, Router!HandledByOwnProtocol
  <1>1. CASE UNCHANGED Router!vars
      BY <1>1 DEF Router!vars
  <1>2. ASSUME NEW s \in Sockets, Router!HandleWsRequest(s) PROVE RouteInv'
      BY <1>2 DEF Router!HandleWsRequest
  <1>8. ASSUME NEW s \in Sockets, Router!Upgrade(s) PROVE RouteInv'
    <2>1. handled[s] = Router!Nothing /\ handled' = handled
        BY <1>8 DEF Router!Upgrade
    <2>2. CASE agreed' = agreed /\ routeStage' = [routeStage EXCEPT ![s] = "closed"]
        BY <2>1, <2>2
    <2>3. ASSUME NEW offer \in Offers,
                 agreed' = [agreed EXCEPT ![s] = Router!Negotiate(offer)],
                 routeStage' = [routeStage EXCEPT ![s] = "open"]
          PROVE  RouteInv'
      <3>1. \A w \in Sockets \ {s} : agreed'[w] = agreed[w]
          BY <2>3
      <3> HIDE DEF Router!Negotiate
      <3> QED
          BY <2>1, <2>3, <3>1, NothingIsNoVersion
    <2> QED
        BY <1>8, <2>2, <2>3 DEF Router!Upgrade
  <1>3. ASSUME NEW s \in Sockets, NEW f \in Features, Router!StoreProtocol(s, f) PROVE RouteInv'
      BY <1>3, NothingIsNoVersion DEF Router!StoreProtocol
  <1>4. ASSUME NEW s \in Sockets, Router!Route(s) PROVE RouteInv'
    <2>1. PICK taken \in BOOLEAN :
            /\ taken => Router!GetTypes(agreed[s], message[s])
            /\ handled' = [handled EXCEPT ![s] = IF taken THEN agreed[s] ELSE "refused"]
            /\ routeStage' = [routeStage EXCEPT ![s] = IF taken THEN "handler" ELSE "open"]
            /\ routeStage[s] = "parse" /\ agreed' = agreed
        BY <1>4 DEF Router!Route, Router!ProtocolOf, Router!ParseRequestVersionAware
    <2>2. taken => agreed[s] \in Router!Versions
        BY <2>1, TakenIsAVersion
    <2>3. "refused" \notin Router!Versions
        BY DEF Router!Versions, Router!OCPP16, Router!OCPP201, Router!OCPP21
    <2> QED
        BY <2>1, <2>2, <2>3
  <1>5. ASSUME NEW s \in Sockets, Router!SendResponse(s) \/ Router!Close(s) PROVE RouteInv'
      BY <1>5 DEF Router!SendResponse, Router!Close
  <1>6. ASSUME NEW f \in Commands, NEW v \in Router!Versions \cup {Router!UnknownVersion}, NEW p \in Payloads,
               Router!HandleApiRequest(f, v, p)
        PROVE  RouteInv'
      BY <1>6 DEF Router!HandleApiRequest
  <1>7. CASE Router!Deliver
      BY <1>7 DEF Router!Deliver
  <1> QED
      BY <1>1, <1>2, <1>3, <1>4, <1>5, <1>6, <1>7, <1>8 DEF Router!Next, Router!Pump

\* handleIncomingMessage routes by ws.GetProtocol(): the version that another
\* connection of the charge point has stored never decides who takes a message.
THEOREM OwnHandlers == Router!Spec => []HandledByOwnProtocol
  <1>1. RouteInv => HandledByOwnProtocol
      BY DEF RouteInv, HandledByOwnProtocol, Router!HandledByOwnProtocol, Versions, Router!Versions,
             OCPP16, Router!OCPP16, OCPP201, Router!OCPP201, OCPP21, Router!OCPP21
  <1> QED
      BY RouteInit, RouteStep, <1>1, PTL DEF Router!Spec

-----------------------------------------------------------------------------
(***************************************************************************)
(* The version of a command.  Routing_stale.cfg shows that it need not be  *)
(* the one of the connection the command is delivered to.  It is the one   *)
(* of a connection, though.                                                *)
(***************************************************************************)
Spoken == \E s \in Sockets : agreed[s] = Router!OCPP201

\* A command that asks for no version is sent as 2.0.1 only to a charge point
\* that has agreed on 2.0.1 on some connection.
CommandIsSpoken ==
    delivered.kind = "command" /\ delivered.auto /\ delivered.version = Router!OCPP201 => Spoken

Chosen201(m) == m.kind = "command" /\ m.auto /\ m.version = Router!OCPP201

Message == [kind : {"answer", "command"}, auto : BOOLEAN,
            version : Router!Versions \cup {Router!Nothing, "refused"}]
Message16 == {m \in Message : ~Chosen201(m)}

\* Without a connection that agreed on it, nothing that is stored, under way or
\* delivered has the version 2.0.1 of its own accord.
Quiet == connections # Router!OCPP201 /\ routeQueue \in Seq(Message16) /\ ~Chosen201(delivered)

SpokenInv ==
    /\ RouteInv
    /\ \A s \in Sockets : routeStage[s] \in {"new", "dial"} => agreed[s] = Router!OCPP16
    /\ Spoken \/ Quiet

LEMMA SpokenInit == Router!Init => SpokenInv
  <1> SUFFICES ASSUME Router!Init PROVE SpokenInv
    OBVIOUS
  <1>1. delivered.kind # "command" /\ connections # Router!OCPP201
    BY DEF Router!Init, Router!NoDelivery, Router!Nothing, Router!UnknownVersion, Router!OCPP201
  <1>2. routeQueue \in Seq(Message16)
    BY DEF Router!Init
  <1>3. \A s \in Sockets : agreed[s] = Router!OCPP16
    BY DEF Router!Init
  <1> QED BY <1>1, <1>2, <1>3, RouteInit DEF SpokenInv, Quiet, Chosen201

\* The version a command finds for itself is the stored one or 1.6.
LEMMA CommandQuiet ==
    ASSUME Quiet, NEW f, NEW v \in Router!Versions \cup {Router!UnknownVersion}, NEW p,
           Router!HandleApiRequest(f, v, p)
    PROVE  Quiet'
  <1>1. PICK auto \in BOOLEAN : auto = (v = Router!UnknownVersion)
    OBVIOUS
  <1>2. PICK version \in Router!Versions : version = Router!BuiltAs(Router!ResolveProtocolVersion(v))
    BY DEF Router!BuiltAs, Router!Versions
  <1>3. auto => version # Router!OCPP201
    BY <1>1, <1>2 DEF Quiet, Router!BuiltAs, Router!ResolveProtocolVersion, Router!OCPP16, Router!OCPP201,
                      Router!UnknownVersion
  <1>4. [kind |-> "command", version |-> version, auto |-> auto] \in Message16
    BY <1>3 DEF Message16, Message, Chosen201
  <1>5. /\ routeQueue' = Append(routeQueue, [kind |-> "command", version |-> version, auto |-> auto])
        /\ UNCHANGED <<connections, delivered>>
    BY <1>1, <1>2 DEF Router!HandleApiRequest
  <1>6. routeQueue' \in Seq(Message16)
    BY <1>4, <1>5 DEF Quiet
  <1> QED BY <1>5, <1>6 DEF Quiet, Chosen201

\* Only an upgrade writes what a connection agreed on, and only once.
LEMMA AgreedStays ==
    ASSUME SpokenInv, [Router!Next]_(Router!vars)
    PROVE  /\ \A s \in Sockets : routeStage'[s] \in {"new", "dial"} => agreed'[s] = Router!OCPP16
           /\ Spoken => Spoken'
  <1>0. routeStage \in [Sockets -> RouteStages] /\ agreed = [s \in Sockets |-> agreed[s]]
    BY DEF SpokenInv, RouteInv
  <1>1. ASSUME NEW s \in Sockets, Router!Upgrade(s)
        PROVE  /\ \A t \in Sockets : routeStage'[t] \in {"new", "dial"} => agreed'[t] = Router!OCPP16
               /\ Spoken => Spoken'
    <2>1. routeStage[s] = "dial" /\ agreed[s] = Router!OCPP16 /\ Router!OCPP16 # Router!OCPP201
      BY <1>1 DEF Router!Upgrade, SpokenInv, Router!OCPP16, Router!OCPP201
    <2>2. \A t \in Sockets \ {s} : agreed'[t] = agreed[t] /\ routeStage'[t] = routeStage[t]
      <3> HIDE DEF Router!Negotiate
      <3> QED BY <1>0, <1>1 DEF Router!Upgrade
    <2>3. routeStage'[s] \in {"open", "closed"}
      BY <1>0, <1>1 DEF Router!Upgrade
    <2> QED BY <2>1, <2>2, <2>3 DEF SpokenInv, Spoken
  <1>2. ASSUME agreed' = agreed,
               \A s \in Sockets : routeStage'[s] \in {"new", "dial"} => routeStage[s] \in {"new", "dial"}
        PROVE  /\ \A t \in Sockets : routeStage'[t] \in {"new", "dial"} => agreed'[t] = Router!OCPP16
               /\ Spoken => Spoken'
    BY <1>2 DEF SpokenInv, Spoken
  <1>3. ASSUME NEW s \in Sockets,
               \/ Router!HandleWsRequest(s) \/ Router!Close(s) \/ Router!Route(s) \/ Router!SendResponse(s)
               \/ \E f \in Features : Router!StoreProtocol(s, f)
        PROVE  /\ agreed' = agreed
               /\ \A t \in Sockets : routeStage'[t] \in {"new", "dial"} => routeStage[t] \in {"new", "dial"}
    <2>1. /\ agreed' = agreed
          /\ \/ routeStage[s] = "new" /\ routeStage' = [routeStage EXCEPT ![s] = "dial"]
             \/ \E st \in {"open", "parse", "handler", "closed"} : routeStage' = [routeStage EXCEPT ![s] = st]
      BY <1>3 DEF Router!HandleWsRequest, Router!Close, Router!Route, Router!SendResponse,
                  Router!StoreProtocol
    <2> QED BY <1>0, <2>1
  <1>4. ASSUME \/ Router!Deliver \/ UNCHANGED Router!vars
               \/ \E f \in Commands, v \in Router!Versions \cup {Router!UnknownVersion}, p \in Payloads :
                      Router!HandleApiRequest(f, v, p)
        PROVE  agreed' = agreed /\ routeStage' = routeStage
    BY <1>4 DEF Router!Deliver, Router!vars, Router!HandleApiRequest
  <1>5. CASE \E s \in Sockets : Router!Upgrade(s)
    BY <1>1, <1>5
  <1>6. CASE \E s \in Sockets :
               \/ Router!HandleWsRequest(s) \/ Router!Close(s) \/ Router!Route(s) \/ Router!SendResponse(s)
               \/ \E f \in Features : Router!StoreProtocol(s, f)
    BY <1>2, <1>3, <1>6
  <1>7. CASE \/ Router!Deliver \/ UNCHANGED Router!vars
             \/ \E f \in Commands, v \in Router!Versions \cup {Router!UnknownVersion}, p \in Payloads :
                    Router!HandleApiRequest(f, v, p)
    BY <1>2, <1>4, <1>7
  <1> QED BY <1>5, <1>6, <1>7 DEF Router!Next, Router!Pump

LEMMA QuietStep == ASSUME SpokenInv, [Router!Next]_(Router!vars), ~Spoken, ~Spoken' PROVE Quiet'
  <1>0. Quiet /\ handled \in [Sockets -> Router!Versions \cup {Router!Nothing, "refused"}]
    BY DEF SpokenInv, RouteInv
  <1>1. ASSUME UNCHANGED <<connections, routeQueue, delivered>> PROVE Quiet'
    BY <1>0, <1>1 DEF Quiet, Chosen201
  <1>2. ASSUME NEW s \in Sockets,
               Router!HandleWsRequest(s) \/ Router!Upgrade(s) \/ Router!Route(s) \/ Router!Close(s)
        PROVE  Quiet'
    BY <1>1, <1>2 DEF Router!HandleWsRequest, Router!Upgrade, Router!Route, Router!Close
  <1>3. ASSUME NEW s \in Sockets, NEW f \in Features, Router!StoreProtocol(s, f) PROVE Quiet'
    <2>1. connections' = agreed[s] /\ UNCHANGED <<routeQueue, delivered>>
      BY <1>3 DEF Router!StoreProtocol
    <2>2. agreed[s] # Router!OCPP201
      BY DEF Spoken
    <2> QED BY <1>0, <2>1, <2>2 DEF Quiet, Chosen201
  <1>4. ASSUME NEW s \in Sockets, Router!SendResponse(s) PROVE Quiet'
    <2>1. [kind |-> "answer", version |-> handled[s], auto |-> FALSE] \in Message16
      BY <1>0 DEF Message16, Message, Chosen201
    <2>2. routeQueue' \in Seq(Message16) /\ UNCHANGED <<connections, delivered>>
      BY <1>0, <1>4, <2>1 DEF Quiet, Router!SendResponse
    <2> QED BY <1>0, <2>2 DEF Quiet, Chosen201
  <1>5. CASE Router!Deliver
    <2>1. /\ routeQueue \in Seq(Message16) /\ routeQueue # <<>> /\ routeQueue' = Tail(routeQueue)
          /\ UNCHANGED connections
      BY <1>0, <1>5 DEF Quiet, Router!Deliver
    <2>2. Head(routeQueue) \in Message16 /\ routeQueue' \in Seq(Message16)
      BY <2>1
    <2>3. ~Chosen201(delivered')
      <3>1. CASE routeClient = Router!NoSocket
        BY <1>0, <1>5, <3>1 DEF Quiet, Router!Deliver
      <3>2. CASE routeClient # Router!NoSocket
        <4>1. /\ delivered'.kind = Head(routeQueue).kind /\ delivered'.auto = Head(routeQueue).auto
              /\ delivered'.version = Head(routeQueue).version
          BY <1>5, <3>2 DEF Router!Deliver
        <4> QED BY <2>2, <4>1 DEF Message16, Chosen201
      <3> QED BY <3>1, <3>2
    <2> QED BY <1>0, <2>1, <2>2, <2>3 DEF Quiet, Chosen201
  <1>6. CASE UNCHANGED Router!vars
    BY <1>1, <1>6 DEF Router!vars
  <1> QED BY <1>0, <1>2, <1>3, <1>4, <1>5, <1>6, CommandQuiet DEF Router!Next, Router!Pump

\* A charge point that has agreed on 2.0.1 on no connection never gets a 2.0.1
\* request that the sender of the command did not ask for, whatever other
\* protocols its connections have, and however reconnects, late messages and
\* deliveries overtake each other.
THEOREM CommandsAreSpoken == Router!Spec => []CommandIsSpoken
  <1>1. SpokenInv => CommandIsSpoken
    BY DEF SpokenInv, Quiet, Chosen201, CommandIsSpoken
  <1>2. SpokenInv /\ [Router!Next]_(Router!vars) => SpokenInv'
    <2> SUFFICES ASSUME SpokenInv, [Router!Next]_(Router!vars) PROVE SpokenInv'
      OBVIOUS
    <2>1. RouteInv'
      BY RouteStep DEF SpokenInv
    <2>2. /\ \A s \in Sockets : routeStage'[s] \in {"new", "dial"} => agreed'[s] = Router!OCPP16
          /\ Spoken => Spoken'
      BY AgreedStays
    <2>3. Spoken' \/ Quiet'
      BY <2>2, QuietStep
    <2> QED BY <2>1, <2>2, <2>3 DEF SpokenInv
  <1> QED BY <1>1, <1>2, SpokenInit, PTL DEF Router!Spec

-----------------------------------------------------------------------------
(***************************************************************************)
(* Charge points that speak OCPP 1.6.  What Routing_v201.cfg shows takes a *)
(* connection that agrees on 2.0.1.                                        *)
(***************************************************************************)
Speaks16 == \A offer \in Offers : Router!Negotiate(offer) = Router!OCPP16

Inv16 ==
    /\ routeStage \in [Sockets -> RouteStages]
    /\ agreed = [s \in Sockets |-> Router!OCPP16]
    /\ handled \in [Sockets -> {Router!OCPP16, Router!Nothing, "refused"}]

LEMMA Init16 == Router!Init => Inv16
  BY DEF Router!Init, Inv16, RouteStages

LEMMA Step16 == ASSUME Speaks16, Inv16, [Router!Next]_(Router!vars) PROVE Inv16'
  <1>0. /\ routeStage \in [Sockets -> RouteStages] /\ agreed = [s \in Sockets |-> Router!OCPP16]
        /\ handled \in [Sockets -> {Router!OCPP16, Router!Nothing, "refused"}]
    BY DEF Inv16
  <1>1. ASSUME NEW s \in Sockets, Router!HandleWsRequest(s) \/ Router!Close(s) \/ Router!SendResponse(s)
        PROVE  Inv16'
    BY <1>1 DEF Inv16, RouteStages, Router!HandleWsRequest, Router!Close, Router!SendResponse
  <1>2. ASSUME NEW s \in Sockets, Router!Upgrade(s) PROVE Inv16'
    <2>1. agreed' = agreed
      <3>1. ASSUME NEW offer \in Offers, agreed' = [agreed EXCEPT ![s] = Router!Negotiate(offer)]
            PROVE  agreed' = agreed
        <4>1. Router!Negotiate(offer) = Router!OCPP16
          BY DEF Speaks16
        <4> QED BY <1>0, <3>1, <4>1
      <3> QED BY <1>2, <3>1 DEF Router!Upgrade
    <2> QED BY <1>2, <2>1 DEF Inv16, RouteStages, Router!Upgrade
  <1>3. ASSUME NEW s \in Sockets, NEW f \in Features, Router!StoreProtocol(s, f) PROVE Inv16'
    BY <1>3 DEF Inv16, RouteStages, Router!StoreProtocol
  <1>4. ASSUME NEW s \in Sockets, Router!Route(s) PROVE Inv16'
    <2>1. PICK taken \in BOOLEAN :
            /\ handled' = [handled EXCEPT ![s] = IF taken THEN Router!OCPP16 ELSE "refused"]
            /\ routeStage' = [routeStage EXCEPT ![s] = IF taken THEN "handler" ELSE "open"]
            /\ agreed' = agreed
      BY <1>0, <1>4 DEF Router!Route, Router!ProtocolOf
    <2> QED BY <2>1 DEF Inv16, RouteStages
  <1>5. CASE \/ Router!Deliver \/ UNCHANGED Router!vars
             \/ \E f \in Commands, v \in Router!Versions \cup {Router!UnknownVersion}, p \in Payloads :
                    Router!HandleApiRequest(f, v, p)
    BY <1>5 DEF Inv16, Router!Deliver, Router!vars, Router!HandleApiRequest
  <1> QED BY <1>1, <1>2, <1>3, <1>4, <1>5 DEF Router!Next, Router!Pump

\* A message that can be routed has been taken by the handlers of 1.6, unless it is
\* still being parsed; a connection that is not open yet has none.
Served16 ==
    /\ Inv16 /\ message \in [Sockets -> Features \cup {Router!Nothing}]
    /\ \A s \in Sockets :
          /\ routeStage[s] \in {"new", "dial"} => message[s] = Router!Nothing
          /\ routeStage[s] \in {"open", "handler"} /\ message[s] \in Router!Routed16
                => handled[s] = Router!OCPP16

LEMMA Routed == Router!Routes(Router!OCPP16) = Router!Routed16
  <1>1. Router!OCPP16 # Router!OCPP201
    BY DEF Router!OCPP16, Router!OCPP201
  <1> HIDE DEF Router!OCPP16, Router!OCPP201, Router!Routed16, Router!Routed201
  <1> QED BY <1>1 DEF Router!Routes

LEMMA ServedInit == Router!Init => Served16
  <1> SUFFICES ASSUME Router!Init PROVE Served16
    OBVIOUS
  <1>1. message \in [Sockets -> Features \cup {Router!Nothing}]
    BY DEF Router!Init
  <1>2. \A s \in Sockets : routeStage[s] = "new" /\ message[s] = Router!Nothing
    BY DEF Router!Init
  <1> QED BY <1>1, <1>2, Init16 DEF Served16

LEMMA ServedStep ==
    ASSUME Speaks16, WellFormed \subseteq {TRUE}, Served16, [Router!Next]_(Router!vars)
    PROVE  Served16'
  <1>0. Inv16' /\ Router!Nothing \notin Router!Routed16
    BY Step16 DEF Served16, Router!Nothing, Router!Routed16
  <1>t. /\ routeStage \in [Sockets -> RouteStages] /\ agreed = [s \in Sockets |-> Router!OCPP16]
        /\ handled \in [Sockets -> {Router!OCPP16, Router!Nothing, "refused"}]
    BY DEF Served16, Inv16
  <1>1. ASSUME NEW s \in Sockets, Router!HandleWsRequest(s) \/ Router!Close(s) \/ Router!SendResponse(s)
        PROVE  Served16'
    <2>1. /\ message' = message /\ handled' = handled
          /\ \/ routeStage[s] = "new" /\ routeStage' = [routeStage EXCEPT ![s] = "dial"]
             \/ routeStage[s] = "open" /\ routeStage' = [routeStage EXCEPT ![s] = "closed"]
             \/ routeStage[s] = "handler" /\ routeStage' = [routeStage EXCEPT ![s] = "open"]
      BY <1>1 DEF Router!HandleWsRequest, Router!Close, Router!SendResponse
    <2> QED BY <1>0, <1>t, <2>1 DEF Served16
  <1>2. ASSUME NEW s \in Sockets, Router!Upgrade(s) PROVE Served16'
    <2>1. /\ message' = message /\ handled' = handled /\ routeStage[s] = "dial"
          /\ \/ routeStage' = [routeStage EXCEPT ![s] = "open"]
             \/ routeStage' = [routeStage EXCEPT ![s] = "closed"]
      BY <1>2 DEF Router!Upgrade
    <2> QED BY <1>0, <1>t, <2>1 DEF Served16
  <1>3. ASSUME NEW s \in Sockets, NEW f \in Features, Router!StoreProtocol(s, f) PROVE Served16'
    <2>1. /\ message' = [message EXCEPT ![s] = f] /\ routeStage' = [routeStage EXCEPT ![s] = "parse"]
          /\ handled' = [handled EXCEPT ![s] = Router!Nothing]
      BY <1>3 DEF Router!StoreProtocol
    <2> QED BY <1>0, <1>t, <2>1 DEF Served16
  <1>4. ASSUME NEW s \in Sockets, Router!Route(s) PROVE Served16'
    <2>1. PICK taken \in BOOLEAN :
            /\ message[s] \in Router!Routed16 => taken
            /\ handled' = [handled EXCEPT ![s] = IF taken THEN Router!OCPP16 ELSE "refused"]
            /\ routeStage' = [routeStage EXCEPT ![s] = IF taken THEN "handler" ELSE "open"]
            /\ message' = message
      <3>1. agreed[s] = Router!OCPP16 /\ Router!Routes(Router!OCPP16) = Router!Routed16
        BY <1>t, Routed
      <3>2. \A wellFormed \in WellFormed : wellFormed
        OBVIOUS
      <3>3. message[s] \in Router!Routed16 => Router!GetTypes(Router!OCPP16, message[s])
        BY DEF Router!GetTypes, Router!Registered16
      <3> HIDE DEF Router!Routes, Router!GetTypes
      <3> QED BY <1>4, <3>1, <3>2, <3>3 DEF Router!Route, Router!ProtocolOf, Router!ParseRequestVersionAware
    <2> QED BY <1>0, <1>t, <2>1 DEF Served16
  <1>5. CASE \/ Router!Deliver \/ UNCHANGED Router!vars
             \/ \E f \in Commands, v \in Router!Versions \cup {Router!UnknownVersion}, p \in Payloads :
                    Router!HandleApiRequest(f, v, p)
    <2>1. UNCHANGED <<routeStage, message, handled>>
      BY <1>5 DEF Router!Deliver, Router!vars, Router!HandleApiRequest
    <2> QED BY <1>0, <2>1 DEF Served16
  <1> QED BY <1>1, <1>2, <1>3, <1>4, <1>5 DEF Router!Next, Router!Pump

\* A well-formed message of a charge point that speaks 1.6 is taken by a handler
\* whenever the switches know its action: everything that is routed is
\* registered.
THEOREM Served ==
    ASSUME Speaks16, WellFormed \subseteq {TRUE}
    PROVE  Router!Spec => []Router!AgreedProtocolIsServed
  <1>1. Served16 => Router!AgreedProtocolIsServed
    <2> SUFFICES ASSUME Served16, NEW s \in Sockets, routeStage[s] = "open",
                        message[s] \in Router!Routes(agreed[s])
                 PROVE  handled[s] = agreed[s]
      BY DEF Router!AgreedProtocolIsServed
    <2>1. agreed[s] = Router!OCPP16 /\ Router!Routes(Router!OCPP16) = Router!Routed16
      BY Routed DEF Served16, Inv16
    <2> QED BY <2>1 DEF Served16
  <1>2. Served16 /\ [Router!Next]_(Router!vars) => Served16'
    BY ServedStep
  <1> QED BY <1>1, <1>2, ServedInit, PTL DEF Router!Spec
=============================================================================
