---------------------------- MODULE Connections ----------------------------
(***************************************************************************)
(* The connections of one charge point (server/server.go).  A charge point *)
(* that dials again gets a new WebSocket while the server may not have     *)
(* noticed that the old one is dead.  The pool keeps one client per id.    *)
(* Its goroutine serves, one at a time, registrations (after the upgrade   *)
(* and for every message read), removals (by id, not by socket) and        *)
(* outgoing messages.  Registrations and closes each start a goroutine     *)
(* that reports the charge point online or offline; nothing orders these.  *)
(***************************************************************************)
EXTENDS Naturals, FiniteSets

CONSTANTS
    Sockets,        \* bound: connections in the life of the charge point
    NoSocket,
    SendBuffer,     \* cap(ws.send)
    PoolBuffer,     \* cap(pool.send)
    MaxReports      \* bound: unfinished OnOnlineStatusChanged calls of a kind

ASSUME ConnectionsAssumption ==
    /\ NoSocket \notin Sockets
    /\ SendBuffer \in Nat /\ PoolBuffer \in Nat \ {0} /\ MaxReports \in Nat \ {0}

VARIABLES
    stage,      \* where the goroutine of each connection is
    up,         \* connections the charge point still has
    wire,       \* connections with a message the server has not read
    client,     \* pool.clients[id]
    queue,      \* messages in pool.send
    outbox,     \* messages in ws.send
    closedSend, \* sockets whose send channel the pool has closed
    reports,    \* OnOnlineStatusChanged calls that wait for h.mux
    online      \* is_online, in memory and in the database

vars == <<stage, up, wire, client, queue, outbox, closedSend, reports, online>>

\* "replace": handleWsRequest has found an older client.  "received": a message
\* is read, the registration is next.  "closing": in ws.close, before the removal.
Stages == {"new", "replace", "upgrade", "open", "received", "handle", "closing", "closed"}
Pumping == {"open", "received", "handle"}
Reports == {"online", "offline"}

(***************************************************************************)
(* The charge point.  It dials once it knows its old connection is gone.   *)
(***************************************************************************)
HandleWsRequest(w) ==
    /\ stage[w] = "new" /\ up = {}
    /\ up' = {w}
    /\ stage' = [stage EXCEPT ![w] = IF client = NoSocket THEN "upgrade" ELSE "replace"]
    /\ UNCHANGED <<wire, client, queue, outbox, closedSend, reports, online>>

Send(w) ==
    /\ w \in up \ wire /\ stage[w] \notin {"replace", "upgrade"}
    /\ wire' = wire \cup {w}
    /\ UNCHANGED <<stage, up, client, queue, outbox, closedSend, reports, online>>

Drop(w) ==
    /\ w \in up
    /\ up' = up \ {w}
    /\ UNCHANGED <<stage, wire, client, queue, outbox, closedSend, reports, online>>

(***************************************************************************)
(* The pool.                                                               *)
(***************************************************************************)
Report(r) ==
    /\ reports[r] < MaxReports
    /\ reports' = [reports EXCEPT ![r] = @ + 1]

\* checkAddClient leaves an older client in place.
CheckAddClient(w) ==
    /\ client' = IF client = NoSocket THEN w ELSE client
    /\ Report("online")

\* deleteClient removes whatever client has the id.
DeleteClient(w) == client' = NoSocket

Request ==
    /\ client # NoSocket /\ queue < PoolBuffer
    /\ queue' = queue + 1
    /\ UNCHANGED <<stage, up, wire, client, outbox, closedSend, reports, online>>

Room(w) == outbox[w] < SendBuffer

\* A message for a charge point without a client is dropped; a client that does
\* not keep up is removed and its channel closed.
Deliver ==
    /\ queue > 0 /\ client \notin closedSend
    /\ queue' = queue - 1
    /\ \/ client = NoSocket /\ UNCHANGED <<client, outbox, closedSend>>
       \/ /\ client # NoSocket /\ Room(client)
          /\ outbox' = [outbox EXCEPT ![client] = @ + 1]
          /\ UNCHANGED <<client, closedSend>>
       \/ /\ client # NoSocket /\ ~Room(client)
          /\ closedSend' = closedSend \cup {client}
          /\ client' = NoSocket
          /\ UNCHANGED outbox
    /\ UNCHANGED <<stage, up, wire, reports, online>>

\* A message for a client whose channel is closed: the send panics, the process
\* dies with all its connections, and the next one starts with everyone offline.
Panic ==
    /\ queue > 0 /\ client \in closedSend
    /\ stage' = [w \in Sockets |-> IF stage[w] = "new" THEN "new" ELSE "closed"]
    /\ up' = {} /\ wire' = {} /\ client' = NoSocket
    /\ queue' = 0 /\ outbox' = [w \in Sockets |-> 0] /\ closedSend' = {}
    /\ reports' = [r \in Reports |-> 0]
    /\ online' = FALSE

(***************************************************************************)
(* One connection.                                                         *)
(***************************************************************************)
Replace(w) ==
    /\ stage[w] = "replace"
    /\ DeleteClient(w)
    /\ stage' = [stage EXCEPT ![w] = "upgrade"]
    /\ UNCHANGED <<up, wire, queue, outbox, closedSend, reports, online>>

\* An upgrade that fails leaves no socket behind.
Upgrade(w) ==
    /\ stage[w] = "upgrade"
    /\ \/ CheckAddClient(w) /\ stage' = [stage EXCEPT ![w] = "open"]
       \/ w \notin up /\ stage' = [stage EXCEPT ![w] = "closed"] /\ UNCHANGED <<client, reports>>
    /\ UNCHANGED <<up, wire, queue, outbox, closedSend, online>>

\* readPump: a message, or the error that ends the connection.
ReadMessage(w) ==
    /\ stage[w] = "open"
    /\ \/ /\ w \in wire
          /\ wire' = wire \ {w}
          /\ stage' = [stage EXCEPT ![w] = "received"]
          /\ UNCHANGED reports
       \/ /\ w \notin wire /\ w \notin up
          /\ stage' = [stage EXCEPT ![w] = "closing"]
          /\ Report("offline")
          /\ UNCHANGED wire
    /\ UNCHANGED <<up, client, queue, outbox, closedSend, online>>

Register_FirstOnly(w) ==
    /\ stage[w] = "received"
    /\ stage' = [stage EXCEPT ![w] = "handle"]
    /\ Report("online")
    /\ UNCHANGED <<up, wire, client, queue, outbox, closedSend, online>>
Register(w) ==
    /\ stage[w] = "received"
    /\ CheckAddClient(w)
    /\ stage' = [stage EXCEPT ![w] = "handle"]
    /\ UNCHANGED <<up, wire, queue, outbox, closedSend, online>>

\* A call is answered through the pool; a result or an error is not.
HandleMessage(w) ==
    /\ stage[w] = "handle"
    /\ \/ queue < PoolBuffer /\ queue' = queue + 1
       \/ UNCHANGED queue
    /\ stage' = [stage EXCEPT ![w] = "open"]
    /\ UNCHANGED <<up, wire, client, outbox, closedSend, reports, online>>

Close_NoRemoval(w) ==
    /\ stage[w] = "closing"
    /\ stage' = [stage EXCEPT ![w] = "closed"]
    /\ UNCHANGED <<up, wire, client, queue, outbox, closedSend, reports, online>>
Close(w) ==
    /\ stage[w] = "closing"
    /\ DeleteClient(w)
    /\ stage' = [stage EXCEPT ![w] = "closed"]
    /\ UNCHANGED <<up, wire, queue, outbox, closedSend, reports, online>>

\* writePump: the next message goes out or fails; once a closed channel is empty
\* the charge point gets a close frame, and ends the connection.  The loop has
\* no other end: it never calls ws.close.
WritePump(w) ==
    /\ \/ outbox[w] > 0 /\ outbox' = [outbox EXCEPT ![w] = @ - 1] /\ UNCHANGED up
       \/ outbox[w] = 0 /\ w \in closedSend \cap up /\ up' = up \ {w} /\ UNCHANGED outbox
    /\ UNCHANGED <<stage, wire, client, queue, closedSend, reports, online>>

(***************************************************************************)
(* SystemHandler: the reports take h.mux in any order.                     *)
(***************************************************************************)
OnOnlineStatusChanged(r) ==
    /\ reports[r] > 0
    /\ reports' = [reports EXCEPT ![r] = @ - 1]
    /\ online' = (r = "online")
    /\ UNCHANGED <<stage, up, wire, client, queue, outbox, closedSend>>

-----------------------------------------------------------------------------
Init ==
    /\ stage = [w \in Sockets |-> "new"]
    /\ up = {} /\ wire = {} /\ client = NoSocket
    /\ queue = 0 /\ outbox = [w \in Sockets |-> 0] /\ closedSend = {}
    /\ reports = [r \in Reports |-> 0]
    /\ online = FALSE

SocketStep(w) == Replace(w) \/ Upgrade(w) \/ ReadMessage(w) \/ Register(w) \/ HandleMessage(w) \/ Close(w)

Next ==
    \/ \E w \in Sockets : \/ HandleWsRequest(w) \/ Send(w) \/ Drop(w)
                          \/ SocketStep(w) \/ WritePump(w)
    \/ Request \/ Deliver \/ Panic
    \/ \E r \in Reports : OnOnlineStatusChanged(r)

Spec == Init /\ [][Next]_vars

\* Goroutines run; the keep-alive of TCP ends the read of a dead connection; a
\* charge point that is connected goes on sending heartbeats.  The fairness of a
\* socket is strong because only the bound MaxReports and the competition for
\* pool.send, where Go serves waiters in turn, disable a step of it.
FairSpec ==
    /\ Spec
    /\ \A w \in Sockets : SF_vars(SocketStep(w)) /\ WF_vars(WritePump(w)) /\ WF_vars(Send(w))
    /\ WF_vars(Deliver \/ Panic)
    /\ \A r \in Reports : WF_vars(OnOnlineStatusChanged(r))

-----------------------------------------------------------------------------
\* Every variable has its type: the channels stay within their capacities.
TypeOK ==
    /\ stage \in [Sockets -> Stages]
    /\ up \subseteq Sockets /\ wire \subseteq Sockets
    /\ client \in Sockets \cup {NoSocket}
    /\ queue \in 0..PoolBuffer /\ outbox \in [Sockets -> 0..SendBuffer]
    /\ closedSend \subseteq Sockets
    /\ reports \in [Reports -> 0..MaxReports]
    /\ online \in BOOLEAN

\* The pool never keeps a socket whose read pump has ended: nothing that was on
\* its way in when the connection died can put it back after the removal.
ClientIsServed == client # NoSocket => stage[client] \in Pumping \cup {"closing"}

\* A charge point that stays connected ends up as the pool's client, reported
\* online and able to receive, whatever old connections of it are still to be
\* closed, and although their close removes by id and reports offline.
ReconnectSettles ==
    \A w \in Sockets :
        (w \in up) ~> (w \notin up \/ (client = w /\ w \notin closedSend /\ online))

\* A charge point that is gone for good is reported offline in the end.
OfflineIsNoticed ==
    (up = {}) ~> (up # {} \/ ~online)

=============================================================================
