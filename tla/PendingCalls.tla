---------------------------- MODULE PendingCalls ----------------------------
(***************************************************************************)
(* Calls from the central system to a charge point and their answers       *)
(* (server/server.go).  Every call has a fresh unique id.  A caller that   *)
(* wants the answer registers a channel with room for one payload under    *)
(* that id and then waits for the channel or for its deadline; a caller    *)
(* that does not leaves the id in a bounded set so that the answer can be  *)
(* dropped in silence.  The answers come in on the read pumps of the       *)
(* connections, which do nothing else while they hand one over.            *)
(*                                                                         *)
(* pendingMutex guards the map and the set; a pump looks its channel up    *)
(* under the lock and sends on it after the lock is gone.                  *)
(***************************************************************************)
EXTENDS Integers, FiniteSets

CONSTANTS
    Calls,          \* the unique ids
    Pumps,          \* read pumps: a reconnect leaves the old one running
    NoCall,
    MaxForget,      \* maxFireAndForget
    SendCap,        \* room in pool.send
    MaxAnswers      \* bound: how often a charge point answers one call

ASSUME CallsAssumption ==
    /\ MaxForget \in Nat \ {0} /\ SendCap \in Nat \ {0} /\ MaxAnswers \in Nat
    /\ NoCall \notin Calls

VARIABLES
    connected,  \* the charge point is in pool.clients
    caller,     \* where the goroutine of each call is
    pending,    \* the ids in Server.pending
    buffer,     \* payloads in the channel of each call
    forget,     \* the ids in Server.fireAndForget
    queued,     \* the requests in pool.send
    answers,    \* answers the charge point has still to send
    pump        \* what each read pump is doing

vars == <<connected, caller, pending, buffer, forget, queued, answers, pump>>

\* A caller: "idle" - "queue" (registered) - "wait" - "leave" - "done", or
\* "idle" - "post" (marked) - "done".
CallerStates == {"idle", "queue", "wait", "leave", "post", "done"}
Reading == [pc |-> "read", u |-> NoCall]
Pump == [pc : {"read", "lookup", "send"}, u : Calls \cup {NoCall}]

(***************************************************************************)
(* Callers.                                                                *)
(***************************************************************************)
\* recipientAvailable says no: the call fails at once.
Refuse(u) ==
    /\ caller[u] = "idle"
    /\ ~connected
    /\ caller' = [caller EXCEPT ![u] = "done"]
    /\ UNCHANGED <<connected, pending, buffer, forget, queued, answers, pump>>

\* SendRequestWithResponse: registered first, queued in the next step.
SendRequestWithResponse(u) ==
    /\ caller[u] = "idle"
    /\ connected
    /\ pending' = pending \cup {u}
    /\ caller' = [caller EXCEPT ![u] = "queue"]
    /\ UNCHANGED <<connected, buffer, forget, queued, answers, pump>>

\* pool.send <- env, which waits for room.
Enqueue(u) ==
    /\ caller[u] \in {"queue", "post"}
    /\ Cardinality(queued) < SendCap
    /\ queued' = queued \cup {u}
    /\ caller' = [caller EXCEPT ![u] = IF @ = "queue" THEN "wait" ELSE "done"]
    /\ UNCHANGED <<connected, pending, buffer, forget, answers, pump>>

\* The select of SendRequestSync and of sendProfile: either side, when both
\* are ready.
Receive(u) ==
    /\ caller[u] = "wait"
    /\ buffer[u] > 0
    /\ buffer' = [buffer EXCEPT ![u] = @ - 1]
    /\ caller' = [caller EXCEPT ![u] = "leave"]
    /\ UNCHANGED <<connected, pending, forget, queued, answers, pump>>

Timeout_NoRelease(u) ==
    /\ caller[u] = "wait"
    /\ caller' = [caller EXCEPT ![u] = "done"]
    /\ UNCHANGED <<connected, pending, buffer, forget, queued, answers, pump>>
Timeout_Resend(u) ==
    /\ caller[u] = "wait"
    /\ \/ caller' = [caller EXCEPT ![u] = "leave"] /\ UNCHANGED queued
       \/ queued' = queued \cup {u} /\ UNCHANGED caller
    /\ UNCHANGED <<connected, pending, buffer, forget, answers, pump>>
Timeout_Never(u) == caller[u] = "wait" /\ FALSE /\ UNCHANGED vars
Timeout(u) ==
    /\ caller[u] = "wait"
    /\ caller' = [caller EXCEPT ![u] = "leave"]
    /\ UNCHANGED <<connected, pending, buffer, forget, queued, answers, pump>>

\* The deferred release.
ReleasePending(u) ==
    /\ caller[u] = "leave"
    /\ pending' = pending \ {u}
    /\ caller' = [caller EXCEPT ![u] = "done"]
    /\ UNCHANGED <<connected, buffer, forget, queued, answers, pump>>

\* SendRequest marks the id; a full set loses an arbitrary one first.
MarkFireAndForget(u) ==
    /\ caller[u] = "idle"
    /\ connected
    /\ IF Cardinality(forget) >= MaxForget
       THEN \E id \in forget : forget' = (forget \ {id}) \cup {u}
       ELSE forget' = forget \cup {u}
    /\ caller' = [caller EXCEPT ![u] = "post"]
    /\ UNCHANGED <<connected, pending, buffer, queued, answers, pump>>

(***************************************************************************)
(* The pool and the charge point.                                          *)
(***************************************************************************)
\* Pool.Start takes a request: it reaches the charge point, which answers it
\* n times, or it is dropped because the recipient is gone.  CallErrors and
\* silence count as no answer: nobody is told.
Deliver(u) ==
    /\ u \in queued
    /\ queued' = queued \ {u}
    /\ \E n \in 0..MaxAnswers : /\ n > 0 => connected
                                /\ answers' = [answers EXCEPT ![u] = n]
    /\ UNCHANGED <<connected, caller, pending, buffer, forget, pump>>

Reconnect ==
    /\ connected' = ~connected
    /\ UNCHANGED <<caller, pending, buffer, forget, queued, answers, pump>>

(***************************************************************************)
(* Read pumps.                                                             *)
(***************************************************************************)
ReadMessage(p) ==
    /\ pump[p] = Reading
    /\ \E u \in Calls :
          /\ answers[u] > 0
          /\ answers' = [answers EXCEPT ![u] = @ - 1]
          /\ pump' = [pump EXCEPT ![p] = [pc |-> "lookup", u |-> u]]
    /\ UNCHANGED <<connected, caller, pending, buffer, forget, queued>>

\* ResolveResponse, the part under the lock.
ResolveResponse(p) ==
    /\ pump[p].pc = "lookup"
    /\ IF pump[p].u \in pending
       THEN pump' = [pump EXCEPT ![p].pc = "send"] /\ UNCHANGED forget
       ELSE pump' = [pump EXCEPT ![p] = Reading] /\ forget' = forget \ {pump[p].u}
    /\ UNCHANGED <<connected, caller, pending, buffer, queued, answers>>

\* channel <- payload: the channel has room for one.
HandOver(p) ==
    /\ pump[p].pc = "send"
    /\ buffer[pump[p].u] = 0
    /\ buffer' = [buffer EXCEPT ![pump[p].u] = 1]
    /\ pump' = [pump EXCEPT ![p] = Reading]
    /\ UNCHANGED <<connected, caller, pending, forget, queued, answers>>

-----------------------------------------------------------------------------
Init ==
    /\ connected \in BOOLEAN
    /\ caller = [u \in Calls |-> "idle"]
    /\ pending = {}
    /\ buffer = [u \in Calls |-> 0]
    /\ forget = {}
    /\ queued = {}
    /\ answers = [u \in Calls |-> 0]
    /\ pump = [p \in Pumps |-> Reading]

CallerStep(u) == \/ Enqueue(u) \/ Receive(u) \/ Timeout(u) \/ ReleasePending(u)
PumpStep(p) == ReadMessage(p) \/ ResolveResponse(p) \/ HandOver(p)

Next ==
    \/ \E u \in Calls : Refuse(u) \/ SendRequestWithResponse(u) \/ MarkFireAndForget(u)
    \/ \E u \in Calls : CallerStep(u)
    \/ \E u \in Calls : Deliver(u)
    \/ \E p \in Pumps : PumpStep(p)
    \/ Reconnect

Spec == Init /\ [][Next]_vars

\* Goroutines run on, the pool drains its queue and deadlines pass.  Room in
\* pool.send comes and goes as callers compete for it, hence SF.
FairSpec ==
    /\ Spec
    /\ \A u \in Calls : SF_vars(Enqueue(u)) /\ WF_vars(Timeout(u)) /\ WF_vars(ReleasePending(u))
    /\ \A u \in Calls : WF_vars(Deliver(u))
    /\ \A p \in Pumps : WF_vars(ResolveResponse(p)) /\ WF_vars(HandOver(p))

-----------------------------------------------------------------------------
\* Every variable has its type, a channel never holds more than one payload,
\* and a pump that is handling an answer knows its call.
TypeOK ==
    /\ connected \in BOOLEAN
    /\ caller \in [Calls -> CallerStates]
    /\ pending \subseteq Calls
    /\ buffer \in [Calls -> 0..1]
    /\ forget \subseteq Calls
    /\ queued \subseteq Calls
    /\ answers \in [Calls -> 0..MaxAnswers]
    /\ pump \in [Pumps -> Pump]
    /\ \A p \in Pumps : pump[p].pc # "read" => pump[p].u \in Calls

\* The map holds the callers that still listen and nobody else: an answer that
\* comes in before its caller has given up finds it, and no entry leaks.
PendingAreListening ==
    pending = {u \in Calls : caller[u] \in {"queue", "wait", "leave"}}

\* A caller that has already given up waiting cannot wedge a read pump: no pump
\* stands before a full channel that nobody will empty.
PumpNotWedged ==
    \A p \in Pumps :
        pump[p].pc = "send" /\ buffer[pump[p].u] > 0 => caller[pump[p].u] \in {"queue", "wait"}

\* Charge points that drop off between a request and its answer cannot make
\* the set of fire-and-forget ids grow beyond its limit (markFireAndForget).
ForgetBounded == IsFiniteSet(forget) /\ Cardinality(forget) <= MaxForget

\* Every call returns: with the answer, or at its deadline.
CallReturns == \A u \in Calls : caller[u] # "idle" ~> caller[u] = "done"

=============================================================================
