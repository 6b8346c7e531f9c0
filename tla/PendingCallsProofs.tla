------------------------- MODULE PendingCallsProofs -------------------------
(***************************************************************************)
(* Proofs about PendingCalls, for any number of calls and read pumps.      *)
(***************************************************************************)
EXTENDS PendingCalls, FiniteSetTheorems, TLAPS

LEMMA ReadingIsPump == Reading \in Pump /\ Reading.pc = "read"
  BY DEF Reading, Pump

LEMMA TypeInit == Init => TypeOK
  BY CallsAssumption, ReadingIsPump DEF Init, TypeOK, CallerStates

LEMMA TypeStep == TypeOK /\ [Next]_vars => TypeOK'
  <1> SUFFICES ASSUME TypeOK, [Next]_vars PROVE TypeOK'
    OBVIOUS
  <1> USE CallsAssumption DEF TypeOK, CallerStates
  <1>1. CASE UNCHANGED vars
    BY <1>1 DEF vars
  <1>2. ASSUME NEW u \in Calls,
               Refuse(u) \/ SendRequestWithResponse(u) \/ MarkFireAndForget(u)
        PROVE  TypeOK'
    BY <1>2 DEF Refuse, SendRequestWithResponse, MarkFireAndForget
  <1>3. ASSUME NEW u \in Calls, CallerStep(u) PROVE TypeOK'
    BY <1>3 DEF CallerStep, Enqueue, Receive, Timeout, ReleasePending
  <1>4. ASSUME NEW u \in Calls, Deliver(u) PROVE TypeOK'
    BY <1>4 DEF Deliver
  <1>5. ASSUME NEW p \in Pumps, ReadMessage(p) PROVE TypeOK'
    <2>1. PICK u \in Calls : /\ answers[u] > 0
                             /\ answers' = [answers EXCEPT ![u] = @ - 1]
                             /\ pump' = [pump EXCEPT ![p] = [pc |-> "lookup", u |-> u]]
      BY <1>5 DEF ReadMessage
    <2>2. pump' \in [Pumps -> Pump] /\ \A q \in Pumps : pump'[q].pc # "read" => pump'[q].u \in Calls
      BY <2>1 DEF Pump
    <2>3. answers' \in [Calls -> 0..MaxAnswers]
      BY <2>1
    <2> QED BY <1>5, <2>2, <2>3 DEF ReadMessage
  <1>6. ASSUME NEW p \in Pumps, ResolveResponse(p) PROVE TypeOK'
    <2>1. pump' \in [Pumps -> Pump] /\ \A q \in Pumps : pump'[q].pc # "read" => pump'[q].u \in Calls
      BY <1>6, ReadingIsPump DEF ResolveResponse, Pump
    <2> QED BY <1>6, <2>1 DEF ResolveResponse
  <1>7. ASSUME NEW p \in Pumps, HandOver(p) PROVE TypeOK'
    <2>1. pump' \in [Pumps -> Pump] /\ \A q \in Pumps : pump'[q].pc # "read" => pump'[q].u \in Calls
      BY <1>7, ReadingIsPump DEF HandOver
    <2> QED BY <1>7, <2>1 DEF HandOver
  <1>8. CASE Reconnect
    BY <1>8 DEF Reconnect
  <1> QED BY <1>1, <1>2, <1>3, <1>4, <1>5, <1>6, <1>7, <1>8 DEF Next, PumpStep

\* The map is the set of the callers that still listen: every step of a caller
\* that moves it in or out moves its entry too.
THEOREM ListenersAreFound == Spec => []PendingAreListening
  <1>1. Init => PendingAreListening
    BY DEF Init, PendingAreListening
  <1>2. TypeOK /\ PendingAreListening /\ [Next]_vars => PendingAreListening'
    <2> SUFFICES ASSUME TypeOK, PendingAreListening, [Next]_vars PROVE PendingAreListening'
      OBVIOUS
    <2> USE DEF TypeOK, PendingAreListening
    <2>1. CASE UNCHANGED vars
      BY <2>1 DEF vars
    <2>2. ASSUME NEW u \in Calls,
                 Refuse(u) \/ SendRequestWithResponse(u) \/ MarkFireAndForget(u)
          PROVE  PendingAreListening'
      BY <2>2 DEF Refuse, SendRequestWithResponse, MarkFireAndForget
    <2>3. ASSUME NEW u \in Calls, CallerStep(u) PROVE PendingAreListening'
      BY <2>3 DEF CallerStep, Enqueue, Receive, Timeout, ReleasePending
    <2>4. CASE UNCHANGED <<pending, caller>>
      BY <2>4
    <2>5. (\E u \in Calls : Deliver(u)) \/ (\E p \in Pumps : PumpStep(p)) \/ Reconnect
          => UNCHANGED <<pending, caller>>
      BY DEF Deliver, PumpStep, ReadMessage, ResolveResponse, HandOver, Reconnect
    <2> QED BY <2>1, <2>2, <2>3, <2>4, <2>5 DEF Next
  <1> QED BY <1>1, <1>2, TypeInit, TypeStep, PTL DEF Spec

-----------------------------------------------------------------------------
(***************************************************************************)
(* The channel of a call has room for one payload.  That is enough if the  *)
(* charge point answers each call at most once: the one answer is with the *)
(* charge point, or with one pump, or in the channel, or gone.             *)
(***************************************************************************)
Handling(p, u) == pump[p].pc # "read" /\ pump[p].u = u
Unanswered(u) == answers[u] = 0 /\ buffer[u] = 0 /\ \A p \in Pumps : ~Handling(p, u)

OneAnswer ==
    /\ \A u \in Calls : caller[u] \in {"idle", "queue", "post"} => u \notin queued
    /\ \A u \in Calls : caller[u] \in {"idle", "queue", "post"} \/ u \in queued => Unanswered(u)
    /\ \A u \in Calls : answers[u] > 0 => buffer[u] = 0 /\ \A p \in Pumps : ~Handling(p, u)
    /\ \A u \in Calls, p \in Pumps : Handling(p, u) => buffer[u] = 0
    /\ \A u \in Calls, p, q \in Pumps : Handling(p, u) /\ Handling(q, u) => p = q

LEMMA OneAnswerInit == Init => OneAnswer
  BY ReadingIsPump DEF Init, OneAnswer, Unanswered, Handling

LEMMA OneAnswerStep ==
    ASSUME MaxAnswers <= 1, TypeOK, OneAnswer, [Next]_vars
    PROVE  OneAnswer'
  <1> USE CallsAssumption DEF TypeOK, OneAnswer, Unanswered, Handling
  <1>1. CASE UNCHANGED vars
    BY <1>1 DEF vars
  <1>2. ASSUME NEW u \in Calls,
               Refuse(u) \/ SendRequestWithResponse(u) \/ MarkFireAndForget(u)
        PROVE  OneAnswer'
    BY <1>2 DEF Refuse, SendRequestWithResponse, MarkFireAndForget
  <1>3. ASSUME NEW u \in Calls, CallerStep(u) PROVE OneAnswer'
    <2>1. CASE Enqueue(u)
      BY <2>1 DEF Enqueue
    <2>2. CASE Receive(u)
      BY <2>2 DEF Receive
    <2>3. CASE Timeout(u) \/ ReleasePending(u)
      BY <2>3 DEF Timeout, ReleasePending
    <2> QED BY <1>3, <2>1, <2>2, <2>3 DEF CallerStep
  <1>4. ASSUME NEW u \in Calls, Deliver(u) PROVE OneAnswer'
    BY <1>4 DEF Deliver
  <1>5. ASSUME NEW p \in Pumps, ReadMessage(p) PROVE OneAnswer'
    <2>1. PICK u \in Calls : /\ answers[u] > 0
                             /\ answers' = [answers EXCEPT ![u] = @ - 1]
                             /\ pump' = [pump EXCEPT ![p] = [pc |-> "lookup", u |-> u]]
      BY <1>5 DEF ReadMessage
    <2>2. answers[u] = 1 /\ answers'[u] = 0
      BY <2>1
    <2> QED BY <1>5, <2>1, <2>2 DEF ReadMessage
  <1>6. ASSUME NEW p \in Pumps, ResolveResponse(p) PROVE OneAnswer'
    <2>1. \A q \in Pumps, u \in Calls : Handling(q, u)' => Handling(q, u)
      BY <1>6, ReadingIsPump DEF ResolveResponse, Pump
    <2> QED BY <1>6, <2>1 DEF ResolveResponse
  <1>7. ASSUME NEW p \in Pumps, HandOver(p) PROVE OneAnswer'
    <2> DEFINE v == pump[p].u
    <2>1. v \in Calls /\ Handling(p, v)
      BY <1>7 DEF HandOver
    <2>2. \A q \in Pumps, u \in Calls : Handling(q, u)' => Handling(q, u) /\ q # p
      BY <1>7, ReadingIsPump DEF HandOver
    <2>3. \A u \in Calls : buffer'[u] > 0 => u = v \/ buffer[u] > 0
      BY <1>7 DEF HandOver
    <2>4. answers[v] = 0 /\ v \notin queued /\ caller[v] \notin {"idle", "queue", "post"}
      BY <2>1
    <2> QED BY <1>7, <2>1, <2>2, <2>3, <2>4 DEF HandOver
  <1>8. CASE Reconnect
    BY <1>8 DEF Reconnect
  <1> QED BY <1>1, <1>2, <1>3, <1>4, <1>5, <1>6, <1>7, <1>8 DEF Next, PumpStep

\* With at most one answer to a call, no read pump is ever stuck before a full
\* channel, whenever its caller gives up.
THEOREM NoPumpWedged ==
    ASSUME MaxAnswers <= 1
    PROVE  Spec => []PumpNotWedged
  <1>1. TypeOK /\ OneAnswer => PumpNotWedged
    BY DEF TypeOK, OneAnswer, Handling, PumpNotWedged
  <1>2. TypeOK /\ OneAnswer /\ [Next]_vars => TypeOK' /\ OneAnswer'
    BY TypeStep, OneAnswerStep
  <1> QED BY <1>1, <1>2, TypeInit, OneAnswerInit, PTL DEF Spec

-----------------------------------------------------------------------------
\* What markFireAndForget and ResolveResponse do to a bounded set of ids.
LEMMA BoundedChange ==
    ASSUME NEW S, NEW u, IsFiniteSet(S), Cardinality(S) <= MaxForget
    PROVE  /\ IsFiniteSet(S \ {u}) /\ Cardinality(S \ {u}) <= MaxForget
           /\ Cardinality(S) < MaxForget
                => IsFiniteSet(S \cup {u}) /\ Cardinality(S \cup {u}) <= MaxForget
           /\ \A id \in S : /\ IsFiniteSet((S \ {id}) \cup {u})
                           /\ Cardinality((S \ {id}) \cup {u}) <= MaxForget
  <1> USE CallsAssumption
  <1>1. Cardinality(S) \in Nat
    BY FS_CardinalityType
  <1>2. /\ IsFiniteSet(S \ {u})
        /\ Cardinality(S \ {u}) = IF u \in S THEN Cardinality(S) - 1 ELSE Cardinality(S)
    BY FS_RemoveElement
  <1>3. /\ IsFiniteSet(S \cup {u})
        /\ Cardinality(S \cup {u}) = IF u \in S THEN Cardinality(S) ELSE Cardinality(S) + 1
    BY FS_AddElement
  <1>4. ASSUME NEW id \in S
        PROVE  /\ IsFiniteSet((S \ {id}) \cup {u})
               /\ Cardinality((S \ {id}) \cup {u}) <= MaxForget
    <2> DEFINE R == S \ {id}
    <2>1. IsFiniteSet(R) /\ Cardinality(R) = Cardinality(S) - 1
      BY FS_RemoveElement
    <2> HIDE DEF R
    <2>2. /\ IsFiniteSet(R \cup {u})
          /\ Cardinality(R \cup {u}) = IF u \in R THEN Cardinality(R) ELSE Cardinality(R) + 1
      BY <2>1, FS_AddElement
    <2>3. Cardinality(R \cup {u}) <= MaxForget
      BY <1>1, <2>1, <2>2
    <2> QED BY <2>2, <2>3 DEF R
  <1> QED BY <1>1, <1>2, <1>3, <1>4

\* The fire-and-forget set stays within maxFireAndForget, however many charge
\* points never answer: an id is entered only in exchange for another when the
\* set is full.
THEOREM ForgetIsBounded == Spec => []ForgetBounded
  <1>1. Init => ForgetBounded
    BY FS_EmptySet, CallsAssumption DEF Init, ForgetBounded
  <1>2. ForgetBounded /\ [Next]_vars => ForgetBounded'
    <2> SUFFICES ASSUME ForgetBounded, [Next]_vars PROVE ForgetBounded'
      OBVIOUS
    <2> USE DEF ForgetBounded
    <2>1. CASE UNCHANGED forget
      BY <2>1
    <2>2. ASSUME NEW u \in Calls, MarkFireAndForget(u) PROVE ForgetBounded'
      <3>1. CASE Cardinality(forget) >= MaxForget
        <4>1. PICK id \in forget : forget' = (forget \ {id}) \cup {u}
          BY <2>2, <3>1 DEF MarkFireAndForget
        <4> QED BY <4>1, BoundedChange
      <3>2. CASE ~(Cardinality(forget) >= MaxForget)
        <4>1. forget' = forget \cup {u}
          BY <2>2, <3>2 DEF MarkFireAndForget
        <4>2. Cardinality(forget) < MaxForget
          BY <3>2, FS_CardinalityType, CallsAssumption
        <4> QED BY <4>1, <4>2, BoundedChange
      <3> QED BY <3>1, <3>2
    <2>3. ASSUME NEW p \in Pumps, ResolveResponse(p) PROVE ForgetBounded'
      <3>1. forget' = forget \/ forget' = forget \ {pump[p].u}
        BY <2>3 DEF ResolveResponse
      <3> QED BY <3>1, BoundedChange
    <2> QED BY <2>1, <2>2, <2>3
            DEF Next, vars, Refuse, SendRequestWithResponse, CallerStep, Enqueue, Receive,
                Timeout, ReleasePending, Deliver, PumpStep, ReadMessage, HandOver, Reconnect
  <1> QED BY <1>1, <1>2, PTL DEF Spec
=============================================================================
