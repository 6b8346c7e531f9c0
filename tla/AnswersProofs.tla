--------------------------- MODULE AnswersProofs ---------------------------
(***************************************************************************)
(* What the system answers is true, for any number of tags, handlers,      *)
(* users, configurations and failing calls: the answers to an Authorize    *)
(* (Admission) and the replies of the Telegram bot (Notifications, the     *)
(* instance Bot below, with variables of its own).  The two share no       *)
(* state; their proofs are side by side.                                   *)
(***************************************************************************)
EXTENDS Admission, Subscriptions, SequenceTheorems, TLAPS

-----------------------------------------------------------------------------
(***************************************************************************)
(* Types of Admission.  A task points into states, which only grows.       *)
(***************************************************************************)
Tasks(n) ==
    [kind : Kinds, st : Stages, id : Tags, got : Point, at : 0..n, tag : Tag,
     answer : Answers \cup {NoAnswer}, valid : BOOLEAN, status : Statuses]

LEMMA Records ==
    /\ NewPoint \in Point /\ NoTag \in Tag
    /\ \A n \in Nat : NoTask \in Tasks(n)
  <1>1. NewPoint \in Point /\ NoTag \in Tag
    BY DEF NewPoint, NoTag, Point, Tag
  <1>2. (CHOOSE t \in Tags : TRUE) \in Tags
    BY AdmissionAssumption
  <1> QED BY <1>1, <1>2 DEF NoTask, Tasks, Kinds, Locked, Stages, NoAnswer, Statuses

LEMMA TasksGrow == ASSUME NEW n \in Nat, NEW m \in Nat, n <= m PROVE Tasks(n) \subseteq Tasks(m)
  BY DEF Tasks

LEMMA Typed ==
    ASSUME TypeOK
    PROVE  /\ points \in Seq(Point) /\ states \in Seq(Point) /\ Len(states) \in Nat
           /\ current \in 0..Len(states) /\ task \in [Handlers -> Tasks(Len(states))]
           /\ points # <<>> => points[1] \in Point
           /\ conf \in Config /\ tags \in [Tags -> Seq(Tag)]
           /\ faults \in Nat /\ edits \in Nat
           /\ \A t \in Tags : tags[t] # <<>> => tags[t][1] \in Tag
  BY AdmissionAssumption DEF TypeOK, Tasks

\* The steps of a handler that change nothing but its own task.
LEMMA OwnTask ==
    ASSUME TypeOK, NEW g \in Handlers, NEW r \in Tasks(Len(states)),
           task' = [task EXCEPT ![g] = r], mux' \in {mux, g, NoHandler},
           faults' \in {faults, faults + 1}, faults' # faults => faults < MaxFaults,
           UNCHANGED <<conf, points, states, current, tags, link, edits>>
    PROVE  TypeOK'
  <1>1. task' \in [Handlers -> Tasks(Len(states))]
    BY Typed
  <1> QED BY <1>1, AdmissionAssumption DEF TypeOK, Tasks

\* A document or state that is changed in place, or not at all.
LEMMA ChangedInPlace ==
    ASSUME NEW S, NEW q \in Seq(S), NEW i \in Nat, NEW e, i \in 1..Len(q) => e \in S
    PROVE  [q EXCEPT ![i] = e] \in Seq(S) /\ Len([q EXCEPT ![i] = e]) = Len(q)
  <1>1. CASE i \in 1..Len(q)
    BY <1>1, ExceptSeq
  <1>2. CASE i \notin 1..Len(q)
    <2>1. DOMAIN q = 1..Len(q) /\ q = [j \in DOMAIN q |-> q[j]]
      OBVIOUS
    <2>2. [q EXCEPT ![i] = e] = q
      BY <1>2, <2>1
    <2> QED BY <2>2
  <1> QED BY <1>1, <1>2

\* A failing call is counted.
LEMMA Counted ==
    ASSUME TypeOK, NEW op, Works \/ Fails(op)
    PROVE  /\ faults' \in 0..MaxFaults
           /\ faults' \in {faults, faults + 1} /\ (faults' # faults => faults < MaxFaults)
  BY AdmissionAssumption DEF TypeOK, Works, Fails

LEMMA EnterTyped ==
    ASSUME TypeOK, NEW g \in Handlers, NEW kind \in Kinds, NEW t \in Tags, Enter(g, kind, t)
    PROVE  TypeOK'
  <1> DEFINE r == [NoTask EXCEPT !.kind = kind, !.id = t, !.valid = kind = "authorize" /\ Acceptable(t),
                         !.at = IF kind \in Locked THEN 0 ELSE current,
                         !.st = IF kind \in Locked THEN "lock" ELSE Lookup]
  <1>1. Lookup \in Stages /\ (kind = "authorize" /\ Acceptable(t)) \in BOOLEAN
    <2>1. CASE tags[t] = <<>>
      BY <2>1, Typed DEF Acceptable, Config, Lookup, Stages
    <2>2. CASE tags[t] # <<>>
      BY <2>2, Typed DEF Acceptable, Tag, Lookup, Stages
    <2> QED BY <2>1, <2>2
  <1>2. NoTask \in Tasks(Len(states)) /\ current \in 0..Len(states)
    BY Records, Typed
  <1> HIDE DEF Acceptable, Lookup
  <1>3. r \in Tasks(Len(states))
    <2>1. \A v \in BOOLEAN, a \in 0..Len(states), st \in Stages :
             [NoTask EXCEPT !.kind = kind, !.id = t, !.valid = v, !.at = a, !.st = st]
                \in Tasks(Len(states))
      BY <1>2 DEF Tasks
    <2>2. PICK v \in BOOLEAN : v = (kind = "authorize" /\ Acceptable(t))
      BY <1>1
    <2>3. PICK a \in 0..Len(states) : a = IF kind \in Locked THEN 0 ELSE current
      BY <1>2
    <2>4. PICK st \in Stages : st = IF kind \in Locked THEN "lock" ELSE Lookup
      BY <1>1 DEF Stages
    <2> QED BY <2>1, <2>2, <2>3, <2>4
  <1>4. /\ task' = [task EXCEPT ![g] = r]
        /\ UNCHANGED <<mux, conf, points, states, current, tags, link, faults, edits>>
    BY DEF Enter, bounds
  <1> HIDE DEF r
  <1> QED BY <1>3, <1>4, OwnTask

LEMMA ReturnTyped ==
    ASSUME TypeOK, NEW g \in Handlers, Return(g),
           faults' \in {faults, faults + 1}, faults' # faults => faults < MaxFaults,
           UNCHANGED <<conf, points, states, current, tags, link, edits>>
    PROVE  TypeOK'
  <1>1. NoTask \in Tasks(Len(states))
    BY Records, Typed
  <1>2. task' = [task EXCEPT ![g] = NoTask] /\ mux' \in {mux, g, NoHandler}
    BY DEF Return
  <1> QED BY <1>1, <1>2, OwnTask

LEMMA AnswerTyped ==
    ASSUME TypeOK, NEW g \in Handlers, NEW status \in Statuses, Answer(g, status)
    PROVE  task' \in [Handlers -> Tasks(Len(states))] /\ mux' = mux
  <1>1. NoTag \in Tag /\ task \in [Handlers -> Tasks(Len(states))] /\ 0 \in 0..Len(states)
    BY Records, Typed
  <1> QED BY <1>1 DEF Answer, Tasks, Stages

LEMMA LookupTyped ==
    ASSUME TypeOK, NEW g \in Handlers,
           GetChargePoint(g) \/ FindChargePoint(g) \/ AddChargePoint(g)
    PROVE  TypeOK'
  <1>0. task \in [Handlers -> Tasks(Len(states))] /\ current \in 0..Len(states)
    BY Typed
  <1>1. CASE GetChargePoint(g)
    <2>1. Lookup \in Stages
      BY DEF Lookup, Stages
    <2>2. task' \in [Handlers -> Tasks(Len(states))]
      BY <1>0, <1>1, <2>1 DEF GetChargePoint, Tasks
    <2> QED BY <1>1, <2>2 DEF GetChargePoint, TypeOK, Tasks, bounds
  <1>2. CASE FindChargePoint(g)
    <2>1. CASE points # <<>> /\ task' = [task EXCEPT ![g] = [@ EXCEPT !.got = points[1], !.st = "init"]] /\ UNCHANGED mux
      <3>1. task' \in [Handlers -> Tasks(Len(states))]
        <4>1. points[1] \in Point
          BY <2>1, Typed
        <4> QED BY <1>0, <2>1, <4>1 DEF Tasks, Stages
      <3> QED BY <1>2, <2>1, <3>1, Counted DEF FindChargePoint, TypeOK, Tasks
    <2>2. CASE Goto(g, "add") /\ UNCHANGED mux
      <3>1. task' \in [Handlers -> Tasks(Len(states))]
        BY <1>0, <2>2 DEF Goto, Tasks, Stages
      <3> QED BY <1>2, <2>2, <3>1, Counted DEF FindChargePoint, TypeOK, Tasks
    <2>3. CASE Answer(g, "Blocked")
      <3>1. task' \in [Handlers -> Tasks(Len(states))] /\ mux' = mux
        BY <2>3, AnswerTyped DEF Statuses
      <3> QED BY <1>2, <3>1, Counted DEF FindChargePoint, TypeOK, Tasks
    <2>4. CASE Return(g)
      BY <1>2, <2>4, ReturnTyped, Counted DEF FindChargePoint
    <2> QED BY <1>2, <2>1, <2>2, <2>3, <2>4 DEF FindChargePoint
  <1>3. CASE AddChargePoint(g)
    <2>1. task' \in [Handlers -> Tasks(Len(states))]
      BY <1>0, <1>3 DEF AddChargePoint, Goto, Tasks, Stages
    <2> QED BY <1>3, <2>1, Counted DEF AddChargePoint, TypeOK, Tasks
  <1> QED BY <1>1, <1>2, <1>3

LEMMA StatesTyped ==
    ASSUME TypeOK, NEW g \in Handlers,
           InsertChargePoint(g) \/ InitializeChargePointState(g) \/ OnOnlineStatusChanged(g)
    PROVE  TypeOK'
  <1>0. /\ task \in [Handlers -> Tasks(Len(states))] /\ states \in Seq(Point)
        /\ points \in Seq(Point) /\ task[g].got \in Point /\ NewPoint \in Point
    BY Typed, Records DEF Tasks
  <1>1. CASE InsertChargePoint(g)
    <2>1. task' \in [Handlers -> Tasks(Len(states))]
      BY <1>0, <1>1 DEF InsertChargePoint, Goto, Tasks, Stages
    <2>2. points' \in Seq(Point)
      BY <1>0, <1>1 DEF InsertChargePoint
    <2> QED BY <1>1, <2>1, <2>2, Counted DEF InsertChargePoint, TypeOK, Tasks
  <1>2. CASE InitializeChargePointState(g)
    <2>1. /\ states' \in Seq(Point) /\ Len(states') = Len(states) + 1 /\ Len(states) \in Nat
          /\ current' = Len(states')
      BY <1>0, <1>2 DEF InitializeChargePointState
    <2>2. task \in [Handlers -> Tasks(Len(states'))]
      BY <1>0, <2>1, TasksGrow
    <2>3. task' = [task EXCEPT ![g] = [@ EXCEPT !.at = Len(states'), !.got = NewPoint, !.st = "body"]]
      BY <1>2 DEF InitializeChargePointState
    <2>4. task' \in [Handlers -> Tasks(Len(states'))]
      <3>1. PICK n \in Nat : n = Len(states')
        BY <2>1
      <3>2. task \in [Handlers -> Tasks(n)] /\ n \in 0..n
        BY <2>2, <3>1
      <3>3. [task[g] EXCEPT !.at = n, !.got = NewPoint, !.st = "body"] \in Tasks(n)
        BY <1>0, <3>2 DEF Tasks, Stages
      <3> QED BY <2>3, <3>1, <3>2, <3>3
    <2> QED BY <1>2, <2>1, <2>4 DEF InitializeChargePointState, TypeOK, Tasks, bounds
  <1>3. CASE OnOnlineStatusChanged(g)
    <2>1. /\ states' \in Seq(Point) /\ Len(states') = Len(states)
          /\ points' \in Seq(Point)
      <3> DEFINE online == task[g].kind = "online"
      <3>1. online \in BOOLEAN
        OBVIOUS
      <3>2. /\ \/ states' = states
               \/ states' = [states EXCEPT ![task[g].at] = [@ EXCEPT !.online = online]]
            /\ \/ points' = points
               \/ points # <<>> /\ points' = [points EXCEPT ![1] = [@ EXCEPT !.online = online]]
        BY <1>3 DEF OnOnlineStatusChanged
      <3> HIDE DEF online
      <3>3. states' \in Seq(Point) /\ Len(states') = Len(states)
        <4>1. task[g].at \in Nat
          BY <1>0, Typed DEF Tasks
        <4>2. task[g].at \in 1..Len(states) => [states[task[g].at] EXCEPT !.online = online] \in Point
          <5>1. task[g].at \in 1..Len(states) => states[task[g].at] \in Point
            BY <1>0
          <5> QED BY <3>1, <5>1 DEF Point
        <4> QED BY <1>0, <3>2, <4>1, <4>2, ChangedInPlace
      <3>4. points' \in Seq(Point)
        <4>1. points # <<>> => [points[1] EXCEPT !.online = online] \in Point
          BY <3>1, Typed DEF Point
        <4>2. 1 \in 1..Len(points) => points # <<>>
          BY <1>0
        <4>3. CASE points' = points
          BY <1>0, <4>3
        <4>4. CASE points' = [points EXCEPT ![1] = [@ EXCEPT !.online = online]]
          BY <1>0, <4>1, <4>2, <4>4, ChangedInPlace
        <4> QED BY <3>2, <4>3, <4>4
      <3> QED BY <3>3, <3>4
    <2>2. task' = [task EXCEPT ![g] = NoTask] /\ mux' \in {mux, g, NoHandler}
      BY <1>3 DEF OnOnlineStatusChanged, Return
    <2>3. task' \in [Handlers -> Tasks(Len(states))]
      BY <1>0, <2>2, Records, Typed
    <2> QED BY <1>3, <2>1, <2>2, <2>3, Counted DEF OnOnlineStatusChanged, TypeOK, Tasks
  <1> QED BY <1>1, <1>2, <1>3

LEMMA JudgeTyped ==
    ASSUME TypeOK, NEW g \in Handlers, NEW tag \in Tag, Judge(g, tag)
    PROVE  task' \in [Handlers -> Tasks(Len(states))] /\ mux' = mux
  <1>1. task \in [Handlers -> Tasks(Len(states))] /\ 0 \in 0..Len(states) /\ conf.ocpi \in BOOLEAN
    BY Typed DEF Config
  <1>2. CASE Answer(g, "Accepted") \/ Answer(g, "Invalid")
    BY <1>2, AnswerTyped DEF Statuses
  <1>3. CASE /\ task' = [task EXCEPT ![g] = [@ EXCEPT !.tag = tag, !.st = "wait", !.at = 0]]
             /\ UNCHANGED mux
    BY <1>1, <1>3 DEF Tasks, Stages
  <1> QED BY <1>1, <1>2, <1>3 DEF Judge, Tag

LEMMA TagsTyped ==
    ASSUME TypeOK, NEW g \in Handlers,
           AuthorizeIdTag(g) \/ AddUserTag(g) \/ OcpiAnswers(g) \/ OcpiTimeout(g)
    PROVE  TypeOK'
  <1>0. /\ task \in [Handlers -> Tasks(Len(states))] /\ tags \in [Tags -> Seq(Tag)]
        /\ task[g].id \in Tags /\ task[g].tag \in Tag /\ 0 \in 0..Len(states)
        /\ conf.acceptTags \in BOOLEAN /\ NoTag \in Tag
    BY Typed, Records DEF Tasks, Config
  <1>1. CASE AuthorizeIdTag(g)
    <2>1. task' \in [Handlers -> Tasks(Len(states))] /\ mux' = mux
      <3>1. CASE Answer(g, "Blocked")
        BY <3>1, AnswerTyped DEF Statuses
      <3>2. CASE tags[task[g].id] # <<>> /\ Judge(g, tags[task[g].id][1])
        <4>1. tags[task[g].id][1] \in Tag
          BY <1>0, <3>2, Typed
        <4> QED BY <3>2, <4>1, JudgeTyped
      <3>3. CASE /\ task' = [task EXCEPT ![g] = [@ EXCEPT !.tag = [enabled |-> conf.acceptTags, owned |-> FALSE],
                                                         !.st = "newTag", !.at = 0]]
                 /\ UNCHANGED mux
        <4>1. PICK tag \in Tag : tag = [enabled |-> conf.acceptTags, owned |-> FALSE]
          BY <1>0 DEF Tag
        <4>2. [task[g] EXCEPT !.tag = tag, !.st = "newTag", !.at = 0] \in Tasks(Len(states))
          BY <1>0 DEF Tasks, Stages
        <4> QED BY <1>0, <3>3, <4>1, <4>2
      <3> QED BY <1>1, <3>1, <3>2, <3>3 DEF AuthorizeIdTag, GetUserTag
    <2> QED BY <1>1, <2>1, Counted DEF AuthorizeIdTag, GetUserTag, TypeOK, Tasks
  <1>2. CASE AddUserTag(g)
    <2>1. task' \in [Handlers -> Tasks(Len(states))] /\ mux' = mux
      BY <1>0, <1>2, JudgeTyped DEF AddUserTag
    <2>2. tags' \in [Tags -> Seq(Tag)]
      <3>1. Append(tags[task[g].id], task[g].tag) \in Seq(Tag)
        BY <1>0
      <3> QED BY <1>0, <1>2, <3>1 DEF AddUserTag
    <2> QED BY <1>2, <2>1, <2>2, Counted DEF AddUserTag, TypeOK, Tasks
  <1>3. CASE OcpiAnswers(g)
    <2>1. PICK a \in Answers :
            /\ task' = [task EXCEPT ![g] =
                           [@ EXCEPT !.answer = a, !.status = StatusOf(a), !.tag = NoTag, !.st = "done"]]
            /\ \/ tags' = tags
               \/ tags' = [tags EXCEPT ![task[g].id] = UpdateTag(@, task[g].tag, StatusOf(a))]
            /\ Works \/ Fails("UpdateTag")
      BY <1>3 DEF OcpiAnswers
    <2>2. StatusOf(a) \in Statuses
      BY DEF StatusOf, Statuses, Answers
    <2>3. task' \in [Handlers -> Tasks(Len(states))]
      <3>1. \A status \in Statuses :
               [task[g] EXCEPT !.answer = a, !.status = status, !.tag = NoTag, !.st = "done"]
                  \in Tasks(Len(states))
        BY <1>0 DEF Tasks, Stages
      <3> QED BY <1>0, <2>1, <2>2, <3>1
    <2>4. UpdateTag(tags[task[g].id], task[g].tag, StatusOf(a)) \in Seq(Tag)
      <3>1. [tags[task[g].id] EXCEPT ![1] = task[g].tag] \in Seq(Tag)
        BY <1>0, ChangedInPlace
      <3> QED BY <1>0, <3>1 DEF UpdateTag
    <2>5. tags' \in [Tags -> Seq(Tag)]
      BY <1>0, <2>1, <2>4
    <2> QED BY <1>3, <2>1, <2>3, <2>5, Counted DEF OcpiAnswers, TypeOK, Tasks
  <1>4. CASE OcpiTimeout(g)
    <2>1. task' \in [Handlers -> Tasks(Len(states))] /\ mux' = mux
      BY <1>4, AnswerTyped DEF OcpiTimeout, Statuses
    <2> QED BY <1>4, <2>1 DEF OcpiTimeout, TypeOK, Tasks, bounds
  <1> QED BY <1>1, <1>2, <1>3, <1>4

LEMMA EditTyped == ASSUME TypeOK, NEW t \in Tags, EditTag(t) PROVE TypeOK'
  <1>0. /\ task \in [Handlers -> Tasks(Len(states))] /\ tags \in [Tags -> Seq(Tag)]
        /\ tags[t] # <<>> /\ tags[t][1] \in Tag
    BY Typed DEF EditTag
  <1>1. tags' \in [Tags -> Seq(Tag)] /\ tags'[t][1].enabled \in BOOLEAN
    <2> DEFINE doc == [tags[t][1] EXCEPT !.enabled = ~tags[t][1].enabled]
               docs == [tags[t] EXCEPT ![1] = doc]
    <2>1. doc \in Tag
      BY <1>0 DEF Tag
    <2>2. tags' = [tags EXCEPT ![t] = docs]
      BY DEF EditTag
    <2> HIDE DEF doc
    <2>3. 1 \in 1..Len(tags[t])
      BY <1>0
    <2>4. docs \in Seq(Tag) /\ docs[1] = doc
      BY <1>0, <2>1, <2>3, ExceptSeq
    <2> HIDE DEF docs
    <2> QED BY <1>0, <2>1, <2>2, <2>4 DEF Tag
  <1>2. task' \in [Handlers -> Tasks(Len(states))]
    <2>1. ASSUME NEW g \in Handlers PROVE task'[g] \in Tasks(Len(states))
      <3>1. task[g] \in Tasks(Len(states))
        BY <1>0
      <3>2. PICK v \in BOOLEAN : v = (task[g].valid \/ tags'[t][1].enabled)
        BY <1>1, <3>1 DEF Tasks
      <3>3. task'[g] \in {task[g], [task[g] EXCEPT !.valid = v]}
        BY <3>2 DEF EditTag
      <3> QED BY <3>1, <3>3 DEF Tasks
    <2> QED BY <2>1 DEF EditTag
  <1>3. edits' \in 0..MaxEdits
    BY AdmissionAssumption DEF EditTag, TypeOK
  <1> QED BY <1>1, <1>2, <1>3 DEF EditTag, TypeOK, Tasks

LEMMA TypeStep == ASSUME TypeOK, [Next]_vars PROVE TypeOK'
  <1>1. ASSUME NEW g \in Handlers, OnMessage(g) \/ OnClose(g) \/ OnCommand(g) PROVE TypeOK'
    BY <1>1, EnterTyped DEF OnMessage, OnClose, OnCommand, Kinds, Locked
  <1>2. ASSUME NEW g \in Handlers, OnLookup(g) \/ OnAuthorize(g) PROVE TypeOK'
    BY <1>2, ReturnTyped DEF OnLookup, OnAuthorize, bounds
  <1>3. ASSUME NEW g \in Handlers, Work(g) \/ OcpiAnswers(g) PROVE TypeOK'
    BY <1>2, <1>3, LookupTyped, StatesTyped, TagsTyped DEF Work, Authorize
  <1>4. CASE Connect
    BY <1>4 DEF Connect, TypeOK, bounds
  <1>5. CASE UNCHANGED vars
    BY <1>5 DEF vars, TypeOK
  <1> QED BY <1>1, <1>3, <1>4, <1>5, EditTyped DEF Next

LEMMA TypeInit == Init => TypeOK
  <1> SUFFICES ASSUME Init PROVE TypeOK
    OBVIOUS
  <1>1. NewPoint \in Point /\ [NewPoint EXCEPT !.enabled = FALSE] \in Point
    BY DEF NewPoint, Point
  <1>2. /\ points \in Seq(Point) /\ states \in Seq(Point)
        /\ Len(states) \in Nat /\ current \in 0..Len(states)
    <2>1. /\ <<>> \in Seq(Point) /\ <<NewPoint>> \in Seq(Point)
          /\ <<[NewPoint EXCEPT !.enabled = FALSE]>> \in Seq(Point)
      BY <1>1
    <2>2. \/ points = <<>> \/ points = <<NewPoint>>
          \/ points = <<[NewPoint EXCEPT !.enabled = FALSE]>>
      BY DEF Init
    <2>3. points \in Seq(Point)
      BY <2>1, <2>2
    <2> QED BY <2>3 DEF Init
  <1>3. tags \in [Tags -> Seq(Tag)]
    <2>1. [enabled : BOOLEAN, owned : {TRUE}] \subseteq Tag
      BY DEF Tag
    <2>2. <<>> \in Seq(Tag) /\ \A d \in Tag : <<d>> \in Seq(Tag)
      OBVIOUS
    <2>3. {<<>>} \cup {<<d>> : d \in [enabled : BOOLEAN, owned : {TRUE}]} \subseteq Seq(Tag)
      BY <2>1, <2>2
    <2>4. PICK D : D = {<<>>} \cup {<<d>> : d \in [enabled : BOOLEAN, owned : {TRUE}]}
      OBVIOUS
    <2>5. tags \in [Tags -> D] /\ D \subseteq Seq(Tag)
      BY <2>3, <2>4 DEF Init
    <2> QED BY <2>5
  <1>4. task \in [Handlers -> Tasks(Len(states))]
    BY <1>2, Records DEF Init
  <1>5. faults \in 0..MaxFaults /\ edits \in 0..MaxEdits
    BY AdmissionAssumption DEF Init
  <1> QED BY <1>2, <1>3, <1>4, <1>5 DEF Init, TypeOK, Tasks

\* Every variable of Admission keeps its type: a task never points past the last
\* state, and a failing call is counted.
THEOREM AdmissionTyped == Spec => []TypeOK
  BY TypeInit, TypeStep, PTL DEF Spec

-----------------------------------------------------------------------------
(***************************************************************************)
(* Id tags.  What an Authorize has in hand, at every stage of its way, is  *)
(* justified by what the database held at some moment of the request: a    *)
(* tag about to be added is enabled only where unknown tags are accepted,  *)
(* and a tag that waits for the OCPI service is disabled.  So no handler   *)
(* ever makes a tag acceptable, and what one handler relies on no other    *)
(* takes away.                                                             *)
(***************************************************************************)
Justified(g) ==
    /\ task[g].st \in {"newTag", "wait", "done"} => task[g].kind = "authorize"
    /\ task[g].kind = "authorize" /\ task[g].st # "done" /\ Acceptable(task[g].id) => task[g].valid
    /\ task[g].st = "newTag" => /\ task[g].tag.enabled = conf.acceptTags
                                /\ conf.acceptTags => task[g].valid \/ faults > 0
    /\ task[g].st = "wait" => ~task[g].tag.enabled
    /\ task[g].st = "done" /\ task[g].status = "Accepted" /\ ~task[g].valid
          => task[g].answer = "ALLOWED" \/ (conf.acceptTags /\ faults > 0)

AllJustified == TypeOK /\ \A g \in Handlers : Justified(g)

\* Nothing becomes acceptable, and no stored tag becomes enabled.
NothingEnabled ==
    \A t \in Tags :
        /\ Acceptable(t)' => Acceptable(t)
        /\ tags[t] # <<>> => tags'[t] # <<>> /\ (tags'[t][1].enabled => tags[t][1].enabled)

LEMMA SameTags == ASSUME UNCHANGED <<conf, tags>> PROVE NothingEnabled
  BY DEF NothingEnabled, Acceptable

LEMMA AddedTag ==
    ASSUME AllJustified, NEW g \in Handlers, AddUserTag(g)
    PROVE  NothingEnabled
  <1> DEFINE id == task[g].id
             docs == tags[id]
  <1>0. /\ tags \in [Tags -> Seq(Tag)] /\ id \in Tags /\ docs \in Seq(Tag) /\ conf' = conf
        /\ task[g].tag \in Tag /\ task[g].tag.enabled = conf.acceptTags
    BY Typed DEF AllJustified, Justified, AddUserTag, Tasks
  <1>1. CASE tags' = tags
    BY <1>0, <1>1, SameTags
  <1>2. CASE tags' = [tags EXCEPT ![id] = Append(docs, task[g].tag)]
    <2>1. \A t \in Tags : t # id => tags'[t] = tags[t]
      BY <1>0, <1>2
    <2>2. /\ tags'[id] = Append(docs, task[g].tag) /\ tags'[id] # <<>>
          /\ tags'[id][1] = IF docs = <<>> THEN task[g].tag ELSE docs[1]
      BY <1>0, <1>2
    <2> QED BY <1>0, <2>1, <2>2 DEF NothingEnabled, Acceptable
  <1> QED BY <1>1, <1>2 DEF AddUserTag

LEMMA AnsweredTag ==
    ASSUME AllJustified, NEW g \in Handlers, OcpiAnswers(g)
    PROVE  NothingEnabled
  <1> DEFINE id == task[g].id
             docs == tags[id]
  <1>0. /\ tags \in [Tags -> Seq(Tag)] /\ id \in Tags /\ docs \in Seq(Tag) /\ conf' = conf
        /\ task[g].tag \in Tag /\ ~task[g].tag.enabled
    BY Typed DEF AllJustified, Justified, OcpiAnswers, Tasks
  <1>1. CASE tags' = tags
    BY <1>0, <1>1, SameTags
  <1>2. CASE docs # <<>> /\ tags' = [tags EXCEPT ![id] = [docs EXCEPT ![1] = task[g].tag]]
    <2>1. \A t \in Tags : t # id => tags'[t] = tags[t]
      BY <1>0, <1>2
    <2>2. tags'[id] # <<>> /\ tags'[id][1] = task[g].tag
      <3>1. 1 \in 1..Len(docs)
        BY <1>0, <1>2
      <3>2. tags'[id] = [docs EXCEPT ![1] = task[g].tag]
        BY <1>0, <1>2
      <3> QED BY <1>0, <3>1, <3>2, ExceptSeq
    <2> QED BY <1>0, <1>2, <2>1, <2>2 DEF NothingEnabled, Acceptable
  <1> QED
    <2>1. CASE docs = <<>>
      BY <1>0, <1>1, <2>1 DEF OcpiAnswers, UpdateTag
    <2>2. CASE docs # <<>>
      BY <1>1, <1>2, <2>2 DEF OcpiAnswers, UpdateTag
    <2> QED BY <2>1, <2>2

\* Of all the steps only the operator's enable a tag.
LEMMA OnlyEdits ==
    ASSUME AllJustified, [Next]_vars, \A t \in Tags : ~EditTag(t)
    PROVE  NothingEnabled
  <1>1. ASSUME NEW g \in Handlers, OnMessage(g) \/ OnClose(g) \/ OnCommand(g) PROVE UNCHANGED <<conf, tags>>
    BY <1>1 DEF OnMessage, OnClose, OnCommand, Enter
  <1>2. ASSUME NEW g \in Handlers, GetChargePoint(g) \/ FindChargePoint(g) \/ AddChargePoint(g)
                                   \/ InsertChargePoint(g) \/ InitializeChargePointState(g)
        PROVE  UNCHANGED <<conf, tags>>
    BY <1>2 DEF GetChargePoint, FindChargePoint, AddChargePoint, InsertChargePoint, InitializeChargePointState
  <1>3. ASSUME NEW g \in Handlers, OnLookup(g) \/ OnOnlineStatusChanged(g)
                                   \/ AuthorizeIdTag(g) \/ OcpiTimeout(g) \/ OnAuthorize(g)
        PROVE  UNCHANGED <<conf, tags>>
    BY <1>3 DEF OnLookup, OnOnlineStatusChanged, AuthorizeIdTag, OcpiTimeout, OnAuthorize
  <1>4. CASE Connect \/ UNCHANGED vars
    BY <1>4, SameTags DEF Connect, vars
  <1> QED BY <1>1, <1>2, <1>3, <1>4, SameTags, AddedTag, AnsweredTag DEF Next, Work, Authorize

\* A handler that does not move is not disturbed by one that does.
LEMMA Undisturbed ==
    ASSUME AllJustified, NothingEnabled, NEW h \in Handlers, task'[h] = task[h],
           conf' = conf, faults' \in {faults, faults + 1}
    PROVE  Justified(h)'
  <1>1. /\ Justified(h) /\ faults \in Nat /\ task[h].id \in Tags
        /\ (Acceptable(task[h].id)' => Acceptable(task[h].id))
    BY Typed DEF AllJustified, NothingEnabled, Tasks, Acceptable
  <1> HIDE DEF Acceptable
  <1> QED BY <1>1 DEF Justified

\* A handler that moves has to be justified itself.
LEMMA MovesOn ==
    ASSUME AllJustified, NothingEnabled, NEW g \in Handlers, NEW r,
           task' = [task EXCEPT ![g] = r], r.id \in Tags, r.st # "done",
           r.st \in {"newTag", "wait"} => r.kind = "authorize",
           r.kind = "authorize" /\ Acceptable(r.id) => r.valid,
           r.st = "newTag" => /\ r.tag.enabled = conf.acceptTags
                              /\ conf.acceptTags => r.valid \/ faults' > 0,
           r.st = "wait" => ~r.tag.enabled,
           conf' = conf, faults' \in {faults, faults + 1}
    PROVE  \A h \in Handlers : Justified(h)'
  <1>1. task \in [Handlers -> Tasks(Len(states))]
    BY Typed DEF AllJustified
  <1>2. ASSUME NEW h \in Handlers, h # g PROVE Justified(h)'
    <2>1. task'[h] = task[h]
      BY <1>1, <1>2
    <2> QED BY <2>1, Undisturbed
  <1>3. Justified(g)'
    <2>1. task'[g] = r
      BY <1>1
    <2>2. Acceptable(task[g].id)' => Acceptable(r.id)
      BY <2>1 DEF NothingEnabled, Acceptable
    <2> HIDE DEF Acceptable
    <2> QED BY <2>1, <2>2 DEF Justified
  <1> QED BY <1>2, <1>3

\* On its way to the tag it only has to know whether it was acceptable.
LEMMA OnTheWay ==
    ASSUME AllJustified, NothingEnabled, NEW g \in Handlers, NEW r,
           task' = [task EXCEPT ![g] = r], r.id \in Tags,
           r.st \notin {"newTag", "wait", "done"},
           r.kind = "authorize" /\ Acceptable(r.id) => r.valid,
           conf' = conf, faults' \in {faults, faults + 1}
    PROVE  \A h \in Handlers : Justified(h)'
  BY MovesOn

LEMMA LookupJustified ==
    ASSUME AllJustified, NothingEnabled, NEW g \in Handlers,
           \/ OnMessage(g) \/ OnClose(g) \/ OnCommand(g)
           \/ GetChargePoint(g) \/ AddChargePoint(g) \/ InsertChargePoint(g)
           \/ InitializeChargePointState(g) \/ OnLookup(g)
           \/ OnOnlineStatusChanged(g) \/ OnAuthorize(g)
    PROVE  \A h \in Handlers : Justified(h)'
  <1>0. /\ task \in [Handlers -> Tasks(Len(states))] /\ task[g] \in Tasks(Len(states))
        /\ NoTask \in Tasks(Len(states)) /\ Justified(g) /\ TypeOK
        /\ NoTask.kind = "lookup" /\ NoTask.st = "idle" /\ task[g].id \in Tags
        /\ Lookup \in {"find", "body"}
    BY Typed, Records DEF AllJustified, NoTask, Lookup, Tasks
  <1>1. CASE OnMessage(g) \/ OnClose(g) \/ OnCommand(g)
    <2>1. PICK kind \in Kinds, t \in Tags : Enter(g, kind, t)
      BY <1>1 DEF OnMessage, OnClose, OnCommand, Kinds, Locked
    <2> DEFINE r == [NoTask EXCEPT !.kind = kind, !.id = t, !.valid = kind = "authorize" /\ Acceptable(t),
                         !.at = IF kind \in Locked THEN 0 ELSE current,
                         !.st = IF kind \in Locked THEN "lock" ELSE Lookup]
    <2> HIDE DEF Acceptable, Lookup
    <2>2. /\ r.id = t /\ r.kind = kind /\ r.st \in {"lock", "find", "body"}
          /\ r.valid = (kind = "authorize" /\ Acceptable(t))
      <3>1. \A v, a, st : LET n == [NoTask EXCEPT !.kind = kind, !.id = t, !.valid = v, !.at = a, !.st = st]
                          IN n.id = t /\ n.kind = kind /\ n.st = st /\ n.valid = v
        BY <1>0 DEF Tasks
      <3> QED BY <1>0, <3>1
    <2>3. task' = [task EXCEPT ![g] = r] /\ conf' = conf /\ faults' = faults
      BY <2>1 DEF Enter, bounds
    <2> HIDE DEF r
    <2> QED BY <2>2, <2>3, OnTheWay
  <1>2. CASE OnLookup(g) \/ OnOnlineStatusChanged(g) \/ OnAuthorize(g)
    <2>1. task' = [task EXCEPT ![g] = NoTask] /\ conf' = conf /\ faults' \in {faults, faults + 1}
      BY <1>2 DEF OnLookup, OnOnlineStatusChanged, OnAuthorize, Return, bounds, Works, Fails
    <2>2. NoTask.id \in Tags
      BY <1>0 DEF Tasks
    <2> QED BY <1>0, <2>1, <2>2, OnTheWay
  <1>3. ASSUME NEW r, task' = [task EXCEPT ![g] = r], task[g].st \in {"lock", "add", "insert", "init"},
               r.kind = task[g].kind, r.id = task[g].id, r.valid = task[g].valid,
               r.st \in {"find", "body", "insert", "init"},
               conf' = conf, faults' \in {faults, faults + 1}
        PROVE  \A h \in Handlers : Justified(h)'
    <2> HIDE DEF Acceptable
    <2>1. r.kind = "authorize" /\ Acceptable(r.id) => r.valid
      BY <1>0, <1>3 DEF Justified
    <2> QED BY <1>0, <1>3, <2>1, OnTheWay
  <1>4. CASE GetChargePoint(g)
    <2> DEFINE r == [task[g] EXCEPT !.at = current, !.st = Lookup]
    <2>1. r.kind = task[g].kind /\ r.id = task[g].id /\ r.valid = task[g].valid /\ r.st = Lookup
      BY <1>0 DEF Tasks
    <2>2. task' = [task EXCEPT ![g] = r] /\ task[g].st = "lock" /\ conf' = conf /\ faults' = faults
      BY <1>4 DEF GetChargePoint, bounds
    <2> HIDE DEF r, Lookup
    <2> QED BY <1>0, <1>3, <2>1, <2>2
  <1>5. CASE AddChargePoint(g) \/ InsertChargePoint(g)
    <2>1. PICK st \in {"init", "insert"} : task' = [task EXCEPT ![g] = [@ EXCEPT !.st = st]]
      BY <1>5 DEF AddChargePoint, InsertChargePoint, Goto
    <2> DEFINE r == [task[g] EXCEPT !.st = st]
    <2>2. r.kind = task[g].kind /\ r.id = task[g].id /\ r.valid = task[g].valid /\ r.st = st
      BY <1>0 DEF Tasks
    <2>3. task[g].st \in {"add", "insert"} /\ conf' = conf /\ faults' \in {faults, faults + 1}
      BY <1>5 DEF AddChargePoint, InsertChargePoint, Works, Fails
    <2>4. task' = [task EXCEPT ![g] = r]
      BY <2>1
    <2> HIDE DEF r
    <2> QED BY <1>0, <1>3, <2>2, <2>3, <2>4
  <1>6. CASE InitializeChargePointState(g)
    <2> DEFINE r == [task[g] EXCEPT !.at = Len(states'), !.got = NewPoint, !.st = "body"]
    <2>1. r.kind = task[g].kind /\ r.id = task[g].id /\ r.valid = task[g].valid /\ r.st = "body"
      BY <1>0 DEF Tasks
    <2>2. task' = [task EXCEPT ![g] = r] /\ task[g].st = "init" /\ conf' = conf /\ faults' = faults
      BY <1>6 DEF InitializeChargePointState, bounds
    <2> HIDE DEF r
    <2> QED BY <1>0, <1>3, <2>1, <2>2
  <1> QED BY <1>1, <1>2, <1>4, <1>5, <1>6

LEMMA Settled ==
    ASSUME AllJustified, NothingEnabled, NEW g \in Handlers, NEW r,
           task' = [task EXCEPT ![g] = r], r.kind = "authorize", r.st = "done",
           r.status = "Accepted" => r.valid \/ r.answer = "ALLOWED" \/ (conf.acceptTags /\ faults' > 0),
           conf' = conf, faults' \in {faults, faults + 1}
    PROVE  \A h \in Handlers : Justified(h)'
  <1>1. task \in [Handlers -> Tasks(Len(states))]
    BY Typed DEF AllJustified
  <1>2. ASSUME NEW h \in Handlers, h # g PROVE Justified(h)'
    <2>1. task'[h] = task[h]
      BY <1>1, <1>2
    <2> QED BY <2>1, Undisturbed
  <1>3. Justified(g)'
    <2>1. task'[g] = r
      BY <1>1
    <2> HIDE DEF Acceptable
    <2> QED BY <2>1 DEF Justified
  <1> QED BY <1>2, <1>3

\* An answer is an acceptance only with a reason.
LEMMA AnswerJustified ==
    ASSUME AllJustified, NothingEnabled, NEW g \in Handlers, NEW status \in Statuses,
           Answer(g, status), task[g].kind = "authorize",
           status = "Accepted" => task[g].valid \/ (conf.acceptTags /\ faults' > 0),
           conf' = conf, faults' \in {faults, faults + 1}
    PROVE  \A h \in Handlers : Justified(h)'
  <1> DEFINE r == [task[g] EXCEPT !.status = status, !.st = "done", !.at = 0, !.tag = NoTag]
  <1>1. task[g] \in Tasks(Len(states))
    BY Typed DEF AllJustified
  <1>2. r.kind = "authorize" /\ r.st = "done" /\ r.status = status /\ r.valid = task[g].valid
    BY <1>1 DEF Tasks
  <1>3. task' = [task EXCEPT ![g] = r]
    BY DEF Answer
  <1> HIDE DEF r
  <1> QED BY <1>2, <1>3, Settled

\* A tag that is put to the OCPI service is disabled, one that is accepted was
\* acceptable or had its read fail.
LEMMA JudgeJustified ==
    ASSUME AllJustified, NothingEnabled, NEW g \in Handlers, NEW tag \in Tag,
           Judge(g, tag), task[g].kind = "authorize", task[g].st # "done",
           tag.enabled => task[g].valid \/ (conf.acceptTags /\ faults' > 0),
           conf' = conf, faults' \in {faults, faults + 1}
    PROVE  \A h \in Handlers : Justified(h)'
  <1>0. task[g] \in Tasks(Len(states)) /\ conf.ocpi \in BOOLEAN
    BY Typed DEF AllJustified, Config
  <1>1. CASE tag.enabled /\ Answer(g, "Accepted")
    BY <1>1, AnswerJustified DEF Statuses
  <1>2. CASE Answer(g, "Invalid")
    BY <1>2, AnswerJustified DEF Statuses
  <1>3. CASE /\ ~tag.enabled
             /\ task' = [task EXCEPT ![g] = [@ EXCEPT !.tag = tag, !.st = "wait", !.at = 0]]
    <2> DEFINE r == [task[g] EXCEPT !.tag = tag, !.st = "wait", !.at = 0]
    <2>1. /\ r.kind = "authorize" /\ r.st = "wait" /\ r.tag = tag
          /\ r.id = task[g].id /\ r.valid = task[g].valid /\ r.id \in Tags
      BY <1>0 DEF Tasks
    <2>2. task' = [task EXCEPT ![g] = r]
      BY <1>3
    <2>3. Acceptable(r.id) => r.valid
      BY <2>1 DEF AllJustified, Justified
    <2> HIDE DEF r, Acceptable
    <2> QED BY <1>3, <2>1, <2>2, <2>3, MovesOn
  <1> QED BY <1>0, <1>1, <1>2, <1>3 DEF Judge, Tag

LEMMA FindJustified ==
    ASSUME AllJustified, NothingEnabled, NEW g \in Handlers, FindChargePoint(g)
    PROVE  \A h \in Handlers : Justified(h)'
  <1>0. /\ task[g] \in Tasks(Len(states)) /\ NoTask \in Tasks(Len(states)) /\ task[g].st = "find"
        /\ NoTask.kind = "lookup" /\ NoTask.st = "idle"
        /\ conf' = conf /\ faults' \in {faults, faults + 1} /\ Justified(g)
    BY Typed, Records DEF AllJustified, FindChargePoint, NoTask, Works, Fails
  <1>1. CASE task[g].kind = "authorize" /\ Answer(g, "Blocked")
    BY <1>0, <1>1, AnswerJustified DEF Statuses
  <1>2. CASE Return(g)
    BY <1>0, <1>2, OnTheWay DEF Return, Tasks
  <1>3. ASSUME NEW r, task' = [task EXCEPT ![g] = r], r.st \in {"init", "add"},
               r.kind = task[g].kind, r.id = task[g].id, r.valid = task[g].valid
        PROVE  \A h \in Handlers : Justified(h)'
    <2>1. (r.kind = "authorize" /\ Acceptable(r.id) => r.valid) /\ r.id \in Tags
      BY <1>0, <1>3 DEF Justified, Tasks
    <2> HIDE DEF Acceptable
    <2> QED BY <1>0, <1>3, <2>1, OnTheWay
  <1>4. CASE task' = [task EXCEPT ![g] = [@ EXCEPT !.got = points[1], !.st = "init"]]
    <2> DEFINE r == [task[g] EXCEPT !.got = points[1], !.st = "init"]
    <2>1. r.st = "init" /\ r.kind = task[g].kind /\ r.id = task[g].id /\ r.valid = task[g].valid
      BY <1>0 DEF Tasks
    <2>2. task' = [task EXCEPT ![g] = r]
      BY <1>4
    <2> HIDE DEF r
    <2> QED BY <1>3, <2>1, <2>2
  <1>5. CASE Goto(g, "add")
    <2> DEFINE r == [task[g] EXCEPT !.st = "add"]
    <2>1. r.st = "add" /\ r.kind = task[g].kind /\ r.id = task[g].id /\ r.valid = task[g].valid
      BY <1>0 DEF Tasks
    <2>2. task' = [task EXCEPT ![g] = r]
      BY <1>5 DEF Goto
    <2> HIDE DEF r
    <2> QED BY <1>3, <2>1, <2>2
  <1> QED BY <1>1, <1>2, <1>4, <1>5 DEF FindChargePoint

LEMMA TagJustified ==
    ASSUME AllJustified, NothingEnabled, NEW g \in Handlers,
           AuthorizeIdTag(g) \/ AddUserTag(g) \/ OcpiAnswers(g) \/ OcpiTimeout(g)
    PROVE  \A h \in Handlers : Justified(h)'
  <1>0. /\ task[g] \in Tasks(Len(states)) /\ task[g].tag \in Tag /\ task[g].id \in Tags
        /\ tags \in [Tags -> Seq(Tag)] /\ Justified(g) /\ faults \in Nat
        /\ conf.acceptTags \in BOOLEAN
    BY Typed DEF AllJustified, Tasks, Config
  <1>f. conf' = conf /\ faults' \in {faults, faults + 1}
    BY DEF AuthorizeIdTag, GetUserTag, AddUserTag, OcpiAnswers, OcpiTimeout, Works, Fails, bounds
  <1>1. CASE AuthorizeIdTag(g)
    <2> DEFINE docs == tags[task[g].id]
    <2>0. task[g].kind = "authorize" /\ task[g].st = "body" /\ (Acceptable(task[g].id) => task[g].valid)
      BY <1>0, <1>1 DEF AuthorizeIdTag, Justified
    <2>1. CASE Answer(g, "Blocked")
      BY <1>f, <2>0, <2>1, AnswerJustified DEF Statuses
    <2>2. CASE docs # <<>> /\ Judge(g, docs[1])
      <3>1. docs[1] \in Tag /\ (docs[1].enabled => task[g].valid)
        BY <1>0, <2>0, <2>2, Typed DEF Acceptable, AllJustified
      <3> HIDE DEF docs
      <3> QED BY <1>f, <2>0, <2>2, <3>1, JudgeJustified
    <2>3. CASE /\ (docs = <<>> /\ Works) \/ Fails("GetUserTag")
               /\ task' = [task EXCEPT ![g] = [@ EXCEPT !.tag = [enabled |-> conf.acceptTags, owned |-> FALSE],
                                                        !.st = "newTag", !.at = 0]]
      <3>1. PICK tag \in Tag : tag = [enabled |-> conf.acceptTags, owned |-> FALSE]
        BY <1>0 DEF Tag
      <3> DEFINE r == [task[g] EXCEPT !.tag = tag, !.st = "newTag", !.at = 0]
      <3>2. /\ r.kind = "authorize" /\ r.st = "newTag" /\ r.tag = tag
            /\ r.id = task[g].id /\ r.valid = task[g].valid
        BY <1>0, <2>0 DEF Tasks
      <3>3. task' = [task EXCEPT ![g] = r]
        BY <2>3, <3>1
      <3>4. tag.enabled = conf.acceptTags
        BY <3>1
      <3>5. conf.acceptTags => task[g].valid \/ faults' > 0
        <4>1. docs = <<>> /\ conf.acceptTags => Acceptable(task[g].id)
          BY DEF Acceptable
        <4> HIDE DEF Acceptable
        <4> QED BY <1>0, <2>0, <2>3, <4>1 DEF Fails
      <3> HIDE DEF r, Acceptable
      <3> QED BY <1>0, <1>f, <2>0, <3>2, <3>3, <3>4, <3>5, MovesOn
    <2> QED BY <1>1, <2>1, <2>2, <2>3 DEF AuthorizeIdTag, GetUserTag
  <1>2. CASE AddUserTag(g)
    <2>1. /\ Judge(g, task[g].tag) /\ task[g].kind = "authorize" /\ task[g].st = "newTag"
          /\ task[g].tag.enabled = conf.acceptTags /\ (conf.acceptTags => task[g].valid \/ faults > 0)
      BY <1>0, <1>2 DEF AddUserTag, Justified
    <2> QED BY <1>0, <1>f, <2>1, JudgeJustified
  <1>3. CASE OcpiAnswers(g)
    <2>1. PICK a \in Answers :
            task' = [task EXCEPT ![g] =
                        [@ EXCEPT !.answer = a, !.status = StatusOf(a), !.tag = NoTag, !.st = "done"]]
      BY <1>3 DEF OcpiAnswers
    <2> DEFINE r == [task[g] EXCEPT !.answer = a, !.status = StatusOf(a), !.tag = NoTag, !.st = "done"]
    <2>2. task[g].kind = "authorize"
      BY <1>0, <1>3 DEF OcpiAnswers, Justified
    <2>3. r.kind = "authorize" /\ r.st = "done" /\ r.status = StatusOf(a) /\ r.answer = a
      BY <1>0, <2>2 DEF Tasks
    <2>4. StatusOf(a) = "Accepted" => a = "ALLOWED"
      BY DEF StatusOf, Answers
    <2>5. task' = [task EXCEPT ![g] = r]
      BY <2>1
    <2> HIDE DEF r
    <2> QED BY <1>f, <2>3, <2>4, <2>5, Settled
  <1>4. CASE OcpiTimeout(g)
    <2>1. task[g].kind = "authorize" /\ Answer(g, "Invalid")
      BY <1>0, <1>4 DEF OcpiTimeout, Justified
    <2> QED BY <1>f, <2>1, AnswerJustified DEF Statuses
  <1> QED BY <1>1, <1>2, <1>3, <1>4

\* The operator's change reaches every request that is on its way.
LEMMA EditJustified ==
    ASSUME AllJustified, NEW t \in Tags, EditTag(t), NEW h \in Handlers
    PROVE  Justified(h)'
  <1>0. /\ task[h] \in Tasks(Len(states)) /\ tags \in [Tags -> Seq(Tag)] /\ tags[t] # <<>>
        /\ Justified(h) /\ task[h].id \in Tags /\ conf' = conf /\ faults' = faults /\ TypeOK'
    BY Typed, EditTyped DEF AllJustified, EditTag, Tasks
  <1>1. \A u \in Tags : u # t => tags'[u] = tags[u]
    BY <1>0 DEF EditTag
  <1>2. tags'[t] # <<>>
    <2>1. \E d : tags' = [tags EXCEPT ![t] = [tags[t] EXCEPT ![1] = d]]
      BY DEF EditTag
    <2>2. DOMAIN tags'[t] = DOMAIN tags[t]
      BY <1>0, <2>1
    <2>3. 1 \in DOMAIN tags[t] /\ tags'[t] \in Seq(Tag)
      BY <1>0 DEF TypeOK
    <2> QED BY <2>2, <2>3
  <1>3. CASE task[h].id = t /\ task[h].kind = "authorize" /\ task[h].st # "done"
    <2> DEFINE v == task[h].valid \/ tags'[t][1].enabled
    <2>1. task'[h] = [task[h] EXCEPT !.valid = v]
      BY <1>3 DEF EditTag
    <2>2. /\ task'[h].kind = task[h].kind /\ task'[h].st = task[h].st /\ task'[h].id = t
          /\ task'[h].tag = task[h].tag /\ task'[h].valid = v
      BY <1>0, <1>3, <2>1 DEF Tasks
    <2>3. Acceptable(task[h].id)' => v
      BY <1>2, <2>2 DEF Acceptable
    <2>4. task[h].valid => v
      OBVIOUS
    <2> HIDE DEF v, Acceptable
    <2> QED BY <1>0, <1>3, <2>2, <2>3, <2>4 DEF Justified
  <1>4. CASE ~(task[h].id = t /\ task[h].kind = "authorize" /\ task[h].st # "done")
    <2>1. task'[h] = task[h]
      BY <1>4 DEF EditTag
    <2>2. task[h].id # t => (Acceptable(task[h].id)' => Acceptable(task[h].id))
      BY <1>0, <1>1, <2>1 DEF Acceptable
    <2> HIDE DEF Acceptable
    <2> QED BY <1>0, <1>4, <2>1, <2>2 DEF Justified
  <1> QED BY <1>3, <1>4

LEMMA JustifiedStep == ASSUME AllJustified, [Next]_vars PROVE AllJustified'
  <1> SUFFICES \A h \in Handlers : Justified(h)'
    BY TypeStep DEF AllJustified
  <1>1. ASSUME NEW t \in Tags, EditTag(t) PROVE \A h \in Handlers : Justified(h)'
    BY <1>1, EditJustified
  <1>2. CASE \A t \in Tags : ~EditTag(t)
    <2>1. NothingEnabled
      BY <1>2, OnlyEdits
    <2>2. CASE Connect \/ UNCHANGED vars
      <3>1. /\ \A h \in Handlers : task'[h] = task[h]
            /\ conf' = conf /\ faults' \in {faults, faults + 1}
        BY <2>2 DEF Connect, vars, bounds
      <3>2. ASSUME NEW h \in Handlers PROVE Justified(h)'
        BY <2>1, <3>1, Undisturbed
      <3> QED BY <3>2
    <2>3. ASSUME NEW g \in Handlers,
                 OnMessage(g) \/ OnClose(g) \/ OnCommand(g) \/ Work(g) \/ OcpiAnswers(g)
          PROVE  \A h \in Handlers : Justified(h)'
      <3>1. CASE FindChargePoint(g)
        BY <2>1, <3>1, FindJustified
      <3>2. CASE AuthorizeIdTag(g) \/ AddUserTag(g) \/ OcpiAnswers(g) \/ OcpiTimeout(g)
        BY <2>1, <3>2, TagJustified
      <3>3. CASE \/ OnMessage(g) \/ OnClose(g) \/ OnCommand(g)
                 \/ GetChargePoint(g) \/ AddChargePoint(g) \/ InsertChargePoint(g)
                 \/ InitializeChargePointState(g) \/ OnLookup(g)
                 \/ OnOnlineStatusChanged(g) \/ OnAuthorize(g)
        BY <2>1, <3>3, LookupJustified
      <3> QED BY <2>3, <3>1, <3>2, <3>3 DEF Work, Authorize
    <2> QED BY <1>2, <2>2, <2>3 DEF Next
  <1> QED BY <1>1, <1>2

LEMMA JustifiedInit == Init => AllJustified
  <1> SUFFICES ASSUME Init PROVE AllJustified
    OBVIOUS
  <1>1. \A g \in Handlers : task[g] = NoTask /\ NoTask.kind = "lookup" /\ NoTask.st = "idle"
    BY DEF Init, NoTask
  <1> HIDE DEF Acceptable
  <1> QED BY <1>1, TypeInit DEF AllJustified, Justified

\* A tag that was disabled all through an Authorize is accepted only on the word
\* of the OCPI service, or where unknown tags are accepted and a call failed,
\* however many handlers, operators and failing calls there are.
THEOREM RevokedRefused == Spec => []RevokedIsRefused
  <1>1. AllJustified => RevokedIsRefused
    BY DEF AllJustified, Justified, RevokedIsRefused
  <1> QED BY <1>1, JustifiedInit, JustifiedStep, PTL DEF Spec

\* A disabled tag is enabled by the operator and by no handler: AddUserTag writes
\* behind the document that counts, and UpdateTag only ever stores a copy that is
\* disabled.
THEOREM OperatorEnables == Spec => OnlyOperatorEnables
  <1>1. ASSUME AllJustified, [Next]_vars
        PROVE  \A t \in Tags : tags[t] # <<>> /\ ~tags[t][1].enabled /\ tags'[t][1].enabled
                  => edits' # edits
    <2>1. CASE \A t \in Tags : ~EditTag(t)
      BY <1>1, <2>1, OnlyEdits DEF NothingEnabled
    <2>2. ASSUME NEW t \in Tags, EditTag(t) PROVE edits' # edits
      BY <1>1, <2>2, Typed DEF AllJustified, EditTag
    <2> QED BY <2>1, <2>2
  <1>2. AllJustified /\ [Next]_vars
          => [\A t \in Tags : tags[t] # <<>> /\ ~tags[t][1].enabled /\ tags'[t][1].enabled
                 => edits' # edits]_vars
    BY <1>1
  <1> QED BY <1>2, JustifiedInit, JustifiedStep, PTL DEF Spec, OnlyOperatorEnables

-----------------------------------------------------------------------------
(***************************************************************************)
(* The lock of the handlers.  h.mux is taken after the request came in and *)
(* given back by a deferred call, whichever of the returns is taken.       *)
(***************************************************************************)
Inside(g) == task[g].kind \in Locked /\ task[g].st \notin {"idle", "lock"}

\* h.mux is held by the handler that is between its Lock and its return, and by
\* nobody else.
MutexIsHeld == \A g \in Handlers : mux = g <=> Inside(g)

\* A handler that got past the lookup works on a state that exists.
StateAtHand == \A g \in Handlers : task[g].st = "body" => task[g].at \in 1..Len(states)

Held(g) ==
    /\ mux = g <=> Inside(g)
    /\ task[g].st = "lock" => task[g].kind \in Locked
    /\ task[g].st = "body" => task[g].at # 0

AllHeld == TypeOK /\ \A g \in Handlers : Held(g)

\* A step inside the handler keeps the lock as it is.
LEMMA StaysInside ==
    ASSUME AllHeld, NEW g \in Handlers, NEW r, task' = [task EXCEPT ![g] = r],
           task[g].st \notin {"idle", "lock"}, r.kind = task[g].kind,
           r.st \notin {"idle", "lock"}, r.st = "body" => r.at # 0, mux' = mux
    PROVE  \A h \in Handlers : Held(h)'
  <1>1. task'[g] = r /\ \A h \in Handlers : h # g => task'[h] = task[h]
    BY Typed DEF AllHeld
  <1>2. \A h \in Handlers : Held(h)
    BY DEF AllHeld
  <1> QED BY <1>1, <1>2 DEF Held, Inside

\* The deferred Unlock.
LEMMA Released ==
    ASSUME AllHeld, NEW g \in Handlers, Return(g)
    PROVE  \A h \in Handlers : Held(h)'
  <1>1. task'[g] = NoTask /\ \A h \in Handlers : h # g => task'[h] = task[h]
    BY Typed DEF AllHeld, Return
  <1>2. NoTask.kind = "lookup" /\ NoTask.st = "idle"
    BY DEF NoTask
  <1>3. \A h \in Handlers : Held(h) /\ h # NoHandler
    BY AdmissionAssumption DEF AllHeld
  <1>4. mux' = IF mux = g THEN NoHandler ELSE mux
    BY DEF Return
  <1> QED BY <1>1, <1>2, <1>3, <1>4 DEF Held, Inside, Locked

LEMMA EnterHeld ==
    ASSUME AllHeld, NEW g \in Handlers, NEW kind \in Kinds, NEW t \in Tags, Enter(g, kind, t)
    PROVE  \A h \in Handlers : Held(h)'
  <1>1. NoTask \in Tasks(Len(states))
    BY Records, Typed DEF AllHeld
  <1>2. /\ task'[g].kind = kind
        /\ task'[g].st = IF kind \in Locked THEN "lock" ELSE Lookup
        /\ task'[g].at = IF kind \in Locked THEN 0 ELSE current
        /\ \A h \in Handlers : h # g => task'[h] = task[h]
    <2>1. \A v, a, st : LET n == [NoTask EXCEPT !.kind = kind, !.id = t, !.valid = v, !.at = a, !.st = st]
                        IN n.kind = kind /\ n.st = st /\ n.at = a
      BY <1>1 DEF Tasks
    <2>2. PICK v, a, st :
             /\ a = IF kind \in Locked THEN 0 ELSE current
             /\ st = IF kind \in Locked THEN "lock" ELSE Lookup
             /\ task' = [task EXCEPT ![g] =
                   [NoTask EXCEPT !.kind = kind, !.id = t, !.valid = v, !.at = a, !.st = st]]
      BY DEF Enter
    <2>3. task \in [Handlers -> Tasks(Len(states))]
      BY Typed DEF AllHeld
    <2> DEFINE n == [NoTask EXCEPT !.kind = kind, !.id = t, !.valid = v, !.at = a, !.st = st]
    <2>4. n.kind = kind /\ n.st = st /\ n.at = a
      BY <2>1
    <2> HIDE DEF n
    <2>5. task'[g] = n /\ \A h \in Handlers : h # g => task'[h] = task[h]
      BY <2>2, <2>3 DEF n
    <2> QED BY <2>2, <2>4, <2>5
  <1>3. mux' = mux /\ task[g].st = "idle" /\ \A h \in Handlers : Held(h)
    BY DEF Enter, AllHeld
  <1> QED BY <1>2, <1>3 DEF Held, Inside, Lookup

LEMMA LockTaken ==
    ASSUME AllHeld, NEW g \in Handlers, GetChargePoint(g)
    PROVE  \A h \in Handlers : Held(h)'
  <1>1. task[g] \in Tasks(Len(states)) /\ \A h \in Handlers : Held(h) /\ h # NoHandler
    BY AdmissionAssumption, Typed DEF AllHeld
  <1>2. /\ task'[g].kind = task[g].kind /\ task'[g].st = Lookup /\ task'[g].at = current
        /\ \A h \in Handlers : h # g => task'[h] = task[h]
    <2>1. /\ task'[g] = [task[g] EXCEPT !.at = current, !.st = Lookup]
          /\ \A h \in Handlers : h # g => task'[h] = task[h]
      BY Typed DEF AllHeld, GetChargePoint
    <2> QED BY <1>1, <2>1 DEF Tasks
  <1>3. task[g].st = "lock" /\ mux = NoHandler /\ mux' = g
    BY DEF GetChargePoint
  <1> QED BY <1>1, <1>2, <1>3 DEF Held, Inside, Lookup

LEMMA FindHeld ==
    ASSUME AllHeld, NEW g \in Handlers,
           FindChargePoint(g) \/ AddChargePoint(g) \/ InsertChargePoint(g) \/ InitializeChargePointState(g)
    PROVE  \A h \in Handlers : Held(h)'
  <1>0. task[g] \in Tasks(Len(states)) /\ states \in Seq(Point)
    BY Typed DEF AllHeld
  <1>i. task[g].st \in {"find", "add", "insert", "init"}
    BY DEF FindChargePoint, AddChargePoint, InsertChargePoint, InitializeChargePointState
  <1>1. CASE Return(g)
    BY <1>1, Released
  <1>2. CASE Answer(g, "Blocked")
    <2> DEFINE r == [task[g] EXCEPT !.status = "Blocked", !.st = "done", !.at = 0, !.tag = NoTag]
    <2>1. r.kind = task[g].kind /\ r.st = "done"
      BY <1>0 DEF Tasks
    <2>2. task' = [task EXCEPT ![g] = r] /\ mux' = mux
      BY <1>2 DEF Answer
    <2> HIDE DEF r
    <2> QED BY <1>i, <2>1, <2>2, StaysInside
  <1>3. CASE task' = [task EXCEPT ![g] = [@ EXCEPT !.got = points[1], !.st = "init"]] /\ UNCHANGED mux
    <2> DEFINE r == [task[g] EXCEPT !.got = points[1], !.st = "init"]
    <2>1. r.kind = task[g].kind /\ r.st = "init"
      BY <1>0 DEF Tasks
    <2>2. task' = [task EXCEPT ![g] = r] /\ mux' = mux
      BY <1>3
    <2> HIDE DEF r
    <2> QED BY <1>i, <2>1, <2>2, StaysInside
  <1>4. ASSUME NEW st \in {"add", "insert", "init"}, Goto(g, st), mux' = mux
        PROVE  \A h \in Handlers : Held(h)'
    <2> DEFINE r == [task[g] EXCEPT !.st = st]
    <2>1. r.kind = task[g].kind /\ r.st = st
      BY <1>0 DEF Tasks
    <2>2. task' = [task EXCEPT ![g] = r]
      BY <1>4 DEF Goto
    <2> HIDE DEF r
    <2> QED BY <1>i, <1>4, <2>1, <2>2, StaysInside
  <1>5. CASE InitializeChargePointState(g)
    <2> DEFINE r == [task[g] EXCEPT !.at = Len(states'), !.got = NewPoint, !.st = "body"]
    <2>1. r.kind = task[g].kind /\ r.st = "body" /\ r.at = Len(states')
      BY <1>0 DEF Tasks
    <2>2. task' = [task EXCEPT ![g] = r] /\ mux' = mux
      BY <1>5 DEF InitializeChargePointState
    <2>3. Len(states') # 0
      <3>1. task[g].got \in Point
        BY <1>0 DEF Tasks
      <3> QED BY <1>0, <1>5, <3>1 DEF InitializeChargePointState
    <2> HIDE DEF r
    <2> QED BY <1>i, <2>1, <2>2, <2>3, StaysInside
  <1> QED BY <1>1, <1>2, <1>3, <1>4, <1>5 DEF FindChargePoint, AddChargePoint, InsertChargePoint

LEMMA TagHeld ==
    ASSUME AllHeld, NEW g \in Handlers,
           AuthorizeIdTag(g) \/ AddUserTag(g) \/ OcpiAnswers(g) \/ OcpiTimeout(g)
    PROVE  \A h \in Handlers : Held(h)'
  <1>0. task[g] \in Tasks(Len(states))
    BY Typed DEF AllHeld
  <1>i. task[g].st \in {"body", "newTag", "wait"}
    BY DEF AuthorizeIdTag, AddUserTag, OcpiAnswers, OcpiTimeout
  <1>1. \E r : /\ task' = [task EXCEPT ![g] = r] /\ mux' = mux
               /\ r.kind = task[g].kind /\ r.st \in {"newTag", "wait", "done"}
    <2>2. ASSUME NEW status, Answer(g, status)
          PROVE  \E r : /\ task' = [task EXCEPT ![g] = r] /\ mux' = mux
                        /\ r.kind = task[g].kind /\ r.st \in {"newTag", "wait", "done"}
      <3> DEFINE r == [task[g] EXCEPT !.status = status, !.st = "done", !.at = 0, !.tag = NoTag]
      <3>1. r.kind = task[g].kind /\ r.st = "done"
        BY <1>0 DEF Tasks
      <3>2. task' = [task EXCEPT ![g] = r] /\ mux' = mux
        BY <2>2 DEF Answer
      <3> HIDE DEF r
      <3> QED BY <3>1, <3>2
    <2>3. ASSUME NEW tag, NEW st \in {"wait", "newTag"}, mux' = mux,
                 task' = [task EXCEPT ![g] = [@ EXCEPT !.tag = tag, !.st = st, !.at = 0]]
          PROVE  \E r : /\ task' = [task EXCEPT ![g] = r] /\ mux' = mux
                        /\ r.kind = task[g].kind /\ r.st \in {"newTag", "wait", "done"}
      <3> DEFINE r == [task[g] EXCEPT !.tag = tag, !.st = st, !.at = 0]
      <3>1. r.kind = task[g].kind /\ r.st = st
        BY <1>0 DEF Tasks
      <3>2. task' = [task EXCEPT ![g] = r] /\ mux' = mux
        BY <2>3
      <3> HIDE DEF r
      <3> QED BY <3>1, <3>2
    <2>4. CASE OcpiAnswers(g)
      <3>1. PICK a, status : task' = [task EXCEPT ![g] =
                        [@ EXCEPT !.answer = a, !.status = status, !.tag = NoTag, !.st = "done"]]
        BY <2>4 DEF OcpiAnswers
      <3> DEFINE r == [task[g] EXCEPT !.answer = a, !.status = status, !.tag = NoTag, !.st = "done"]
      <3>2. r.kind = task[g].kind /\ r.st = "done"
        BY <1>0 DEF Tasks
      <3>3. task' = [task EXCEPT ![g] = r] /\ mux' = mux
        BY <2>4, <3>1 DEF OcpiAnswers
      <3> HIDE DEF r
      <3> QED BY <3>2, <3>3
    <2>5. conf.ocpi \in BOOLEAN
      BY Typed DEF AllHeld, Config
    <2>6. ASSUME NEW tag, Judge(g, tag)
          PROVE  \E r : /\ task' = [task EXCEPT ![g] = r] /\ mux' = mux
                        /\ r.kind = task[g].kind /\ r.st \in {"newTag", "wait", "done"}
      BY <2>2, <2>3, <2>5, <2>6 DEF Judge
    <2>7. CASE OcpiTimeout(g)
      BY <2>2, <2>7 DEF OcpiTimeout
    <2>8. CASE AddUserTag(g)
      BY <2>6, <2>8 DEF AddUserTag
    <2>9. CASE AuthorizeIdTag(g)
      BY <2>2, <2>3, <2>6, <2>9 DEF AuthorizeIdTag, GetUserTag
    <2> QED BY <2>4, <2>7, <2>8, <2>9
  <1> QED BY <1>i, <1>1, StaysInside

LEMMA HeldStep == ASSUME AllHeld, [Next]_vars PROVE AllHeld'
  <1> SUFFICES \A h \in Handlers : Held(h)'
    BY TypeStep DEF AllHeld
  <1>1. ASSUME NEW g \in Handlers, OnMessage(g) \/ OnClose(g) \/ OnCommand(g)
        PROVE  \A h \in Handlers : Held(h)'
    BY <1>1, EnterHeld DEF OnMessage, OnClose, OnCommand, Kinds, Locked
  <1>2. ASSUME NEW g \in Handlers, OnLookup(g) \/ OnOnlineStatusChanged(g) \/ OnAuthorize(g)
        PROVE  \A h \in Handlers : Held(h)'
    BY <1>2, Released DEF OnLookup, OnOnlineStatusChanged, OnAuthorize
  <1>3. ASSUME NEW g \in Handlers, Work(g) \/ OcpiAnswers(g)
        PROVE  \A h \in Handlers : Held(h)'
    BY <1>2, <1>3, LockTaken, FindHeld, TagHeld DEF Work, Authorize
  <1>4. ASSUME NEW t \in Tags, EditTag(t) PROVE \A h \in Handlers : Held(h)'
    <2>1. mux' = mux /\ \A h \in Handlers : Held(h) /\ task[h] \in Tasks(Len(states))
      BY <1>4, Typed DEF EditTag, AllHeld
    <2>2. ASSUME NEW h \in Handlers
          PROVE  task'[h].kind = task[h].kind /\ task'[h].st = task[h].st /\ task'[h].at = task[h].at
      <3>1. PICK v : task'[h] \in {task[h], [task[h] EXCEPT !.valid = v]}
        BY <1>4 DEF EditTag
      <3> QED BY <2>1, <3>1 DEF Tasks
    <2> QED BY <2>1, <2>2 DEF Held, Inside
  <1>5. CASE Connect \/ UNCHANGED vars
    <2>1. task' = task /\ mux' = mux
      BY <1>5 DEF Connect, vars
    <2> QED BY <2>1 DEF AllHeld, Held, Inside
  <1> QED BY <1>1, <1>3, <1>4, <1>5 DEF Next

\* Of the handlers that lock, one at a time works: h.mux is held by the one that
\* is between its Lock and its return, is free when there is none, and no early
\* return leaves it locked.  Whoever gets past the lookup has a state to work on.
THEOREM OneHandlerAtATime == Spec => [](MutexIsHeld /\ StateAtHand)
  <1>1. AllHeld => MutexIsHeld /\ StateAtHand
    <2> SUFFICES ASSUME AllHeld PROVE MutexIsHeld /\ StateAtHand
      OBVIOUS
    <2>1. \A g \in Handlers : Held(g) /\ task[g].at \in 0..Len(states) /\ Len(states) \in Nat
      BY Typed DEF AllHeld, Tasks
    <2> QED BY <2>1 DEF Held, MutexIsHeld, StateAtHand
  <1>2. Init => AllHeld
    <2> SUFFICES ASSUME Init PROVE \A g \in Handlers : Held(g)
      BY TypeInit DEF AllHeld
    <2>1. \A g \in Handlers : /\ task[g].kind = "lookup" /\ task[g].st = "idle"
                              /\ mux = NoHandler /\ g # NoHandler
      BY AdmissionAssumption DEF Init, NoTask
    <2> QED BY <2>1 DEF Held, Inside, Locked
  <1> QED BY <1>1, <1>2, HeldStep, PTL DEF Spec

-----------------------------------------------------------------------------
(***************************************************************************)
(* UpdateTag stores the copy read before the OCPI service was asked.  As   *)
(* long as no call failed and the operator changed nothing, the document   *)
(* it goes to is as disabled as the copy: a handler that asks has found it *)
(* so or has put it there, and no other handler enables it.                *)
(***************************************************************************)
\* What the handler is about to write is what the database holds.
CopyIsCurrent(g) ==
    LET docs == tags[task[g].id]
    IN /\ task[g].st = "wait" => docs # <<>> /\ ~docs[1].enabled
       /\ task[g].st = "newTag" /\ ~conf.acceptTags => docs = <<>> \/ ~docs[1].enabled

NoRace == AllJustified /\ (faults = 0 /\ edits = 0 => \A g \in Handlers : CopyIsCurrent(g))

\* A handler that has not come to its tag yet, or does not move, keeps its copy
\* current.
LEMMA StaysCurrent ==
    ASSUME AllJustified, NothingEnabled, conf' = conf, NEW h \in Handlers, CopyIsCurrent(h),
           task'[h].st \in {"wait", "newTag"} => task'[h] = task[h]
    PROVE  CopyIsCurrent(h)'
  <1>1. task[h].id \in Tags
    BY Typed DEF AllJustified, Tasks
  <1>2. tags[task[h].id] = <<>> /\ ~conf.acceptTags
          => tags'[task[h].id] = <<>> \/ ~tags'[task[h].id][1].enabled
    BY <1>1 DEF NothingEnabled, Acceptable
  <1> QED BY <1>1, <1>2 DEF NothingEnabled, CopyIsCurrent

LEMMA OtherwiseCurrent ==
    ASSUME AllJustified, NothingEnabled, conf' = conf, \A h \in Handlers : CopyIsCurrent(h),
           NEW g \in Handlers, NEW r, task' = [task EXCEPT ![g] = r],
           r.st \in {"wait", "newTag"} => CopyIsCurrent(g)'
    PROVE  \A h \in Handlers : CopyIsCurrent(h)'
  <1>1. task'[g] = r /\ \A h \in Handlers : h # g => task'[h] = task[h]
    BY Typed DEF AllJustified
  <1>2. CASE r.st \in {"wait", "newTag"}
    BY <1>1, <1>2, StaysCurrent
  <1>3. CASE r.st \notin {"wait", "newTag"}
    BY <1>1, <1>3, StaysCurrent
  <1> QED BY <1>2, <1>3

LEMMA LookupCurrent ==
    ASSUME AllJustified, NothingEnabled, conf' = conf, \A h \in Handlers : CopyIsCurrent(h),
           NEW g \in Handlers,
           \/ OnMessage(g) \/ OnClose(g) \/ OnCommand(g)
           \/ GetChargePoint(g) \/ AddChargePoint(g) \/ InsertChargePoint(g)
           \/ InitializeChargePointState(g) \/ OnLookup(g)
           \/ OnOnlineStatusChanged(g) \/ OnAuthorize(g)
    PROVE  \A h \in Handlers : CopyIsCurrent(h)'
  <1>0. task[g] \in Tasks(Len(states)) /\ NoTask \in Tasks(Len(states)) /\ NoTask.st = "idle"
    BY Typed, Records DEF AllJustified, NoTask
  <1>w. ASSUME NEW r, task' = [task EXCEPT ![g] = r], r.st \notin {"wait", "newTag"}
        PROVE  \A h \in Handlers : CopyIsCurrent(h)'
    BY <1>w, OtherwiseCurrent
  <1>1. CASE OnMessage(g) \/ OnClose(g) \/ OnCommand(g)
    <2>1. PICK kind \in Kinds, t \in Tags : Enter(g, kind, t)
      BY <1>1 DEF OnMessage, OnClose, OnCommand, Kinds, Locked
    <2> DEFINE r == [NoTask EXCEPT !.kind = kind, !.id = t, !.valid = kind = "authorize" /\ Acceptable(t),
                         !.at = IF kind \in Locked THEN 0 ELSE current,
                         !.st = IF kind \in Locked THEN "lock" ELSE Lookup]
    <2>2. r.st \notin {"wait", "newTag"}
      <3>1. \A v, a, st : [NoTask EXCEPT !.kind = kind, !.id = t, !.valid = v, !.at = a, !.st = st].st = st
        BY <1>0 DEF Tasks
      <3>2. r.st = IF kind \in Locked THEN "lock" ELSE Lookup
        BY <3>1
      <3> HIDE DEF r
      <3> QED BY <3>2 DEF Lookup
    <2> HIDE DEF r
    <2>3. task' = [task EXCEPT ![g] = r]
      BY <2>1 DEF Enter, r
    <2> QED BY <2>2, <2>3, <1>w
  <1>2. CASE OnLookup(g) \/ OnOnlineStatusChanged(g) \/ OnAuthorize(g)
    BY <1>0, <1>2, <1>w DEF OnLookup, OnOnlineStatusChanged, OnAuthorize, Return
  <1>3. CASE GetChargePoint(g)
    <2> DEFINE r == [task[g] EXCEPT !.at = current, !.st = Lookup]
    <2>1. r.st \in {"find", "body"}
      BY <1>0 DEF Tasks, Lookup
    <2>2. task' = [task EXCEPT ![g] = r]
      BY <1>3 DEF GetChargePoint
    <2> HIDE DEF r
    <2> QED BY <2>1, <2>2, <1>w
  <1>4. CASE AddChargePoint(g) \/ InsertChargePoint(g)
    <2>1. PICK st \in {"init", "insert"} : task' = [task EXCEPT ![g] = [@ EXCEPT !.st = st]]
      BY <1>4 DEF AddChargePoint, InsertChargePoint, Goto
    <2>2. [task[g] EXCEPT !.st = st].st = st
      BY <1>0 DEF Tasks
    <2> QED BY <2>1, <2>2, <1>w
  <1>5. CASE InitializeChargePointState(g)
    <2> DEFINE r == [task[g] EXCEPT !.at = Len(states'), !.got = NewPoint, !.st = "body"]
    <2>1. r.st = "body"
      BY <1>0 DEF Tasks
    <2>2. task' = [task EXCEPT ![g] = r]
      BY <1>5 DEF InitializeChargePointState
    <2> HIDE DEF r
    <2> QED BY <2>1, <2>2, <1>w
  <1> QED BY <1>1, <1>2, <1>3, <1>4, <1>5

\* The handler that asks: what it asks about is stored, and is disabled.
LEMMA JudgeCurrent ==
    ASSUME AllJustified, NothingEnabled, conf' = conf, \A h \in Handlers : CopyIsCurrent(h),
           NEW g \in Handlers, NEW tag \in Tag, Judge(g, tag),
           ~tag.enabled => tags'[task[g].id] # <<>> /\ ~tags'[task[g].id][1].enabled
    PROVE  \A h \in Handlers : CopyIsCurrent(h)'
  <1>0. task[g] \in Tasks(Len(states)) /\ conf.ocpi \in BOOLEAN /\ task \in [Handlers -> Tasks(Len(states))]
    BY Typed DEF AllJustified, Config
  <1>1. ASSUME NEW status, Answer(g, status) PROVE \A h \in Handlers : CopyIsCurrent(h)'
    <2> DEFINE r == [task[g] EXCEPT !.status = status, !.st = "done", !.at = 0, !.tag = NoTag]
    <2>1. r.st = "done"
      BY <1>0 DEF Tasks
    <2>2. task' = [task EXCEPT ![g] = r]
      BY <1>1 DEF Answer
    <2> HIDE DEF r
    <2> QED BY <2>1, <2>2, OtherwiseCurrent
  <1>2. CASE /\ ~tag.enabled
             /\ task' = [task EXCEPT ![g] = [@ EXCEPT !.tag = tag, !.st = "wait", !.at = 0]]
    <2> DEFINE r == [task[g] EXCEPT !.tag = tag, !.st = "wait", !.at = 0]
    <2>1. r.st = "wait" /\ r.id = task[g].id
      BY <1>0 DEF Tasks
    <2>2. task' = [task EXCEPT ![g] = r]
      BY <1>2
    <2> HIDE DEF r
    <2>3. task'[g] = r
      BY <1>0, <2>2
    <2>4. CopyIsCurrent(g)'
      BY <1>2, <2>1, <2>3 DEF CopyIsCurrent
    <2> QED BY <2>2, <2>4, OtherwiseCurrent
  <1> QED BY <1>0, <1>1, <1>2 DEF Judge, Tag

LEMMA TagCurrent ==
    ASSUME AllJustified, NothingEnabled, conf' = conf, \A h \in Handlers : CopyIsCurrent(h),
           faults = 0, faults' = 0, NEW g \in Handlers,
           FindChargePoint(g) \/ AuthorizeIdTag(g) \/ AddUserTag(g) \/ OcpiAnswers(g) \/ OcpiTimeout(g)
    PROVE  \A h \in Handlers : CopyIsCurrent(h)'
  <1>0. /\ task[g] \in Tasks(Len(states)) /\ task \in [Handlers -> Tasks(Len(states))]
        /\ NoTask.st = "idle" /\ task[g].id \in Tags /\ task[g].tag \in Tag
        /\ tags \in [Tags -> Seq(Tag)] /\ tags[task[g].id] \in Seq(Tag) /\ conf.acceptTags \in BOOLEAN
    BY Typed DEF AllJustified, NoTask, Tasks, Config
  <1>f. \A op : ~Fails(op)
    BY DEF Fails
  <1>w. ASSUME NEW r, task' = [task EXCEPT ![g] = r], r.st \notin {"wait", "newTag"}
        PROVE  \A h \in Handlers : CopyIsCurrent(h)'
    BY <1>w, OtherwiseCurrent
  <1>1. ASSUME NEW status, Answer(g, status) PROVE \A h \in Handlers : CopyIsCurrent(h)'
    <2> DEFINE r == [task[g] EXCEPT !.status = status, !.st = "done", !.at = 0, !.tag = NoTag]
    <2>1. r.st = "done"
      BY <1>0 DEF Tasks
    <2>2. task' = [task EXCEPT ![g] = r]
      BY <1>1 DEF Answer
    <2> HIDE DEF r
    <2> QED BY <2>1, <2>2, <1>w
  <1>2. CASE FindChargePoint(g)
    <2>1. CASE Return(g)
      BY <1>0, <2>1, <1>w DEF Return
    <2>2. CASE Goto(g, "add")
      <3>1. [task[g] EXCEPT !.st = "add"].st = "add"
        BY <1>0 DEF Tasks
      <3> QED BY <2>2, <3>1, <1>w DEF Goto
    <2>3. CASE task' = [task EXCEPT ![g] = [@ EXCEPT !.got = points[1], !.st = "init"]]
      <3>1. [task[g] EXCEPT !.got = points[1], !.st = "init"].st = "init"
        BY <1>0 DEF Tasks
      <3> QED BY <2>3, <3>1, <1>w
    <2> QED BY <1>1, <1>2, <2>1, <2>2, <2>3 DEF FindChargePoint
  <1>3. CASE AuthorizeIdTag(g)
    <2>0. tags' = tags
      BY <1>3 DEF AuthorizeIdTag
    <2> DEFINE docs == tags[task[g].id]
    <2>1. CASE docs # <<>> /\ Judge(g, docs[1])
      <3>1. docs[1] \in Tag
        BY <1>0, <2>1
      <3> QED BY <2>0, <2>1, <3>1, JudgeCurrent
    <2>2. CASE docs = <<>> /\ task' = [task EXCEPT ![g] =
                   [@ EXCEPT !.tag = [enabled |-> conf.acceptTags, owned |-> FALSE], !.st = "newTag", !.at = 0]]
      <3>1. PICK tag : tag = [enabled |-> conf.acceptTags, owned |-> FALSE]
        OBVIOUS
      <3> DEFINE r == [task[g] EXCEPT !.tag = tag, !.st = "newTag", !.at = 0]
      <3>2. r.st = "newTag" /\ r.id = task[g].id
        BY <1>0 DEF Tasks
      <3>3. task' = [task EXCEPT ![g] = r]
        BY <2>2, <3>1
      <3> HIDE DEF r
      <3>4. task'[g] = r
        BY <1>0, <3>3
      <3>5. CopyIsCurrent(g)'
        BY <2>0, <2>2, <3>2, <3>4 DEF CopyIsCurrent
      <3> QED BY <3>3, <3>5, OtherwiseCurrent
    <2> QED BY <1>1, <1>3, <1>f, <2>1, <2>2 DEF AuthorizeIdTag, GetUserTag
  <1>4. CASE AddUserTag(g)
    <2> DEFINE docs == tags[task[g].id]
    <2>1. /\ Judge(g, task[g].tag) /\ task[g].st = "newTag" /\ task[g].tag.enabled = conf.acceptTags
          /\ ~conf.acceptTags => docs = <<>> \/ ~docs[1].enabled
      BY <1>4 DEF AddUserTag, AllJustified, Justified, CopyIsCurrent
    <2>2. CASE docs # <<>> /\ tags' = tags
      BY <1>0, <2>1, <2>2, JudgeCurrent
    <2>3. CASE docs = <<>> /\ tags' = [tags EXCEPT ![task[g].id] = Append(docs, task[g].tag)]
      <3>1. tags'[task[g].id] = Append(docs, task[g].tag)
        BY <1>0, <2>3
      <3>2. tags'[task[g].id] # <<>> /\ tags'[task[g].id][1] = task[g].tag
        BY <1>0, <2>3, <3>1
      <3> QED BY <1>0, <2>1, <3>2, JudgeCurrent
    <2> QED BY <1>4, <1>f, <2>2, <2>3 DEF AddUserTag
  <1>5. CASE OcpiAnswers(g)
    <2>1. PICK a, status : task' = [task EXCEPT ![g] =
                      [@ EXCEPT !.answer = a, !.status = status, !.tag = NoTag, !.st = "done"]]
      BY <1>5 DEF OcpiAnswers
    <2>2. [task[g] EXCEPT !.answer = a, !.status = status, !.tag = NoTag, !.st = "done"].st = "done"
      BY <1>0 DEF Tasks
    <2> QED BY <2>1, <2>2, <1>w
  <1>6. CASE OcpiTimeout(g)
    BY <1>1, <1>6 DEF OcpiTimeout
  <1> QED BY <1>2, <1>3, <1>4, <1>5, <1>6

LEMMA NoRaceStep == ASSUME NoRace, [Next]_vars PROVE NoRace'
  <1>0. AllJustified /\ AllJustified'
    BY JustifiedStep DEF NoRace
  <1> SUFFICES ASSUME faults' = 0, edits' = 0 PROVE \A h \in Handlers : CopyIsCurrent(h)'
    BY <1>0 DEF NoRace
  <1>1. \A t \in Tags : ~EditTag(t)
    BY <1>0, Typed DEF AllJustified, EditTag
  <1>2. conf' = conf /\ faults = 0 /\ edits = 0
    <2>0. faults \in Nat /\ edits \in Nat /\ (faults' \in {faults, faults + 1} => faults = 0)
      BY <1>0, Typed DEF AllJustified
    <2>1. ASSUME NEW g \in Handlers, OnMessage(g) \/ OnClose(g) \/ OnCommand(g)
          PROVE  UNCHANGED <<conf, edits>> /\ faults' = faults
      BY <2>1 DEF OnMessage, OnClose, OnCommand, Enter, bounds
    <2>2. ASSUME NEW g \in Handlers, GetChargePoint(g) \/ FindChargePoint(g) \/ AddChargePoint(g)
                          \/ InsertChargePoint(g) \/ InitializeChargePointState(g) \/ OnLookup(g)
          PROVE  UNCHANGED <<conf, edits>> /\ faults' \in {faults, faults + 1}
      BY <2>2 DEF GetChargePoint, FindChargePoint, AddChargePoint, InsertChargePoint,
                  InitializeChargePointState, OnLookup, Works, Fails, bounds
    <2>3. ASSUME NEW g \in Handlers, OnOnlineStatusChanged(g) \/ Authorize(g) \/ OcpiAnswers(g)
          PROVE  UNCHANGED <<conf, edits>> /\ faults' \in {faults, faults + 1}
      BY <2>3 DEF OnOnlineStatusChanged, Authorize, AuthorizeIdTag, GetUserTag, AddUserTag, OcpiTimeout,
                  OnAuthorize, OcpiAnswers, Works, Fails, bounds
    <2>4. CASE Connect \/ UNCHANGED vars
      BY <2>4 DEF Connect, vars, bounds
    <2> QED BY <1>1, <2>0, <2>1, <2>2, <2>3, <2>4 DEF Next, Work
  <1>3. NothingEnabled /\ \A h \in Handlers : CopyIsCurrent(h)
    BY <1>0, <1>1, <1>2, OnlyEdits DEF NoRace
  <1>4. ASSUME NEW g \in Handlers,
               OnMessage(g) \/ OnClose(g) \/ OnCommand(g) \/ Work(g) \/ OcpiAnswers(g)
        PROVE  \A h \in Handlers : CopyIsCurrent(h)'
    <2>1. CASE FindChargePoint(g) \/ AuthorizeIdTag(g) \/ AddUserTag(g) \/ OcpiAnswers(g) \/ OcpiTimeout(g)
      BY <1>0, <1>2, <1>3, <2>1, TagCurrent
    <2>2. CASE \/ OnMessage(g) \/ OnClose(g) \/ OnCommand(g)
               \/ GetChargePoint(g) \/ AddChargePoint(g) \/ InsertChargePoint(g)
               \/ InitializeChargePointState(g) \/ OnLookup(g)
               \/ OnOnlineStatusChanged(g) \/ OnAuthorize(g)
      BY <1>0, <1>2, <1>3, <2>2, LookupCurrent
    <2> QED BY <1>4, <2>1, <2>2 DEF Work, Authorize
  <1>5. CASE Connect \/ UNCHANGED vars
    <2>1. task' = task
      BY <1>5 DEF Connect, vars
    <2> QED BY <1>0, <1>2, <1>3, <2>1, StaysCurrent
  <1> QED BY <1>1, <1>4, <1>5 DEF Next

\* With an OCPI service that gives whatever answers it likes, a stored tag that
\* is enabled is disabled only after the operator changed a tag or a call of the
\* database failed: the copy that UpdateTag stores is never out of date by what
\* the handlers did alone.
THEOREM EnabledKept ==
    Spec => [][\A t \in Tags : tags[t] # <<>> /\ tags[t][1].enabled /\ ~tags'[t][1].enabled
                  => edits' > 0 \/ faults > 0]_vars
  <1>1. ASSUME NoRace, [Next]_vars, NEW t \in Tags,
               tags[t] # <<>>, tags[t][1].enabled, ~tags'[t][1].enabled
        PROVE  edits' > 0 \/ faults > 0
    <2>0. /\ tags \in [Tags -> Seq(Tag)] /\ edits \in Nat /\ faults \in Nat
          /\ \A g \in Handlers : task[g].id \in Tags /\ task[g].tag \in Tag
      BY <1>1, Typed DEF NoRace, AllJustified, Tasks
    <2>1. ASSUME NEW g \in Handlers, AddUserTag(g) PROVE tags'[t][1] = tags[t][1]
      <3>1. CASE tags' = tags
        BY <3>1
      <3>2. CASE tags' = [tags EXCEPT ![task[g].id] = Append(tags[task[g].id], task[g].tag)]
        <4>1. tags'[t] = IF t = task[g].id THEN Append(tags[t], task[g].tag) ELSE tags[t]
          BY <2>0, <3>2
        <4>2. Append(tags[t], task[g].tag)[1] = tags[t][1]
          BY <1>1, <2>0
        <4> QED BY <4>1, <4>2
      <3> QED BY <2>1, <3>1, <3>2 DEF AddUserTag
    <2>2. ASSUME NEW g \in Handlers, OnMessage(g) \/ OnClose(g) \/ OnCommand(g) PROVE tags' = tags
      BY <2>2 DEF OnMessage, OnClose, OnCommand, Enter
    <2>3. ASSUME NEW g \in Handlers, Work(g), ~AddUserTag(g) PROVE tags' = tags
      BY <2>3 DEF Work, Authorize, GetChargePoint, FindChargePoint, AddChargePoint, InsertChargePoint,
                  InitializeChargePointState, OnLookup, OnOnlineStatusChanged, AuthorizeIdTag,
                  OcpiTimeout, OnAuthorize
    <2>4. ASSUME NEW g \in Handlers, OcpiAnswers(g) PROVE edits' > 0 \/ faults > 0
      <3>0. edits' = edits /\ task[g].st = "wait"
        BY <2>4 DEF OcpiAnswers
      <3>1. CASE task[g].id = t
        BY <1>1, <2>0, <3>0, <3>1 DEF NoRace, CopyIsCurrent
      <3>2. CASE task[g].id # t
        BY <1>1, <2>0, <2>4, <3>2 DEF OcpiAnswers
      <3> QED BY <3>1, <3>2
    <2>5. ASSUME NEW u \in Tags, EditTag(u) PROVE edits' > 0
      BY <2>0, <2>5 DEF EditTag
    <2>6. CASE Connect \/ UNCHANGED vars
      BY <1>1, <2>6 DEF Connect, vars
    <2> QED BY <1>1, <2>1, <2>2, <2>3, <2>4, <2>5, <2>6 DEF Next
  <1>2. NoRace /\ [Next]_vars
          => [\A t \in Tags : tags[t] # <<>> /\ tags[t][1].enabled /\ ~tags'[t][1].enabled
                 => edits' > 0 \/ faults > 0]_vars
    BY <1>1
  <1>3. Init => NoRace
    <2> SUFFICES ASSUME Init PROVE NoRace
      OBVIOUS
    <2>1. \A g \in Handlers : task[g].st = "idle"
      BY DEF Init, NoTask
    <2> QED BY <2>1, JustifiedInit DEF NoRace, CopyIsCurrent
  <1> QED BY <1>2, <1>3, NoRaceStep, PTL DEF Spec

-----------------------------------------------------------------------------
(***************************************************************************)
(* The bot's replies and the events on their way to it.                    *)
(***************************************************************************)
CONSTANTS Writers, Subscribed, NoUser, Events, NoEvent, EventKinds, BotFaults,
          EventBuffer, SendBuffer, MaxCommands, MaxBotFaults, MaxRestarts

VARIABLES caller, eventKind, post, tries, event, pump, heard, command,
          send, stopped, commands, botFaults, restarts

Bot == INSTANCE Notifications
           WITH Kinds <- EventKinds, FaultKinds <- BotFaults, MaxFaults <- MaxBotFaults,
                kind <- eventKind, faults <- botFaults

\* The event in hand is one that was raised, and an event is tried only after its
\* goroutine came to the OCPI listener, so that its attempts are counted from 0.
BotInv ==
    /\ Bot!TypeOK
    /\ pump.event \in Events \/ pump = Bot!IdlePump
    /\ \A e \in Events : /\ caller[e] \in {"none", "bot", "ocpi"} => post[e] = "none" /\ tries[e] = 0
                         /\ post[e] = "try" => tries[e] < Bot!MaxTries

LEMMA BotInit == ASSUME Bot!NotificationsAssumption, Bot!Init PROVE BotInv
  <1> USE DEF Bot!NotificationsAssumption, Bot!Init
  <1>1. pump \in [event : Events \cup {NoEvent}, seen : SUBSET Users, due : SUBSET Users]
    BY DEF Bot!IdlePump
  <1>2. command \in [user : Users \cup {NoUser}, name : Bot!Commands, ok : BOOLEAN,
                     st : {"idle", "database", "reply"}]
    BY DEF Bot!NoCommand, Bot!Commands
  <1>3. eventKind \in [Events -> Bot!AllKinds]
    OBVIOUS
  <1>4. saved \in [Users -> Nat] /\ subscriptions \subseteq Users
    OBVIOUS
  <1>5. event \in Seq(Events) /\ Len(event) <= EventBuffer /\ send \in 0..SendBuffer
    OBVIOUS
  <1>6. /\ commands \in 0..MaxCommands /\ botFaults \in 0..MaxBotFaults /\ restarts \in 0..MaxRestarts
    OBVIOUS
  <1>s. stopped \in BOOLEAN
    OBVIOUS
  <1>7. /\ caller \in [Events -> {"none", "bot", "ocpi", "done", "lost"}]
        /\ post \in [Events -> {"none", "try", "ok", "failed"}]
        /\ tries \in [Events -> 0..Bot!MaxTries]
        /\ \A e \in Events : post[e] = "none" /\ tries[e] = 0
    BY DEF Bot!MaxTries
  <1>8. heard \in [Users -> SUBSET Events] /\ promise \in [Users -> {"none", "on", "off", "error"}]
    OBVIOUS
  <1>9. pump = Bot!IdlePump
    OBVIOUS
  <1> USE ONLY <1>1, <1>2, <1>3, <1>4, <1>5, <1>6, <1>s, <1>7, <1>8, <1>9
  <1> QED BY DEF BotInv, Bot!TypeOK

\* A call of the database that fails is counted.
LEMMA BotCounted ==
    ASSUME Bot!NotificationsAssumption, Bot!TypeOK, NEW op, Bot!Works \/ Bot!Fails(op)
    PROVE  botFaults' \in 0..MaxBotFaults
  BY DEF Bot!NotificationsAssumption, Bot!TypeOK, Bot!Works, Bot!Fails

\* The goroutines of the events and the OCPI client.
LEMMA EventTyped ==
    ASSUME Bot!NotificationsAssumption, BotInv, NEW e \in Events,
           Bot!Notify(e) \/ Bot!CallBot(e) \/ Bot!CallOcpi(e) \/ Bot!DoRequest(e)
    PROVE  BotInv'
  <1> USE DEF BotInv, Bot!eventVars, Bot!userVars, Bot!bounds, Bot!notifyVars, Bot!ocpiVars, Bot!MaxTries
  <1>1. CASE Bot!Notify(e)
    BY <1>1 DEF Bot!Notify, Bot!TypeOK
  <1>2. CASE Bot!CallBot(e)
    <2>1. event' \in Seq(Events) /\ Len(event') <= EventBuffer
      <3>1. event \in Seq(Events) /\ Len(event) <= EventBuffer /\ EventBuffer \in Nat
        BY DEF Bot!TypeOK, Bot!NotificationsAssumption
      <3>2. event' = event \/ (Len(event) < EventBuffer /\ event' = Append(event, e))
        BY <1>2 DEF Bot!CallBot
      <3> QED BY <3>1, <3>2
    <2>2. /\ caller' = [caller EXCEPT ![e] = "ocpi"] /\ caller[e] = "bot"
          /\ UNCHANGED <<eventKind, Bot!ocpiVars, pump, heard, Bot!userVars, stopped, Bot!bounds>>
      BY <1>2 DEF Bot!CallBot
    <2> QED BY <2>1, <2>2 DEF Bot!TypeOK
  <1>3. CASE Bot!CallOcpi(e)
    BY <1>3 DEF Bot!CallOcpi, Bot!TypeOK
  <1>4. CASE Bot!DoRequest(e)
    <2>1. /\ tries' = [tries EXCEPT ![e] = @ + 1] /\ post[e] = "try"
          /\ UNCHANGED <<Bot!notifyVars, Bot!eventVars, Bot!userVars, stopped, Bot!bounds>>
      BY <1>4 DEF Bot!DoRequest
    <2>2. PICK p \in {"ok", "try", "failed"} :
             post' = [post EXCEPT ![e] = p] /\ (p = "try" => tries'[e] < Bot!MaxTries)
      BY <1>4 DEF Bot!DoRequest
    <2>3. tries \in [Events -> 0..3] /\ tries[e] < 3 /\ caller[e] \notin {"none", "bot", "ocpi"}
      BY <2>1 DEF Bot!TypeOK
    <2>4. tries' \in [Events -> 0..3] /\ tries'[e] = tries[e] + 1
      BY <2>1, <2>3
    <2>5. post' \in [Events -> {"none", "try", "ok", "failed"}]
      BY <2>2 DEF Bot!TypeOK
    <2>6. \A f \in Events : /\ caller'[f] \in {"none", "bot", "ocpi"} => post'[f] = "none" /\ tries'[f] = 0
                            /\ post'[f] = "try" => tries'[f] < 3
      BY <2>1, <2>2, <2>3, <2>4 DEF Bot!TypeOK
    <2> QED BY <2>1, <2>4, <2>5, <2>6 DEF Bot!TypeOK
  <1> QED BY <1>1, <1>2, <1>3, <1>4

\* The pump of the events.
LEMMA PumpTyped ==
    ASSUME Bot!NotificationsAssumption, BotInv, Bot!EventPump
    PROVE  BotInv'
  <1> USE DEF BotInv, Bot!userVars, Bot!bounds, Bot!notifyVars, Bot!ocpiVars
  <1>1. CASE Bot!TakeEvent
    <2>1. /\ event' \in Seq(Events) /\ Len(event') <= EventBuffer /\ Head(event) \in Events
      <3>1. event \in Seq(Events) /\ event # <<>> /\ event' = Tail(event) /\ Len(event) <= EventBuffer
        BY <1>1 DEF Bot!TakeEvent, Bot!TypeOK
      <3>2. EventBuffer \in Nat
        BY DEF Bot!NotificationsAssumption
      <3> QED BY <3>1, <3>2
    <2>2. /\ pump' = [event |-> Head(event), seen |-> {}, due |-> subscriptions]
          /\ UNCHANGED <<Bot!notifyVars, Bot!ocpiVars, heard, Bot!userVars, stopped, Bot!bounds>>
      BY <1>1 DEF Bot!TakeEvent
    <2> QED BY <2>1, <2>2 DEF Bot!TypeOK
  <1>2. ASSUME NEW u \in Users, Bot!SendMessage(u) PROVE BotInv'
    <2>1. /\ pump.event \in Events
          /\ heard' = [heard EXCEPT ![u] = @ \cup {pump.event}]
          /\ pump' = [pump EXCEPT !.seen = @ \cup {u}]
          /\ UNCHANGED <<Bot!notifyVars, Bot!ocpiVars, event, Bot!userVars, stopped, Bot!bounds>>
      BY <1>2 DEF Bot!SendMessage
    <2>2. heard' \in [Users -> SUBSET Events]
      BY <2>1 DEF Bot!TypeOK
    <2>3. /\ pump' \in [event : Events \cup {NoEvent}, seen : SUBSET Users, due : SUBSET Users]
          /\ pump'.event \in Events
      BY <2>1 DEF Bot!TypeOK
    <2> QED BY <2>1, <2>2, <2>3 DEF Bot!TypeOK
  <1>3. CASE Bot!EventSent
    BY <1>3 DEF Bot!EventSent, Bot!TypeOK, Bot!IdlePump
  <1> QED BY <1>1, <1>2, <1>3 DEF Bot!EventPump

LEMMA IdleStaysIdle ==
    ASSUME NEW u PROVE [Bot!IdlePump EXCEPT !.due = @ \ {u}, !.seen = @ \ {u}] = Bot!IdlePump
  <1> DEFINE One == [event : {NoEvent}, seen : {{}}, due : {{}}]
  <1>1. \A r \in One : r = Bot!IdlePump
    BY DEF Bot!IdlePump
  <1>2. Bot!IdlePump \in One
    BY DEF Bot!IdlePump
  <1>3. {} \ {u} = {}
    OBVIOUS
  <1>4. \A r \in One : [r EXCEPT !.due = @ \ {u}, !.seen = @ \ {u}] \in One
    BY <1>3
  <1> QED BY <1>1, <1>2, <1>4

\* The pump of the commands, the replies and the start and end of the process.
LEMMA CommandTyped ==
    ASSUME Bot!NotificationsAssumption, BotInv,
           \/ Bot!UpdatesPump \/ Bot!SendPump \/ Bot!Stop
           \/ \E u \in Writers, c \in Bot!Commands : Bot!Receive(u, c)
    PROVE  BotInv'
  <1> USE DEF BotInv, Bot!bounds, Bot!notifyVars, Bot!ocpiVars, Bot!eventVars
  <1>1. CASE Bot!AddSubscription
    <2>1. PICK ok \in BOOLEAN : command' = [command EXCEPT !.st = "reply", !.ok = ok]
      BY <1>1 DEF Bot!AddSubscription
    <2>2. command' \in [user : Users \cup {NoUser}, name : Bot!Commands, ok : BOOLEAN,
                        st : {"idle", "database", "reply"}]
      BY <2>1 DEF Bot!TypeOK
    <2>3. saved' \in [Users -> Nat]
      BY <1>1 DEF Bot!AddSubscription, Bot!TypeOK
    <2>4. botFaults' \in 0..MaxBotFaults
      BY <1>1, BotCounted DEF Bot!AddSubscription
    <2> QED BY <1>1, <2>2, <2>3, <2>4 DEF Bot!AddSubscription, Bot!TypeOK
  <1>2. CASE Bot!DeleteSubscription
    <2>1. command' \in [user : Users \cup {NoUser}, name : Bot!Commands, ok : BOOLEAN,
                        st : {"idle", "database", "reply"}]
      BY <1>2 DEF Bot!DeleteSubscription, Bot!TypeOK
    <2>2. saved' \in [Users -> Nat]
      <3>1. saved \in [Users -> Nat]
        BY DEF Bot!TypeOK
      <3>2. \A n \in Nat : (IF n = 0 THEN 0 ELSE n - 1) \in Nat
        OBVIOUS
      <3>3. \/ saved' = saved
            \/ saved' = [saved EXCEPT ![command.user] = IF @ = 0 THEN 0 ELSE @ - 1]
        BY <1>2 DEF Bot!DeleteSubscription
      <3> QED BY <3>1, <3>2, <3>3
    <2>3. botFaults' \in 0..MaxBotFaults
      BY <1>2, BotCounted DEF Bot!DeleteSubscription
    <2> QED BY <1>2, <2>1, <2>2, <2>3 DEF Bot!DeleteSubscription, Bot!TypeOK
  <1>3. CASE Bot!Reply
    <2>1. /\ command' \in [user : Users \cup {NoUser}, name : Bot!Commands, ok : BOOLEAN,
                           st : {"idle", "database", "reply"}]
          /\ send' \in 0..SendBuffer
      BY <1>3 DEF Bot!Reply, Bot!TypeOK, Bot!NoCommand, Bot!Commands, Bot!NotificationsAssumption
    <2>2. promise' \in [Users -> {"none", "on", "off", "error"}]
      BY <1>3 DEF Bot!Reply, Bot!TypeOK, Bot!Says
    <2> QED BY <1>3, <2>1, <2>2 DEF Bot!Reply, Bot!TypeOK
  <1>4. CASE Bot!SendPump \/ Bot!Stop
    <2>s. stopped' \in BOOLEAN
      <3>1. stopped \in BOOLEAN /\ (stopped' = TRUE \/ stopped' = stopped)
        BY <1>4 DEF Bot!SendPump, Bot!Stop, Bot!TypeOK
      <3> QED BY <3>1
    <2>1. send' \in 0..SendBuffer
      <3>1. send \in 0..SendBuffer /\ SendBuffer \in Nat
        BY DEF Bot!TypeOK, Bot!NotificationsAssumption
      <3>2. (send > 0 /\ send' = send - 1) \/ send' = send
        BY <1>4 DEF Bot!SendPump, Bot!Stop, Bot!userVars
      <3> QED BY <3>1, <3>2
    <2>2. UNCHANGED <<Bot!notifyVars, Bot!ocpiVars, Bot!eventVars, subscriptions, saved, command,
                      promise, Bot!bounds>>
      BY <1>4 DEF Bot!SendPump, Bot!Stop, Bot!userVars
    <2> QED BY <2>s, <2>1, <2>2 DEF Bot!TypeOK
  <1>5. ASSUME NEW u \in Writers, NEW c \in Bot!Commands, Bot!Receive(u, c) PROVE BotInv'
    <2>0. u \in Users
      BY DEF Bot!NotificationsAssumption
    <2>1. /\ pump' \in [event : Events \cup {NoEvent}, seen : SUBSET Users, due : SUBSET Users]
          /\ pump'.event \in Events \/ pump' = Bot!IdlePump
      <3>1. \/ pump' = pump
            \/ pump' = [pump EXCEPT !.due = @ \ {u}, !.seen = @ \ {u}]
        BY <1>5 DEF Bot!Receive
      <3>2. pump \in [event : Events \cup {NoEvent}, seen : SUBSET Users, due : SUBSET Users]
        BY DEF Bot!TypeOK
      <3> DEFINE p == [pump EXCEPT !.due = @ \ {u}, !.seen = @ \ {u}]
      <3>3. /\ p \in [event : Events \cup {NoEvent}, seen : SUBSET Users, due : SUBSET Users]
            /\ p.event = pump.event
        BY <3>2
      <3>4. pump = Bot!IdlePump => p = Bot!IdlePump
        BY IdleStaysIdle
      <3> HIDE DEF p
      <3>5. pump' = pump \/ pump' = p
        BY <3>1 DEF p
      <3> QED BY <3>2, <3>3, <3>4, <3>5
    <2>2. command' \in [user : Users \cup {NoUser}, name : Bot!Commands, ok : BOOLEAN,
                        st : {"idle", "database", "reply"}]
      <3>1. command' = [user |-> u, name |-> c, ok |-> TRUE, st |-> "database"]
        BY <1>5 DEF Bot!Receive
      <3> QED BY <2>0, <3>1
    <2>3. subscriptions' \subseteq Users /\ promise' \in [Users -> {"none", "on", "off", "error"}]
      <3>1. /\ subscriptions \subseteq Users /\ promise \in [Users -> {"none", "on", "off", "error"}]
            /\ promise' = [promise EXCEPT ![u] = "none"]
            /\ subscriptions' \in {subscriptions \cup {u}, subscriptions \ {u}}
        BY <1>5 DEF Bot!Receive, Bot!TypeOK
      <3> QED BY <2>0, <3>1
    <2>4. commands' \in 0..MaxCommands
      <3>1. /\ commands \in 0..MaxCommands /\ MaxCommands \in Nat
            /\ commands < MaxCommands /\ commands' = commands + 1
        BY <1>5 DEF Bot!Receive, Bot!TypeOK, Bot!NotificationsAssumption
      <3> QED BY <3>1
    <2>5. UNCHANGED <<Bot!notifyVars, Bot!ocpiVars, event, heard, saved, send, stopped, botFaults, restarts>>
      BY <1>5 DEF Bot!Receive
    <2> QED BY <2>1, <2>2, <2>3, <2>4, <2>5 DEF Bot!TypeOK
  <1> QED BY <1>1, <1>2, <1>3, <1>4, <1>5 DEF Bot!UpdatesPump

LEMMA RestartTyped ==
    ASSUME Bot!NotificationsAssumption, BotInv, Bot!Restart
    PROVE  BotInv'
  <1>1. /\ caller' \in [Events -> {"none", "bot", "ocpi", "done", "lost"}]
        /\ post' = [e \in Events |-> "none"] /\ tries' = [e \in Events |-> 0]
        /\ event' = <<>> /\ pump' = Bot!IdlePump /\ send' = 0
        /\ heard' = [u \in Users |-> {}] /\ stopped' = FALSE
        /\ UNCHANGED <<eventKind, saved, promise, commands>>
    BY DEF Bot!Restart
  <1>2. /\ pump' \in [event : Events \cup {NoEvent}, seen : SUBSET Users, due : SUBSET Users]
        /\ command' \in [user : Users \cup {NoUser}, name : Bot!Commands, ok : BOOLEAN,
                         st : {"idle", "database", "reply"}]
    BY DEF Bot!Restart, Bot!IdlePump, Bot!NoCommand, Bot!Commands
  <1>3. subscriptions' \subseteq Users /\ restarts' \in 0..MaxRestarts
    BY DEF Bot!Restart, BotInv, Bot!TypeOK, Bot!NotificationsAssumption
  <1>4. botFaults' \in 0..MaxBotFaults
    BY BotCounted DEF Bot!Restart, BotInv
  <1>5. /\ post' \in [Events -> {"none", "try", "ok", "failed"}]
        /\ tries' \in [Events -> 0..Bot!MaxTries]
        /\ \A e \in Events : post'[e] = "none" /\ tries'[e] = 0
    BY <1>1 DEF Bot!MaxTries
  <1>6. event' \in Seq(Events) /\ Len(event') <= EventBuffer /\ send' \in 0..SendBuffer
    BY <1>1 DEF Bot!NotificationsAssumption
  <1>7. heard' \in [Users -> SUBSET Events] /\ stopped' \in BOOLEAN
    BY <1>1
  <1>8. /\ eventKind' \in [Events -> Bot!AllKinds] /\ saved' \in [Users -> Nat]
        /\ promise' \in [Users -> {"none", "on", "off", "error"}] /\ commands' \in 0..MaxCommands
    BY <1>1 DEF BotInv, Bot!TypeOK
  <1>9. caller' \in [Events -> {"none", "bot", "ocpi", "done", "lost"}] /\ pump' = Bot!IdlePump
    BY <1>1
  <1> QED BY <1>2, <1>3, <1>4, <1>5, <1>6, <1>7, <1>8, <1>9 DEF BotInv, Bot!TypeOK

LEMMA BotStep ==
    ASSUME Bot!NotificationsAssumption, BotInv, [Bot!Next]_(Bot!vars)
    PROVE  BotInv'
  <1>1. CASE UNCHANGED Bot!vars
    BY <1>1 DEF BotInv, Bot!TypeOK, Bot!vars, Bot!notifyVars, Bot!ocpiVars, Bot!eventVars, Bot!userVars, Bot!bounds
  <1> QED BY <1>1, EventTyped, PumpTyped, CommandTyped, RestartTyped DEF Bot!Next

\* The channels of the bot keep within their capacities, whoever writes and
\* whether or not Telegram answers, and no event is sent to the partner more than
\* MaxTries times by one process.
THEOREM BotTyped == ASSUME Bot!NotificationsAssumption PROVE Bot!Spec => []Bot!TypeOK
  <1>1. BotInv => Bot!TypeOK
    BY DEF BotInv
  <1>2. Bot!Init => BotInv
    BY BotInit
  <1>3. BotInv /\ [Bot!Next]_(Bot!vars) => BotInv'
    BY BotStep
  <1> QED BY <1>1, <1>2, <1>3, PTL DEF Bot!Spec

\* A command that is being worked on has withdrawn what its user was told before,
\* and one that is about to reply has done to the documents what it will say.
\* A user has one document at most, so that the one Delete removes them all.
ReplyInv ==
    /\ BotInv /\ Bot!RepliesAreTrue
    /\ \A u \in Users : saved[u] <= 1
    /\ command.st # "idle" =>
          /\ command.user \in Users /\ promise[command.user] = "none"
          /\ command.name = "stop" => command.user \notin subscriptions
    /\ command.st = "reply" =>
          IF command.name = "stop" THEN saved[command.user] = 0
          ELSE command.ok => saved[command.user] > 0

LEMMA ReplyInit == ASSUME Bot!NotificationsAssumption, Bot!Init PROVE ReplyInv
  <1>1. command.st = "idle"
    BY DEF Bot!Init, Bot!NoCommand
  <1>2. /\ \A u \in Users : saved[u] <= 1
        /\ Bot!RepliesAreTrue
    BY DEF Bot!Init, Bot!RepliesAreTrue
  <1> QED BY <1>1, <1>2, BotInit DEF ReplyInv

\* Steps that have nothing to do with the users.
LEMMA OtherSteps ==
    ASSUME ReplyInv, BotInv', UNCHANGED <<subscriptions, saved, command, promise>>
    PROVE  ReplyInv'
  BY DEF ReplyInv, Bot!RepliesAreTrue

LEMMA ReceiveTrue ==
    ASSUME Bot!NotificationsAssumption, ReplyInv, BotInv',
           NEW u \in Writers, NEW c \in Bot!Commands, Bot!Receive(u, c)
    PROVE  ReplyInv'
  <1>1. u \in Users
    BY DEF Bot!NotificationsAssumption
  <1>2. command' = [user |-> u, name |-> c, ok |-> TRUE, st |-> "database"]
    BY DEF Bot!Receive
  <1>3. command'.user = u /\ command'.name = c /\ command'.st = "database"
    BY <1>2
  <1>4. /\ promise' = [promise EXCEPT ![u] = "none"] /\ saved' = saved
        /\ subscriptions' = IF c = "start" THEN subscriptions \cup {u} ELSE subscriptions \ {u}
        /\ promise \in [Users -> {"none", "on", "off", "error"}]
    BY DEF Bot!Receive, ReplyInv, BotInv, Bot!TypeOK
  <1>5. Bot!RepliesAreTrue'
    BY <1>1, <1>4 DEF ReplyInv, Bot!RepliesAreTrue
  <1>6. promise'[u] = "none" /\ (c = "stop" => u \notin subscriptions')
    BY <1>1, <1>4
  <1> QED BY <1>1, <1>3, <1>4, <1>5, <1>6 DEF ReplyInv

LEMMA AddTrue ==
    ASSUME Bot!NotificationsAssumption, {"DeleteSubscription", "GetSubscription"} \cap BotFaults = {},
           ReplyInv, BotInv', Bot!AddSubscription
    PROVE  ReplyInv'
  <1> DEFINE u == command.user
  <1>0. /\ command \in [user : Users \cup {NoUser}, name : Bot!Commands, ok : BOOLEAN,
                        st : {"idle", "database", "reply"}]
        /\ saved \in [Users -> Nat] /\ promise \in [Users -> {"none", "on", "off", "error"}]
    BY DEF ReplyInv, BotInv, Bot!TypeOK
  <1>1. u \in Users /\ promise[u] = "none" /\ command.name = "start" /\ UNCHANGED <<promise, subscriptions>>
    BY DEF ReplyInv, Bot!AddSubscription
  <1>2. PICK ok \in BOOLEAN :
           /\ command' = [command EXCEPT !.st = "reply", !.ok = ok]
           /\ \/ ok = FALSE /\ saved' = saved
              \/ ~Bot!Refused(u) /\ saved' = [saved EXCEPT ![u] = @ + 1]
    BY DEF Bot!AddSubscription, Bot!Fails
  <1>3. command'.user = u /\ command'.name = "start" /\ command'.ok = ok /\ command'.st = "reply"
    BY <1>0, <1>1, <1>2
  <1>4. saved' = saved \/ (saved[u] = 0 /\ saved' = [saved EXCEPT ![u] = 1])
    BY <1>0, <1>1, <1>2 DEF Bot!Refused
  <1>5. ok => saved'[u] > 0
    BY <1>0, <1>1, <1>2
  <1>6. \A v \in Users : saved'[v] <= 1 /\ (v # u => saved'[v] = saved[v])
    BY <1>0, <1>4 DEF ReplyInv
  <1>7. Bot!RepliesAreTrue'
    BY <1>1, <1>6 DEF ReplyInv, Bot!RepliesAreTrue
  <1> HIDE DEF u
  <1> QED BY <1>1, <1>3, <1>5, <1>6, <1>7 DEF ReplyInv

LEMMA DeleteTrue ==
    ASSUME Bot!NotificationsAssumption, {"DeleteSubscription", "GetSubscription"} \cap BotFaults = {},
           ReplyInv, BotInv', Bot!DeleteSubscription
    PROVE  ReplyInv'
  <1> DEFINE u == command.user
  <1>0. /\ command \in [user : Users \cup {NoUser}, name : Bot!Commands, ok : BOOLEAN,
                        st : {"idle", "database", "reply"}]
        /\ saved \in [Users -> Nat] /\ promise \in [Users -> {"none", "on", "off", "error"}]
    BY DEF ReplyInv, BotInv, Bot!TypeOK
  <1>1. /\ u \in Users /\ promise[u] = "none" /\ command.name = "stop" /\ u \notin subscriptions
        /\ UNCHANGED <<promise, subscriptions>>
    BY DEF ReplyInv, Bot!DeleteSubscription
  <1>2. /\ command' = [command EXCEPT !.st = "reply"]
        /\ saved' = [saved EXCEPT ![u] = IF @ = 0 THEN 0 ELSE @ - 1]
    BY DEF Bot!DeleteSubscription, Bot!Fails
  <1>3. command'.user = u /\ command'.name = "stop" /\ command'.st = "reply"
    BY <1>0, <1>1, <1>2
  <1>4. saved'[u] = 0 /\ \A v \in Users : saved'[v] <= 1 /\ (v # u => saved'[v] = saved[v])
    BY <1>0, <1>1, <1>2 DEF ReplyInv
  <1>5. Bot!RepliesAreTrue'
    BY <1>1, <1>4 DEF ReplyInv, Bot!RepliesAreTrue
  <1> HIDE DEF u
  <1> QED BY <1>1, <1>3, <1>4, <1>5 DEF ReplyInv

LEMMA ReplyTrue ==
    ASSUME Bot!NotificationsAssumption, ReplyInv, BotInv', Bot!Reply
    PROVE  ReplyInv'
  <1>0. promise \in [Users -> {"none", "on", "off", "error"}] /\ command.name \in Bot!Commands
    BY DEF ReplyInv, BotInv, Bot!TypeOK
  <1>1. /\ promise' = [promise EXCEPT ![command.user] = Bot!Says(command)] /\ command'.st = "idle"
        /\ UNCHANGED <<subscriptions, saved>> /\ command.st = "reply"
    BY DEF Bot!Reply, Bot!NoCommand
  <1>2. /\ Bot!Says(command) = "on" => saved[command.user] > 0
        /\ Bot!Says(command) = "off" => saved[command.user] = 0 /\ command.user \notin subscriptions
    BY <1>1 DEF ReplyInv, Bot!Says
  <1>3. Bot!RepliesAreTrue'
    BY <1>0, <1>1, <1>2 DEF ReplyInv, Bot!RepliesAreTrue
  <1> QED BY <1>1, <1>3 DEF ReplyInv

LEMMA RestartTrue ==
    ASSUME Bot!NotificationsAssumption, ReplyInv, BotInv', Bot!Restart
    PROVE  ReplyInv'
  <1>1. /\ UNCHANGED <<saved, promise>> /\ command'.st = "idle"
        /\ subscriptions' \subseteq {u \in Users : saved[u] > 0}
    BY DEF Bot!Restart, Bot!NoCommand
  <1>2. Bot!RepliesAreTrue'
    <2>1. \A u \in Users : saved[u] = 0 => u \notin subscriptions'
      BY <1>1
    <2> QED BY <1>1, <2>1 DEF ReplyInv, Bot!RepliesAreTrue
  <1> QED BY <1>1, <1>2 DEF ReplyInv

LEMMA ReplyStep ==
    ASSUME Bot!NotificationsAssumption, {"DeleteSubscription", "GetSubscription"} \cap BotFaults = {},
           ReplyInv, [Bot!Next]_(Bot!vars)
    PROVE  ReplyInv'
  <1>0. BotInv'
    BY BotStep DEF ReplyInv
  <1>1. ASSUME NEW e \in Events, Bot!Notify(e) \/ Bot!CallBot(e) \/ Bot!CallOcpi(e) \/ Bot!DoRequest(e)
        PROVE  ReplyInv'
    <2>1. UNCHANGED Bot!userVars
      BY <1>1 DEF Bot!Notify, Bot!CallBot, Bot!CallOcpi, Bot!DoRequest
    <2> QED BY <1>0, <2>1, OtherSteps DEF Bot!userVars
  <1>2. CASE Bot!EventPump
    <2>1. UNCHANGED Bot!userVars
      BY <1>2 DEF Bot!EventPump, Bot!TakeEvent, Bot!SendMessage, Bot!EventSent
    <2> QED BY <1>0, <2>1, OtherSteps DEF Bot!userVars
  <1>3. CASE Bot!SendPump \/ Bot!Stop \/ UNCHANGED Bot!vars
    BY <1>0, <1>3, OtherSteps DEF Bot!SendPump, Bot!Stop, Bot!vars, Bot!userVars
  <1>4. CASE Bot!UpdatesPump
    BY <1>0, <1>4, AddTrue, DeleteTrue, ReplyTrue DEF Bot!UpdatesPump
  <1>5. ASSUME NEW u \in Writers, NEW c \in Bot!Commands, Bot!Receive(u, c) PROVE ReplyInv'
    BY <1>0, <1>5, ReceiveTrue
  <1>6. CASE Bot!Restart
    BY <1>0, <1>6, RestartTrue
  <1> QED BY <1>1, <1>2, <1>3, <1>4, <1>5, <1>6 DEF Bot!Next

\* What the bot has told a user about the subscription is so, now and after a
\* restart, if no read or delete of a subscription fails; loading the
\* subscriptions and inserting one may.
THEOREM RepliesTrue ==
    ASSUME Bot!NotificationsAssumption, {"DeleteSubscription", "GetSubscription"} \cap BotFaults = {}
    PROVE  Bot!Spec => []RepliesAreTrue
  <1>1. ReplyInv => RepliesAreTrue
    BY DEF ReplyInv, RepliesAreTrue, Bot!RepliesAreTrue
  <1>2. Bot!Init => ReplyInv
    BY ReplyInit
  <1>3. ReplyInv /\ [Bot!Next]_(Bot!vars) => ReplyInv'
    BY ReplyStep
  <1> QED BY <1>1, <1>2, <1>3, PTL DEF Bot!Spec

=============================================================================
