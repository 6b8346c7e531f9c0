----------------------------- MODULE Admission -----------------------------
(***************************************************************************)
(* The charge points and id tags the system handler lets in: getChargePoint *)
(* and addChargePoint, OnAuthorize with getUserTag and the OCPI service,   *)
(* OnOnlineStatusChanged and the handlers that only look a charge point up. *)
(*                                                                         *)
(* One charge point, that may be unknown at the start.  A lookup is split  *)
(* at its database calls, because half of the handlers make it without     *)
(* h.mux.  A failed read gives nil, as a missing document does.  Documents *)
(* of one key are kept in the order of insertion: FindOne and UpdateOne    *)
(* take the first.                                                         *)
(*                                                                         *)
(* Connectors are left out (Transactions has them), and a map operation is *)
(* atomic, where Go ends the process when two of them collide.             *)
(***************************************************************************)
EXTENDS Integers, Sequences

CONSTANTS
    Configs,        \* the configurations to look at
    Tags,           \* the id tags drivers show
    Handlers,       \* goroutines of handlers
    NoHandler,
    FaultKinds,     \* the database operations that may fail
    MaxFaults,      \* bound: failures
    MaxEdits        \* bound: changes made by the operator

Config == [acceptPoints : BOOLEAN, acceptTags : BOOLEAN, ocpi : BOOLEAN]

ASSUME AdmissionAssumption ==
    /\ Configs \subseteq Config
    /\ Tags # {} /\ NoHandler \notin Handlers
    /\ {MaxFaults, MaxEdits} \subseteq Nat

VARIABLES
    conf,           \* AcceptUnknownChp, AcceptUnknownTag and Ocpi.Enabled
    points,         \* documents of the charge point
    states,         \* every ChargePointState made, oldest first
    current,        \* h.chargePoints: the index of the state, 0 for none
    tags,           \* documents of each tag
    mux,            \* the holder of h.mux
    task,           \* what each handler is doing
    link,           \* the charge point is connected
    faults, edits

vars == <<conf, points, states, current, tags, mux, task, link, faults, edits>>
bounds == <<faults, edits>>

Point == [enabled : BOOLEAN, online : BOOLEAN]
Tag == [enabled : BOOLEAN, owned : BOOLEAN]

Locked == {"authorize", "online", "offline"}
Kinds == Locked \cup {"lookup"}

Statuses == {"Accepted", "Invalid", "Expired", "Blocked"}
Answers == {"ALLOWED", "EXPIRED", "BLOCKED", "NOT_ALLOWED"}
NoAnswer == ""

\* got: the copy in hand, at: the state found, tag: userTag, answer: what the
\* OCPI service said, valid: the tag could be accepted at some moment of the
\* request, status: what an Authorize came to.
NewPoint == [enabled |-> TRUE, online |-> FALSE]
NoTag == [enabled |-> FALSE, owned |-> FALSE]
NoTask == [kind |-> "lookup", st |-> "idle", id |-> CHOOSE t \in Tags : TRUE, got |-> NewPoint, at |-> 0,
           tag |-> NoTag, answer |-> NoAnswer, valid |-> FALSE, status |-> "Invalid"]
Stages == {"idle", "lock", "find", "add", "insert", "init", "body", "newTag", "wait", "done"}

Fails(op) == op \in FaultKinds /\ faults < MaxFaults /\ faults' = faults + 1
Works == faults' = faults

Goto(g, st) == task' = [task EXCEPT ![g].st = st]

\* The handler returns; an Authorize has its answer first.
Return(g) == task' = [task EXCEPT ![g] = NoTask] /\ mux' = IF mux = g THEN NoHandler ELSE mux
Answer(g, status) ==
    /\ task' = [task EXCEPT ![g] = [@ EXCEPT !.status = status, !.st = "done", !.at = 0, !.tag = NoTag]]
    /\ UNCHANGED mux

\* The tag could be accepted without the OCPI service.
Acceptable(t) == IF tags[t] = <<>> THEN conf.acceptTags ELSE tags[t][1].enabled

(***************************************************************************)
(* Looking a charge point up.                                              *)
(***************************************************************************)
Lookup == IF current = 0 THEN "find" ELSE "body"

Enter(g, kind, t) ==
    /\ task[g].st = "idle"
    /\ task' = [task EXCEPT ![g] =
          [NoTask EXCEPT !.kind = kind, !.id = t, !.valid = kind = "authorize" /\ Acceptable(t),
                         !.at = IF kind \in Locked THEN 0 ELSE current,
                         !.st = IF kind \in Locked THEN "lock" ELSE Lookup]]
    /\ UNCHANGED <<conf, points, states, current, tags, mux, link, bounds>>

\* With every message comes a report that the charge point is online, and with
\* the end of its socket one that it is not.
OnMessage(g) == link /\ \E kind \in {"authorize", "lookup", "online"}, t \in Tags : Enter(g, kind, t)
OnClose(g) == ~link /\ \E t \in Tags : Enter(g, "offline", t)
OnCommand(g) == \E t \in Tags : Enter(g, "lookup", t)

GetChargePoint(g) ==
    /\ task[g].st = "lock" /\ mux = NoHandler
    /\ mux' = g
    /\ task' = [task EXCEPT ![g] = [@ EXCEPT !.at = current, !.st = Lookup]]
    /\ UNCHANGED <<conf, points, states, current, tags, link, bounds>>

\* A charge point that is not in the database, or cannot be read, is unknown:
\* it is added if the configuration says so.
FindChargePoint(g) ==
    /\ task[g].st = "find"
    /\ \/ /\ points # <<>> /\ Works
          /\ task' = [task EXCEPT ![g] = [@ EXCEPT !.got = points[1], !.st = "init"]]
          /\ UNCHANGED mux
       \/ /\ (points = <<>> /\ Works) \/ Fails("GetChargePoint")
          /\ conf.acceptPoints
          /\ Goto(g, "add")
          /\ UNCHANGED mux
       \/ /\ (points = <<>> /\ Works) \/ Fails("GetChargePoint")
          /\ ~conf.acceptPoints
          /\ IF task[g].kind = "authorize" THEN Answer(g, "Blocked") ELSE Return(g)
    /\ UNCHANGED <<conf, points, states, current, tags, link, edits>>

\* AddChargePoint reads before it inserts; its errors are only logged.
AddChargePoint(g) ==
    /\ task[g].st = "add"
    /\ \/ points # <<>> /\ Works /\ Goto(g, "init")
       \/ ((points = <<>> /\ Works) \/ Fails("GetChargePoint")) /\ Goto(g, "insert")
    /\ UNCHANGED <<conf, points, states, current, tags, mux, link, edits>>

InsertChargePoint(g) ==
    /\ task[g].st = "insert"
    /\ \/ Works /\ points' = Append(points, task[g].got)
       \/ Fails("InsertChargePoint") /\ UNCHANGED points
    /\ Goto(g, "init")
    /\ UNCHANGED <<conf, states, current, tags, mux, link, edits>>

\* Whatever state another handler has put there meanwhile is replaced.
InitializeChargePointState(g) ==
    /\ task[g].st = "init"
    /\ states' = Append(states, task[g].got)
    /\ current' = Len(states')
    /\ task' = [task EXCEPT ![g] = [@ EXCEPT !.at = Len(states'), !.got = NewPoint, !.st = "body"]]
    /\ UNCHANGED <<conf, points, tags, mux, link, bounds>>

\* OnHeartbeat, OnDataTransfer, the status notifications of diagnostics and
\* firmware, and the commands of the operator.
OnLookup(g) ==
    /\ task[g].kind = "lookup" /\ task[g].st = "body"
    /\ Return(g)
    /\ UNCHANGED <<conf, points, states, current, tags, link, bounds>>

(***************************************************************************)
(* The online status.                                                      *)
(***************************************************************************)
OnOnlineStatusChanged_Unchanged(g) ==
    LET online == task[g].kind = "online"
    IN /\ task[g].kind \in {"online", "offline"} /\ task[g].st = "body"
       /\ IF online = states[task[g].at].online THEN Works /\ UNCHANGED <<points, states>>
          ELSE /\ states' = [states EXCEPT ![task[g].at].online = online]
               /\ \/ Works /\ points' = IF points = <<>> THEN points
                                        ELSE [points EXCEPT ![1].online = online]
                  \/ Fails("UpdateOnlineStatus") /\ UNCHANGED points
       /\ Return(g)
       /\ UNCHANGED <<conf, current, tags, link, edits>>
OnOnlineStatusChanged(g) ==
    LET online == task[g].kind = "online"
    IN /\ task[g].kind \in {"online", "offline"} /\ task[g].st = "body"
       /\ IF ~online /\ ~states[task[g].at].online THEN Works /\ UNCHANGED <<points, states>>
          ELSE /\ states' = [states EXCEPT ![task[g].at].online = online]
               /\ \/ Works /\ points' = IF points = <<>> THEN points
                                        ELSE [points EXCEPT ![1].online = online]
                  \/ Fails("UpdateOnlineStatus") /\ UNCHANGED points
       /\ Return(g)
       /\ UNCHANGED <<conf, current, tags, link, edits>>

(***************************************************************************)
(* Id tags.                                                                *)
(***************************************************************************)
\* An enabled tag is accepted; any other is put to the OCPI service if there
\* is one.
Judge(g, tag) ==
    /\ tag.enabled \/ ~conf.ocpi => Answer(g, IF tag.enabled THEN "Accepted" ELSE "Invalid")
    /\ ~tag.enabled /\ conf.ocpi =>
          task' = [task EXCEPT ![g] = [@ EXCEPT !.tag = tag, !.st = "wait", !.at = 0]] /\ UNCHANGED mux

\* A tag that is not in the database, or cannot be read, is a new one.
GetUserTag(g) ==
    LET docs == tags[task[g].id]
    IN \/ docs # <<>> /\ Works /\ Judge(g, docs[1])
       \/ /\ (docs = <<>> /\ Works) \/ Fails("GetUserTag")
          /\ task' = [task EXCEPT ![g] = [@ EXCEPT !.tag = [enabled |-> conf.acceptTags, owned |-> FALSE],
                                                   !.st = "newTag", !.at = 0]]
          /\ UNCHANGED mux

AuthorizeIdTag(g) ==
    /\ task[g].kind = "authorize" /\ task[g].st = "body"
    /\ \/ ~states[task[g].at].enabled /\ Works /\ Answer(g, "Blocked")
       \/ states[task[g].at].enabled /\ GetUserTag(g)
    /\ UNCHANGED <<conf, points, states, current, tags, link, edits>>

\* AddUserTag reads before it inserts; its errors are only logged.
AddUserTag(g) ==
    LET docs == tags[task[g].id]
    IN /\ task[g].st = "newTag"
       /\ \/ docs # <<>> /\ Works /\ UNCHANGED tags
          \/ Fails("InsertUserTag") /\ UNCHANGED tags
          \/ /\ (docs = <<>> /\ Works) \/ Fails("GetUserTag")
             /\ tags' = [tags EXCEPT ![task[g].id] = Append(docs, task[g].tag)]
       /\ Judge(g, task[g].tag)
       /\ UNCHANGED <<conf, points, states, current, link, edits>>

StatusOf(answer) == CASE answer = "ALLOWED" -> "Accepted"
                      [] answer = "EXPIRED" -> "Expired"
                      [] answer = "BLOCKED" -> "Blocked"
                      [] OTHER -> "Invalid"

\* Every field of the tag that was read before the OCPI service was asked.
UpdateTag_Allowed(docs, tag, status) ==
    IF docs = <<>> THEN docs ELSE [docs EXCEPT ![1] = [tag EXCEPT !.enabled = status = "Accepted"]]
UpdateTag(docs, tag, status) ==
    IF docs = <<>> THEN docs ELSE [docs EXCEPT ![1] = tag]

\* The answer of the first or the second attempt.
OcpiAnswers(g) ==
    /\ task[g].st = "wait"
    /\ \E a \in Answers :
          /\ task' = [task EXCEPT ![g] =
                         [@ EXCEPT !.answer = a, !.status = StatusOf(a), !.tag = NoTag, !.st = "done"]]
          /\ \/ /\ StatusOf(a) # "Invalid" /\ Works
                /\ tags' = [tags EXCEPT ![task[g].id] = UpdateTag(@, task[g].tag, StatusOf(a))]
             \/ StatusOf(a) # "Invalid" /\ Fails("UpdateTag") /\ UNCHANGED tags
             \/ StatusOf(a) = "Invalid" /\ Works /\ UNCHANGED tags
    /\ UNCHANGED <<conf, points, states, current, mux, link, edits>>

\* 15 s are over, or the service refused.  A third attempt comes after that, and
\* what it brings goes to a channel nobody reads.
OcpiTimeout_Never(g) == FALSE /\ UNCHANGED vars
OcpiTimeout_FailOpen(g) ==
    /\ task[g].st = "wait"
    /\ Answer(g, "Accepted")
    /\ UNCHANGED <<conf, points, states, current, tags, link, bounds>>
OcpiTimeout(g) ==
    /\ task[g].st = "wait"
    /\ Answer(g, "Invalid")
    /\ UNCHANGED <<conf, points, states, current, tags, link, bounds>>

OnAuthorize(g) ==
    /\ task[g].st = "done"
    /\ Return(g)
    /\ UNCHANGED <<conf, points, states, current, tags, link, bounds>>

Authorize(g) ==
    AuthorizeIdTag(g) \/ AddUserTag(g) \/ OcpiTimeout(g) \/ OnAuthorize(g)

-----------------------------------------------------------------------------
(***************************************************************************)
(* The world.                                                              *)
(***************************************************************************)
Connect == link' = ~link /\ UNCHANGED <<conf, points, states, current, tags, mux, task, bounds>>

\* The back office writes to the database.
EditTag(t) ==
    /\ edits < MaxEdits /\ edits' = edits + 1
    /\ tags[t] # <<>>
    /\ tags' = [tags EXCEPT ![t][1].enabled = ~@]
    /\ task' = [g \in Handlers |-> IF task[g].id = t
                    /\ task[g].kind = "authorize" /\ task[g].st # "done"
                    THEN [task[g] EXCEPT !.valid = @ \/ tags'[t][1].enabled] ELSE task[g]]
    /\ UNCHANGED <<conf, points, states, current, mux, link, faults>>

Init ==
    /\ conf \in Configs
    /\ points \in {<<>>, <<NewPoint>>, <<[NewPoint EXCEPT !.enabled = FALSE]>>}
    /\ states = points
    /\ current = Len(states)
    /\ tags \in [Tags -> {<<>>} \cup {<<d>> : d \in [enabled : BOOLEAN, owned : {TRUE}]}]
    /\ mux = NoHandler
    /\ task = [g \in Handlers |-> NoTask]
    /\ link = FALSE
    /\ faults = 0 /\ edits = 0

Work(g) ==
    \/ GetChargePoint(g) \/ FindChargePoint(g) \/ AddChargePoint(g)
    \/ InsertChargePoint(g) \/ InitializeChargePointState(g)
    \/ OnLookup(g) \/ OnOnlineStatusChanged(g) \/ Authorize(g)

Next ==
    \/ \E g \in Handlers : OnMessage(g) \/ OnClose(g) \/ OnCommand(g) \/ Work(g) \/ OcpiAnswers(g)
    \/ Connect
    \/ \E t \in Tags : EditTag(t)

Spec == Init /\ [][Next]_vars

\* A handler goes on, h.mux is handed to everyone who waits for it (a Go mutex
\* starves nobody), a wait for the OCPI service ends, and a charge point that is
\* connected sends heartbeats.
FairSpec ==
    /\ Spec
    /\ \A g \in Handlers : WF_vars(Work(g)) /\ SF_vars(GetChargePoint(g))
    /\ SF_vars(\E g \in Handlers, t \in Tags : link /\ Enter(g, "online", t))

-----------------------------------------------------------------------------
\* Every variable has its type.
TypeOK ==
    /\ conf \in Configs
    /\ points \in Seq(Point) /\ states \in Seq(Point) /\ current \in 0..Len(states)
    /\ tags \in [Tags -> Seq(Tag)]
    /\ mux \in Handlers \cup {NoHandler}
    /\ task \in [Handlers -> [kind : Kinds, st : Stages, id : Tags, got : Point, at : 0..Len(states),
                              tag : Tag, answer : Answers \cup {NoAnswer}, valid : BOOLEAN,
                              status : Statuses]]
    /\ link \in BOOLEAN
    /\ faults \in 0..MaxFaults /\ edits \in 0..MaxEdits

\* A tag that was not enabled at any moment of an Authorize is accepted only on
\* the word of the OCPI service.  Where unknown tags are accepted, a failed read
\* of the tag lets it in too, so there the claim ends with the first failure.
RevokedIsRefused ==
    \A g \in Handlers :
        task[g].st = "done" /\ task[g].status = "Accepted" /\ ~task[g].valid
            => task[g].answer = "ALLOWED" \/ (conf.acceptTags /\ faults > 0)

\* A stored tag that is disabled is enabled by the operator and by no handler,
\* whatever the OCPI service answers and whichever reads fail.
OnlyOperatorEnables ==
    [][\A t \in Tags : tags[t] # <<>> /\ ~tags[t][1].enabled /\ tags'[t][1].enabled
            => edits' # edits]_vars

\* Every handler returns, also those that wait for h.mux while its holder waits
\* for an OCPI service that never answers.
EveryRequestReturns ==
    \A g \in Handlers : task[g].st # "idle" ~> task[g].st = "idle"

\* A charge point that stays connected is in the end online, in the state the
\* handlers use and in the database, although handlers without h.mux may have
\* replaced the state the first report was written to.
OnlineSettles ==
    <>[]link => <>[](points # <<>> /\ current # 0
                        => states[current].online /\ points[1].online)

\* A charge point that stays away is in the end offline in the database.
OfflineSettles ==
    <>[](~link /\ \A g \in Handlers : task[g].kind # "online")
        => <>[](points # <<>> => ~points[1].online)

\* What the operator has enabled stays enabled until the operator disables it.
EnabledIsKept ==
    [][\A t \in Tags : tags[t] # <<>> /\ tags[t][1].enabled /\ ~tags'[t][1].enabled
            => edits' # edits]_vars

=============================================================================
