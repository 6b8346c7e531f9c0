--------------------------- MODULE Notifications ---------------------------
(***************************************************************************)
(* From an event of the system handler to the people and the partner who   *)
(* hear of it: notifyEventListeners, the Telegram bot with its pumps and   *)
(* subscriptions, and the OCPI client with its retries.                    *)
(*                                                                         *)
(* Each event has a goroutine of its own, that calls the bot first and the *)
(* OCPI listener after it; the bot's channel takes EventBuffer events and  *)
(* makes the goroutine wait when it is full.                               *)
(*                                                                         *)
(* Texts are left out, and so is what Telegram makes of a message: an      *)
(* error of its API changes nothing in the bot.  b.subscriptions is shared *)
(* by two pumps without a lock; where Go ends the process for that, a      *)
(* Restart stands for it.                                                  *)
(***************************************************************************)
EXTENDS Integers, Sequences, Subscriptions

CONSTANTS
    Writers,        \* users who send commands
    Subscribed,     \* users with a document at first
    NoUser,
    Events,         \* events, each raised once
    NoEvent,
    Kinds,          \* functions: what each of them may be
    FaultKinds,     \* database operations that may fail
    EventBuffer,    \* capacity of b.event, 100 in the code
    SendBuffer,     \* capacity of b.send, 100 in the code
    MaxCommands,    \* bound: commands of users
    MaxFaults,      \* bound: failures of the database
    MaxRestarts     \* bound: restarts of the process

AllKinds == {"Faulted", "Status", "LocalStatus", "TransactionStart", "TransactionStop", "Authorize",
             "TransactionEvent", "Alert", "Information"}
Commands == {"start", "stop"}     \* test and status only reply

ASSUME NotificationsAssumption ==
    /\ Named \subseteq Users /\ Subscribed \subseteq Named /\ Writers \subseteq Users
    /\ NoUser \notin Users
    /\ NoEvent \notin Events
    /\ Kinds \subseteq [Events -> AllKinds]
    /\ {EventBuffer, SendBuffer} \subseteq Nat \ {0}
    /\ {MaxCommands, MaxFaults, MaxRestarts} \subseteq Nat

VARIABLES
    \* notifyEventListeners
    caller,         \* where the goroutine of each event is
    kind,           \* what each event is
    \* the OCPI client
    post,           \* the request of each event
    tries,          \* attempts made
    \* the bot
    event,          \* b.event
    pump,           \* eventPump: the event in hand, who was served, who must be
    heard,          \* history: what this process handed to Telegram for each user
    command,        \* updatesPump: the command in hand
    send,           \* replies in b.send
    stopped,        \* TgBot.Stop
    commands, faults, restarts

notifyVars == <<caller, kind>>
ocpiVars == <<post, tries>>
eventVars == <<event, pump, heard>>
userVars == <<subscriptions, saved, command, send, promise>>
bounds == <<commands, faults, restarts>>
vars == <<notifyVars, ocpiVars, eventVars, userVars, stopped, bounds>>

IdlePump == [event |-> NoEvent, seen |-> {}, due |-> {}]
NoCommand == [user |-> NoUser, name |-> "stop", st |-> "idle", ok |-> TRUE]

Fails(op) == op \in FaultKinds /\ faults < MaxFaults /\ faults' = faults + 1
Works == faults' = faults

(***************************************************************************)
(* notifyEventListeners.                                                   *)
(***************************************************************************)
\* OnStatusNotification of the bot takes faults only, that of the OCPI listener
\* every status of a connector with a location and an EVSE.
BotTakes(k) == k \notin {"Status", "LocalStatus"}
OcpiTakes(k) == k \in {"Faulted", "Status", "TransactionStart", "TransactionStop"}

Notify(e) ==
    /\ caller[e] = "none"
    /\ caller' = [caller EXCEPT ![e] = "bot"]
    /\ UNCHANGED <<kind, ocpiVars, eventVars, userVars, stopped, bounds>>

\* Blocks while the channel is full.
CallBot(e) ==
    /\ caller[e] = "bot"
    /\ IF BotTakes(kind[e])
       THEN /\ Len(event) < EventBuffer
            /\ event' = Append(event, e)
       ELSE UNCHANGED event
    /\ caller' = [caller EXCEPT ![e] = "ocpi"]
    /\ UNCHANGED <<kind, ocpiVars, pump, heard, userVars, stopped, bounds>>

CallOcpi(e) ==
    /\ caller[e] = "ocpi"
    /\ caller' = [caller EXCEPT ![e] = "done"]
    /\ post' = IF OcpiTakes(kind[e]) THEN [post EXCEPT ![e] = "try"] ELSE post
    /\ UNCHANGED <<kind, tries, eventVars, userVars, stopped, bounds>>

(***************************************************************************)
(* The OCPI client.                                                        *)
(***************************************************************************)
MaxTries_Two == 2
MaxTries == 3

\* One attempt of at most 5 s and the pause after it: answered, or not, whether
\* or not it arrived.
DoRequest(e) ==
    /\ post[e] = "try"
    /\ tries' = [tries EXCEPT ![e] = @ + 1]
    /\ \/ post' = [post EXCEPT ![e] = "ok"]
       \/ post' = [post EXCEPT ![e] = IF tries'[e] < MaxTries THEN "try" ELSE "failed"]
    /\ UNCHANGED <<notifyVars, eventVars, userVars, stopped, bounds>>

(***************************************************************************)
(* The bot's events.                                                       *)
(***************************************************************************)
TakeEvent ==
    /\ pump = IdlePump /\ event # <<>> /\ ~stopped
    /\ event' = Tail(event)
    /\ pump' = [event |-> Head(event), seen |-> {}, due |-> subscriptions]
    /\ UNCHANGED <<notifyVars, ocpiVars, heard, userVars, stopped, bounds>>

\* The loop over the map: an entry is visited once, one that is removed before
\* its turn is not, one that is added may be, also if it was visited before.
SendMessage(u) ==
    /\ pump # IdlePump
    /\ u \in subscriptions \ pump.seen
    /\ heard' = [heard EXCEPT ![u] = @ \cup {pump.event}]
    /\ pump' = [pump EXCEPT !.seen = @ \cup {u}]
    /\ UNCHANGED <<notifyVars, ocpiVars, event, userVars, stopped, bounds>>

EventSent_First ==
    /\ pump # IdlePump
    /\ pump.seen # {} \/ subscriptions = {}
    /\ pump' = IdlePump
    /\ UNCHANGED <<notifyVars, ocpiVars, event, heard, userVars, stopped, bounds>>
EventSent ==
    /\ pump # IdlePump
    /\ pump.due \cap subscriptions \subseteq pump.seen
    /\ pump' = IdlePump
    /\ UNCHANGED <<notifyVars, ocpiVars, event, heard, userVars, stopped, bounds>>

(***************************************************************************)
(* The bot's users.                                                        *)
(***************************************************************************)
\* The map is written first.
Receive(u, name) ==
    /\ command = NoCommand /\ ~stopped
    /\ commands < MaxCommands /\ commands' = commands + 1
    /\ subscriptions' = IF name = "start" THEN subscriptions \cup {u} ELSE subscriptions \ {u}
    /\ pump' = IF name = "stop" THEN [pump EXCEPT !.due = @ \ {u}, !.seen = @ \ {u}] ELSE pump
    /\ promise' = [promise EXCEPT ![u] = "none"]
    /\ command' = [user |-> u, name |-> name, ok |-> TRUE, st |-> "database"]
    /\ UNCHANGED <<notifyVars, ocpiVars, event, heard, saved, send, stopped, faults, restarts>>

AddSubscription ==
    LET u == command.user
        added(ok) == command' = [command EXCEPT !.st = "reply", !.ok = ok]
    IN /\ command.st = "database" /\ command.name = "start"
       /\ \/ Refused(u) /\ Works /\ added(FALSE) /\ UNCHANGED saved
          \/ Fails("InsertSubscription") /\ added(FALSE) /\ UNCHANGED saved
          \/ /\ u \in Named
             /\ IF Refused(u) THEN Fails("GetSubscription") ELSE Works
             /\ added(TRUE)
             /\ saved' = [saved EXCEPT ![u] = @ + 1]
       /\ UNCHANGED <<notifyVars, ocpiVars, eventVars, subscriptions, send, promise, stopped, commands, restarts>>

\* One document; an error is only logged.
DeleteSubscription_Skipped ==
    /\ command.st = "database" /\ command.name = "stop"
    /\ Works /\ command' = [command EXCEPT !.st = "reply"]
    /\ UNCHANGED <<notifyVars, ocpiVars, eventVars, subscriptions, saved, send, promise, stopped, commands, restarts>>
DeleteSubscription ==
    LET u == command.user
    IN /\ command.st = "database" /\ command.name = "stop"
       /\ \/ Works /\ saved' = [saved EXCEPT ![u] = IF @ = 0 THEN 0 ELSE @ - 1]
          \/ Fails("DeleteSubscription") /\ UNCHANGED saved
       /\ command' = [command EXCEPT !.st = "reply"]
       /\ UNCHANGED <<notifyVars, ocpiVars, eventVars, subscriptions, send, promise, stopped, commands, restarts>>

Reply ==
    /\ command.st = "reply"
    /\ send < SendBuffer
    /\ send' = send + 1
    /\ promise' = [promise EXCEPT ![command.user] = Says(command)]
    /\ command' = NoCommand
    /\ UNCHANGED <<notifyVars, ocpiVars, eventVars, subscriptions, saved, stopped, bounds>>

SendPump ==
    /\ send > 0 /\ ~stopped
    /\ send' = send - 1
    /\ UNCHANGED <<notifyVars, ocpiVars, eventVars, subscriptions, saved, command, promise, stopped, bounds>>

(***************************************************************************)
(* Start and stop.                                                         *)
(***************************************************************************)
\* A pump that is busy notices at its next select, where it may also take one
\* more event: as if Stop were called later.
Stop ==
    /\ ~stopped /\ pump = IdlePump /\ restarts < MaxRestarts
    /\ stopped' = TRUE
    /\ UNCHANGED <<notifyVars, ocpiVars, eventVars, userVars, bounds>>

\* The process ends, in order or not, and Start loads the subscriptions.
Restart ==
    /\ restarts < MaxRestarts /\ restarts' = restarts + 1
    /\ caller' = [e \in Events |-> IF caller[e] = "none" THEN "none" ELSE "lost"]
    /\ post' = [e \in Events |-> "none"] /\ tries' = [e \in Events |-> 0]
    /\ \/ Works /\ subscriptions' = {u \in Users : saved[u] > 0}
       \/ Fails("GetSubscriptions") /\ subscriptions' = {}
    /\ event' = <<>> /\ pump' = IdlePump /\ send' = 0 /\ command' = NoCommand
    /\ heard' = [u \in Users |-> {}]
    /\ stopped' = FALSE
    /\ UNCHANGED <<kind, saved, promise, commands>>

-----------------------------------------------------------------------------
Init ==
    /\ caller = [e \in Events |-> "none"]
    /\ kind \in Kinds
    /\ post = [e \in Events |-> "none"]
    /\ tries = [e \in Events |-> 0]
    /\ event = <<>> /\ pump = IdlePump
    /\ heard = [u \in Users |-> {}]
    /\ saved = [u \in Users |-> IF u \in Subscribed THEN 1 ELSE 0]
    /\ subscriptions = {u \in Users : saved[u] > 0}
    /\ command = NoCommand /\ send = 0
    /\ promise = [u \in Users |-> "none"]
    /\ stopped = FALSE
    /\ commands = 0 /\ faults = 0 /\ restarts = 0

EventPump == TakeEvent \/ (\E u \in Users : SendMessage(u)) \/ EventSent
UpdatesPump == AddSubscription \/ DeleteSubscription \/ Reply

Next ==
    \/ \E e \in Events : Notify(e) \/ CallBot(e) \/ CallOcpi(e) \/ DoRequest(e)
    \/ EventPump \/ UpdatesPump \/ SendPump
    \/ \E u \in Writers, c \in Commands : Receive(u, c)
    \/ Stop \/ Restart

Spec == Init /\ [][Next]_vars

\* Goroutines go on, and one that waits for a channel gets its turn, as Go serves
\* them in order.  A request to the partner ends within 5 s.  A request to
\* Telegram has no time limit: that it ends is assumed of Telegram.
SilentTelegramSpec ==
    /\ Spec
    /\ \A e \in Events : SF_vars(CallBot(e)) /\ WF_vars(CallOcpi(e)) /\ WF_vars(DoRequest(e))
    /\ WF_vars(UpdatesPump) /\ WF_vars(SendPump)

FairSpec == SilentTelegramSpec /\ WF_vars(EventPump)

-----------------------------------------------------------------------------
\* Every variable has its type.
TypeOK ==
    /\ caller \in [Events -> {"none", "bot", "ocpi", "done", "lost"}]
    /\ kind \in [Events -> AllKinds]
    /\ post \in [Events -> {"none", "try", "ok", "failed"}]
    /\ tries \in [Events -> 0..MaxTries]
    /\ event \in Seq(Events) /\ Len(event) <= EventBuffer
    /\ pump \in [event : Events \cup {NoEvent}, seen : SUBSET Users, due : SUBSET Users]
    /\ heard \in [Users -> SUBSET Events]
    /\ subscriptions \subseteq Users /\ saved \in [Users -> Nat]
    /\ command \in [user : Users \cup {NoUser}, name : Commands, ok : BOOLEAN,
                     st : {"idle", "database", "reply"}]
    /\ send \in 0..SendBuffer
    /\ promise \in [Users -> {"none", "on", "off", "error"}]
    /\ stopped \in BOOLEAN
    /\ commands \in 0..MaxCommands /\ faults \in 0..MaxFaults /\ restarts \in 0..MaxRestarts

\* Every event the bot takes reaches everyone who stays subscribed, if the bot
\* is not stopped and the process lives.
SubscribersAreTold ==
    \A e \in Events, u \in Users :
        caller[e] = "bot" /\ BotTakes(kind[e]) /\ u \in subscriptions
            ~> \/ e \in heard[u]
               \/ u \notin subscriptions \/ caller[e] = "lost" \/ stopped

\* Every event for the partner is answered by it, or was tried three times; the
\* bot, that is served first, does not hold it up for ever.
PartnerIsTold ==
    \A e \in Events :
        caller[e] = "bot" /\ OcpiTakes(kind[e])
            ~> \/ post[e] = "ok" \/ (post[e] = "failed" /\ tries[e] = 3)
               \/ caller[e] = "lost" \/ stopped

\* The partner hears of the start of a session before its end.
StartBeforeStop ==
    [][\A e, f \in Events :
        kind[e] = "TransactionStart" /\ kind[f] = "TransactionStop" /\ caller[e] # "none"
            /\ post[f] = "try" /\ post'[f] = "ok" => post[e] \in {"ok", "failed"}]_vars

=============================================================================
