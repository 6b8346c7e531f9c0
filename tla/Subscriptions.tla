--------------------------- MODULE Subscriptions ---------------------------
(***************************************************************************)
(* The users of the Telegram bot: who gets its messages, who has a         *)
(* document in the database, and what each was last told about that.       *)
(* Notifications has the commands that change this.                        *)
(***************************************************************************)
EXTENDS Naturals

CONSTANTS
    Users,          \* Telegram users
    Named           \* those of them with a user name

VARIABLES
    subscriptions,  \* b.subscriptions
    saved,          \* documents of each user
    promise         \* history: what a user was last told of the subscription

\* For a user who has a document already or no name; a read that fails finds no
\* document.
Refused(u) == saved[u] > 0 \/ u \notin Named

\* "you are now subscribed", "has been removed" or an error.
Says(c) == IF c.name = "stop" THEN "off" ELSE IF c.ok THEN "on" ELSE "error"

-----------------------------------------------------------------------------
\* What the bot has told a user is so, now and after a restart: who was told
\* "you are now subscribed" has a document, who was told "Your subscription has
\* been removed" is subscribed neither in memory nor in the database.
RepliesAreTrue ==
    \A u \in Users : /\ promise[u] = "on" => saved[u] > 0
                    /\ promise[u] = "off" => saved[u] = 0 /\ u \notin subscriptions

=============================================================================
