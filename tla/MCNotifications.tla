-------------------------- MODULE MCNotifications --------------------------
(***************************************************************************)
(* Notifications for TLC.                                                  *)
(***************************************************************************)
EXTENDS Notifications

CONSTANTS e1, e2

\* An event for the bot and one for both listeners.
Mixed == {[x \in Events |-> IF x = e1 THEN "Alert" ELSE "TransactionStart"]}

\* The start and the end of a session.
Session == {[x \in Events |-> IF x = e1 THEN "TransactionStart" ELSE "TransactionStop"]}

\* Failures after which no promise is broken.
HarmlessFaults == {"GetSubscriptions", "InsertSubscription"}
=============================================================================
