--------------------------- MODULE TransactionLog ---------------------------
(***************************************************************************)
(* What the transactions collection promises to everybody who reads it     *)
(* (billing, the API, the migrations): a log of sessions.  A session is    *)
(* entered under an id above all earlier ones, it belongs to one connector *)
(* for good, and once it is finished it stays finished.                    *)
(***************************************************************************)
EXTENDS Integers

CONSTANTS Ids, Owners, NoOwner

VARIABLES state, owner

logVars == <<state, owner>>

LogInit == /\ state = [t \in Ids |-> "absent"]
           /\ owner = [t \in Ids |-> NoOwner]

Enter(t, o) == /\ \A u \in Ids : state[u] # "absent" => u < t
               /\ state' = [state EXCEPT ![t] = "open"]
               /\ owner' = [owner EXCEPT ![t] = o]

Finish(t) == /\ state[t] = "open"
             /\ state' = [state EXCEPT ![t] = "finished"]
             /\ UNCHANGED owner

LogNext == \E t \in Ids : Finish(t) \/ \E o \in Owners : Enter(t, o)

LogSpec == LogInit /\ [][LogNext]_logVars
=============================================================================
