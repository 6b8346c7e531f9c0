---------------------------- MODULE MCAdmission ----------------------------
(***************************************************************************)
(* Admission for TLC.                                                      *)
(***************************************************************************)
EXTENDS Admission

AllFaults == {"GetChargePoint", "InsertChargePoint", "UpdateOnlineStatus", "GetUserTag",
              "InsertUserTag", "UpdateTag"}

\* The end of a connection is reported, and even more than once.
ClosingSpec ==
    /\ FairSpec
    /\ SF_vars(\E g \in Handlers, t \in Tags : ~link /\ Enter(g, "offline", t))

\* A network that takes everyone, and a closed one with roaming.
OpenAndClosed == {[acceptPoints |-> TRUE, acceptTags |-> TRUE, ocpi |-> FALSE],
                  [acceptPoints |-> FALSE, acceptTags |-> FALSE, ocpi |-> TRUE]}
=============================================================================
