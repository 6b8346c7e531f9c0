--------------------------- MODULE MCTransactions ---------------------------
(***************************************************************************)
(* Instances of Transactions for TLC: all connectors on one charge point.  *)
(***************************************************************************)
EXTENDS Transactions

CONSTANTS cp1

OneChargePoint == [c \in Connectors |-> cp1]
NoFaults == {}
WriteFaults == {"UpdateTransaction"}
LastIdFaults == {"GetLastTransaction"}

\* Failures after which a connector must still not lose an open transaction,
\* nor memory and database disagree.
HarmlessFaults == {"GetTransaction", "GetUnfinishedTransactions",
                   "ReadTransactionMeterValue", "DeleteTransactionMeterValues"}

\* Failures the sweeps make good.  After one of GetTransaction a pointer may
\* wait for the next driver, after one of GetLastTransaction ids are reused.
RepairedFaults == (HarmlessFaults \ {"GetTransaction"})
                  \cup {"AddTransaction", "UpdateConnector", "UpdateTransaction"}

FreshReports == {0}
=============================================================================
