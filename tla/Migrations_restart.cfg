SPECIFICATION FairSpec
CONSTANTS
    ChargePoints = {cp1}
    Connectors = {c1}
    TxIds = {1, 2}
    MaxDeaths = 2
    MaxRollbacks = 1
CHECK_DEADLOCK FALSE
INVARIANTS VersionMeansDone
PROPERTIES BacklogIsGone SafeToRepeat LiveSessionsUntouched MigrationsComplete
