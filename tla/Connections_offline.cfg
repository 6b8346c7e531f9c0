SPECIFICATION FairSpec
CONSTANTS
    Sockets = {w1, w2}
    NoSocket = NoSocket
    SendBuffer = 1
    PoolBuffer = 2
    MaxReports = 2
CHECK_DEADLOCK FALSE

PROPERTIES OfflineIsNoticed
