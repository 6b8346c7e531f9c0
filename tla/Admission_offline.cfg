SPECIFICATION ClosingSpec
CONSTANTS
    Configs <- OpenAndClosed
    Tags = {t1}
    Handlers = {g1, g2}
    NoHandler = NoHandler
    FaultKinds <- AllFaults
    MaxFaults = 0
    MaxEdits = 1
PROPERTY OfflineSettles
