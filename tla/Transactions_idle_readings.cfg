SPECIFICATION FairSpec
CONSTANTS
    Connectors = {c1}
    cp1 = cp1
    ChargePoints = {cp1}
    ChargePointOf <- OneChargePoint
    NoConnector = NoConnector
    NoChargePoint = NoChargePoint
    Ticker = ticker
    Goroutines = {}
    MaxTx = 2
    MaxMeter = 1
    GraceAge = 1
    StaleAge = 2
    ReportAges <- FreshReports
    FaultKinds <- RepairedFaults
    MaxFaults = 1
    MaxCrashes = 1
    LateStops = FALSE
PROPERTIES LostStopIsClosed
