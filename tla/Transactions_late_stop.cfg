SPECIFICATION Spec
CONSTANTS
    Connectors = {c1}
    cp1 = cp1
    ChargePoints = {cp1}
    ChargePointOf <- OneChargePoint
    NoConnector = NoConnector
    NoChargePoint = NoChargePoint
    Ticker = ticker
    Goroutines = {}
    MaxTx = 2
    MaxMeter = 1
    GraceAge = 1
    StaleAge = 1
    ReportAges <- FreshReports
    FaultKinds <- NoFaults
    MaxFaults = 0
    MaxCrashes = 0
    LateStops = TRUE
PROPERTY ReleasedOnlyOnceFinished
