SPECIFICATION Spec
CONSTANTS
    Connectors = {c1}
    cp1 = cp1
    ChargePoints = {cp1}
    ChargePointOf <- OneChargePoint
    NoConnector = NoConnector
    NoChargePoint = NoChargePoint
    Ticker = ticker
    Goroutines = {g1}
    MaxTx = 2
    MaxMeter = 1
    GraceAge = 1
    StaleAge = 1
    ReportAges <- FreshReports
    FaultKinds <- HarmlessFaults
    MaxFaults = 1
    MaxCrashes = 1
    LateStops = FALSE
INVARIANTS TypeOK HeldTransactionExists LiveSessionHoldsConnector MemoryMatchesDatabase
PROPERTIES ReleasedOnlyOnceFinished SamplesOutliveOpen ImplementsLog
