SPECIFICATION Spec
CONSTANTS
    Connectors = {c1}
    cp1 = cp1
    ChargePoints = {cp1}
    ChargePointOf <- OneChargePoint
    NoChargePoint = NoChargePoint
    Goroutines = {g1, g2}
    MaxTx = 2
    PowerSlots <- OneSlot
    BaseLimit = 85
    TopLevel = 1
    ReportLevels <- Reports
    Retries = 1
PROPERTY RetryOnlyWhileHeld
