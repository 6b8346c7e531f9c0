SPECIFICATION Spec
CONSTANTS
    Connectors = {c1, c2}
    cp1 = cp1
    ChargePoints = {cp1}
    ChargePointOf <- OneChargePoint
    NoChargePoint = NoChargePoint
    Goroutines = {g1, g2}
    MaxTx = 2
    PowerSlots <- TwoSlots
    BaseLimit = 85
    TopLevel = 1
    ReportLevels <- Reports
    Retries = 1
INVARIANT OneConnectorPerSlot
