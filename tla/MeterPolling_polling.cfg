SPECIFICATION Spec
CONSTANTS
    Connectors = {c1}
    Pumps = {p1}
    Sweeps = {s1}
    MaxTx = 2
    MaxRaces = 1
INVARIANTS ChargingIsPolled StopEndsPolling
