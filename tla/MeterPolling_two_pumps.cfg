SPECIFICATION Spec
CONSTANTS
    Connectors = {c1}
    Pumps = {p1, p2}
    Sweeps = {s1}
    MaxTx = 2
    MaxRaces = 0
INVARIANTS ChargingIsPolled
