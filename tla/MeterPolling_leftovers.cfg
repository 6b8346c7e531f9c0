SPECIFICATION FairSpec
CONSTANTS
    Connectors = {c1}
    Pumps = {p1}
    Sweeps = {s1}
    MaxTx = 1
    MaxRaces = 1
PROPERTIES LeftoversAreForgotten
