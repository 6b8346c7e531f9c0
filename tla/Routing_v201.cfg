SPECIFICATION Spec
CONSTANTS
    Sockets = {w1, w2}
    Offers <- AllOffers
    Features <- AllFeatures
    WellFormed = {TRUE}
    Commands <- AllCommands
    Payloads <- AllPayloads
    MaxQueue = 1
INVARIANTS AgreedProtocolIsServed
