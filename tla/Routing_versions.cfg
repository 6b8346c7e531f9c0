SPECIFICATION FairSpec
CONSTANTS
    Sockets = {w1, w2}
    Offers <- AllOffers
    Features <- AllFeatures
    WellFormed = {TRUE, FALSE}
    Commands <- AllCommands
    Payloads <- AllPayloads
    MaxQueue = 1
CHECK_DEADLOCK FALSE
INVARIANTS HandledByOwnProtocol
PROPERTIES VersionSettles
