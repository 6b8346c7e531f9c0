SPECIFICATION Spec
CONSTANTS
    e1 = e1
    e2 = e2
    Users = {u1, u2}
    Named = {u1, u2}
    Writers = {u1}
    Subscribed = {u1, u2}
    NoUser = NoUser
    Events = {e1, e2}
    NoEvent = NoEvent
    Kinds <- Session
    FaultKinds <- HarmlessFaults
    EventBuffer = 1
    SendBuffer = 1
    MaxCommands = 2
    MaxFaults = 1
    MaxRestarts = 1
PROPERTY StartBeforeStop
CHECK_DEADLOCK FALSE
