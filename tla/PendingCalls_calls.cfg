SPECIFICATION FairSpec
CONSTANTS
    Calls = {u1, u2, u3}
    Pumps = {p1, p2}
    NoCall = NoCall
    MaxForget = 1
    SendCap = 1
    MaxAnswers = 1
INVARIANTS PendingAreListening PumpNotWedged
PROPERTIES CallReturns
