SPECIFICATION Spec
CONSTANTS
    Calls = {u1}
    Pumps = {p1, p2}
    NoCall = NoCall
    MaxForget = 1
    SendCap = 1
    MaxAnswers = 2
INVARIANT PumpNotWedged
