SPECIFICATION FairSpec
CONSTANTS
    s1 = s1
    w1 = w1
    none = none
    Sessions = {s1}
    Sweepers = {w1}
    Plans <- MCPlans
    NoPlan = NoPlan
    InitialPlans <- MCInitial
    None = none
    TimesOfDay <- MCTimes
    Registers = {5000}
    Powers = {7000}
    OtherValues = {80}
    TickSeconds = 3900
    StepWh = 700
    MaxSteps = 1
    LastStart = 0
    LastReport = 0
    LastTick = 2
    StaleTicks = 2
    GraceTicks = 1
    FaultKinds <- MCFaults
    MaxFaults = 1
    MaxEdits = 1
    MaxDeaths = 1
INVARIANTS FiguresAgree SomePlanIsFound ShownIsBilled
PROPERTIES GaugeSettles SessionIsBilled
CHECK_DEADLOCK FALSE
