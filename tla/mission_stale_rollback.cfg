SPECIFICATION Spec
CONSTANTS
    MaxRisk = 2
    ReversibleAbove = 1
    Runners = {r1}
    NSteps = 1
    Proofs = {p1}
    Profiles <- Routine
    None = None
    MaxRuns = 3
    Crashes = TRUE
    Faults = FALSE
INVARIANT AtMostOneSideEffect
CHECK_DEADLOCK FALSE
