SPECIFICATION Spec
CONSTANTS
    MaxRisk = 2
    ReversibleAbove = 1
    Runners = {r1}
    NSteps = 2
    Proofs = {p1, p2}
    Profiles <- EveryGate
    None = None
    MaxRuns = 3
    Crashes = FALSE
    Faults = FALSE
SYMMETRY Symmetric
INVARIANTS
    AuthorityRespected
    OutcomeTellsTheWorld
    RetryNotWedged
    AtMostOneSideEffect
CHECK_DEADLOCK FALSE
