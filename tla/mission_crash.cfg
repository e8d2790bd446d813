SPECIFICATION Spec
CONSTANTS
    MaxRisk = 2
    ReversibleAbove = 1
    Runners = {r1, r2}
    NSteps = 2
    Proofs = {p1, p2}
    Profiles <- RoutineAndConsequential
    None = None
    MaxRuns = 3
    Crashes = TRUE
    Faults = TRUE
SYMMETRY Symmetric
INVARIANTS
    TypeOK
    ApprovalSingleUse
    ReexecutionNeedsProvenRollback
    MissionOrder
    CompletedMeansDone
PROPERTY ImplementsLedger
CHECK_DEADLOCK FALSE
