SPECIFICATION GovSpec
CONSTANTS
    Jobs = {j1}
    Owners = {o1}
    Workers = {w1, w2}
    None = None
    MaxAttempts = 3
    LeaseTime = 1
    Delays <- AtOnce
    MaxIncidents = 1
    MaxRisk = 2
    ReversibleAbove = 1
    Paths = {a1, a2}
    Profiles <- RoutineRiskyHuman
    MaxFailures = 1
    MaxFaults = 1
SYMMETRY Symmetric
INVARIANTS
    GovTypeOK
    NoConsequentialPath
    GivesUpAfterTrying
    FailingPathsAreLeft
