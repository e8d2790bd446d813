SPECIFICATION Spec
CONSTANTS
    Jobs = {j1, j2}
    Owners = {o1, o2}
    Workers = {w1, w2}
    None = None
    MaxAttempts = 2
    LeaseTime = 1
    Delays <- NowOrLater
    MaxIncidents = 2
SYMMETRY Symmetric
INVARIANTS
    TypeOK
    LeaseExclusive
    CompletedWasHandled
    DeadMeansExhausted
    RepeatsNeedIncidents
PROPERTY SettledIsFinal
