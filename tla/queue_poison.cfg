SPECIFICATION Spec
CONSTANTS
    Jobs = {j1}
    Owners = {o1}
    Workers = {w1}
    None = None
    MaxAttempts = 2
    LeaseTime = 1
    Delays <- NowOrLater
    MaxIncidents = 3
INVARIANT AttemptsBounded
