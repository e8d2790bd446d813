SPECIFICATION FairSpec
CONSTANTS
    Jobs = {j1, j2}
    Owners = {o1}
    Workers = {w1, w2}
    None = None
    MaxAttempts = 2
    LeaseTime = 1
    Delays <- NowOrLater
    MaxIncidents = 1
PROPERTY EveryJobSettles
