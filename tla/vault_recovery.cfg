SPECIFICATION Spec
CONSTANTS
    Retention = 2
    MaxSeals = 4
    MaxWrites = 9
    MaxFaults = 3
    MaxDeaths = 2
    Absent = Absent
    Corrupt = Corrupt
INVARIANTS
    TypeOK
    SidecarsMatch
    RecoveryPointsKept
    RestoresNewestIntact
