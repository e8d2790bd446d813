SPECIFICATION Spec
CONSTANTS
    Process = {p1, p2}
    WorkerId = {local, android}
    Goal = {g1, g2}
    Priority = {1, 2}
    MaxAttempts = 2
    MaxSteps = 1
    Content = {c1, c2}
    BackupName = {n1, n2}
    Setups <- MCSetups
    None = None
SYMMETRY MCSymmetry
INVARIANTS WritesReversible ReportedBackupsRestore
PROPERTY SettledStays
