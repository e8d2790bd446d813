SPECIFICATION Spec
CONSTANTS
    g1 = g1
    g2 = g2
    g3 = g3
    None = None
    Roadmap = {g1, g2, g3}
    Improvements = 1
    Requires <- OneNeedsAnother
    Setups <- Undisturbed
    ProviderCount = 2
    Paid = {2}
    PaidBudget = 1
    HealthThreshold = 2
    MaxRepairs = 1
    MaxReruns = 1
    MaxAttempts = 3
    MaxFailures = 2
INVARIANTS
    VerifiedMergeCompletesGoal
