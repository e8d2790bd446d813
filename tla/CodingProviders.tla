--------------------------- MODULE CodingProviders ---------------------------
(***************************************************************************)
(* CodingProviderPool.propose_patch (coding_provider.py) over the health    *)
(* records of CapabilityRegistry (capability_registry.py) and the budget of *)
(* CostPolicy (cost_policy.py).  A call takes one step: nobody else writes  *)
(* a health record, and the paid calls are counted in memory.               *)
(***************************************************************************)
EXTENDS Integers, FiniteSets

CONSTANTS
    ProviderCount,   \* providers, each a place in the order of their cost
    Paid,            \* those of CostTier.PAID: the last one, or none
    PaidBudget,      \* max_paid_calls
    HealthThreshold  \* failure_threshold

ASSUME ProviderAssumption ==
    /\ ProviderCount \in Nat \ {0}
    /\ Paid \subseteq {ProviderCount}
    /\ PaidBudget \in Nat
    /\ HealthThreshold \in Nat \ {0}

Providers == 1..ProviderCount

VARIABLES
    health,          \* consecutive failures, omega.capability.<provider>
    paidUsed,        \* paid_calls_used of this process
    paidCalls        \* history: paid calls ever made

pool == <<health, paidUsed, paidCalls>>

PoolTypeOK ==
    /\ health \in [Providers -> 0..HealthThreshold]
    /\ paidUsed \in 0..PaidBudget
    /\ paidCalls \in Nat

PoolInit ==
    /\ health = [v \in Providers |-> 0]
    /\ paidUsed = 0 /\ paidCalls = 0

Healthy(v) == health[v] < HealthThreshold

\* CostPolicy.admits.  A pool tries a paid provider once per call, so what
\* was used before the call decides.
Admits(v) == v \in Paid => paidUsed < PaidBudget

Eligible == {v \in Providers : Admits(v) /\ Healthy(v)}

\* Providers are tried from the cheapest on until one answers.
Cheaper(v) == {w \in Eligible : w < v}

\* record_failure for some providers and record_success for others.
Recorded(failed, answered) ==
    health' = [v \in Providers |-> IF v \in answered THEN 0
                                   ELSE IF v \in failed THEN health[v] + 1
                                   ELSE health[v]]

\* Attempts at a paid provider count, not answers.
Charged(tried) ==
    /\ paidUsed' = paidUsed + Cardinality(tried \intersect Paid)
    /\ paidCalls' = paidCalls + Cardinality(tried \intersect Paid)

\* propose_patch with the answer of v, after the cheaper ones failed.
AnswerOf(v) == Recorded(Cheaper(v), {v}) /\ Charged(Cheaper(v) \union {v})

\* No eligible provider answers, and propose_patch raises.
NoAnswer == Recorded(Eligible, {}) /\ Charged(Eligible)

=============================================================================
