-------------------------- MODULE MissionAuthority --------------------------
(***************************************************************************)
(* The two authority gates a mission step passes before its callback may   *)
(* run: GovernanceKernel.evaluate (core.py) decides whether the step may   *)
(* proceed, needs a human approval proof, or is blocked, and               *)
(* MissionKernel.evaluate (mission_kernel.py) confines it to the           *)
(* operational envelope.  Both are pure functions of the step's profile.   *)
(***************************************************************************)
EXTENDS Integers

CONSTANTS
    MaxRisk,             \* OperationalEnvelope.max_risk
    ReversibleAbove      \* OperationalEnvelope.require_reversible_above

ASSUME EnvelopeAssumption == MaxRisk \in 0..3 /\ ReversibleAbove \in Int

\* _RISK_SCORE: LOW, MODERATE, HIGH and CRITICAL are 0, 1, 2 and 3.
Risk == 0..3
High == 2

\* What the gates read of a MissionStep: "evidence" says that some item of
\* its evidence is not blank, "capable" that its capability is allowed.
StepProfile == [risk: Risk, reversible: BOOLEAN, human: BOOLEAN,
                evidence: BOOLEAN, capable: BOOLEAN]

\* A claim with evidence has strength and confidence 1, one without has
\* confidence 0 and is not supported: the two BLOCK gates coincide.
GovernanceDecision(p) ==
    CASE ~p.evidence                                  -> "block"
      [] p.evidence /\ (p.human \/ p.risk >= High \/ ~p.reversible)
                                                      -> "approval_required"
      [] OTHER                                        -> "proceed"

\* Mutation: the kernel forgets the reversibility threshold.
KernelAllowsIrreversible(p, approved) ==
    p.capable /\ p.risk <= MaxRisk /\ p.evidence /\ (p.human => approved)

\* min_evidence is 1; a step that requires human approval is CONSEQUENTIAL.
KernelAllows(p, approved) ==
    /\ p.capable
    /\ p.risk <= MaxRisk
    /\ p.risk > ReversibleAbove => p.reversible
    /\ p.evidence
    /\ p.human => approved
=============================================================================
