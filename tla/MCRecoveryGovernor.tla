-------------------------- MODULE MCRecoveryGovernor --------------------------
(***************************************************************************)
(* An instance of RecoveryGovernor for TLC.                                *)
(***************************************************************************)
EXTENDS RecoveryGovernor, TLC

AtOnce == {0}

\* What the development actions are registered as, a risky one and one that
\* needs a human.
RoutineRiskyHuman ==
    {[risk |-> k, reversible |-> TRUE, human |-> h, evidence |-> TRUE, capable |-> TRUE] :
        k \in {1}, h \in BOOLEAN}
      \union {[risk |-> High, reversible |-> TRUE, human |-> FALSE,
               evidence |-> TRUE, capable |-> TRUE]}

Symmetric == Permutations(Workers) \union Permutations(Paths)
=============================================================================
