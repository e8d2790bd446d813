--------------------------- MODULE MCMissionRunner ---------------------------
(***************************************************************************)
(* Instances of MissionRunner for TLC: the step profiles a mission is      *)
(* planned from, and the symmetry of processes and proofs.                 *)
(***************************************************************************)
EXTENDS MissionRunner, TLC

Profile(risk, reversible, human) ==
    [risk |-> risk, reversible |-> reversible, human |-> human,
     evidence |-> TRUE, capable |-> TRUE]

\* A routine step and a consequential one that needs a human's approval.
RoutineAndConsequential == {Profile(1, TRUE, FALSE), Profile(2, TRUE, TRUE)}

\* Every combination of risk, reversibility and human gate, and the two steps
\* that miss the evidence or the capability.
EveryGate ==
    {Profile(k, v, h) : k \in Risk, v \in BOOLEAN, h \in BOOLEAN}
      \union {[Profile(0, TRUE, FALSE) EXCEPT !.evidence = FALSE],
              [Profile(0, TRUE, FALSE) EXCEPT !.capable = FALSE]}

Routine == {Profile(1, TRUE, FALSE)}

Symmetric == Permutations(Runners) \union Permutations(Proofs)
=============================================================================
