-------------------------- MODULE MCLocalSovereign --------------------------
(* Two processes, first with goals to work on, then with checkpoints and   *)
(* backups to make.                                                        *)
EXTENDS LocalSovereign, TLC

MCSetups ==
    {[goals |-> 2, writes |-> 0, inits |-> 0, backups |-> 0,
      deaths |-> 1, raises |-> 0, expiries |-> 1, faults |-> 0],
     [goals |-> 2, writes |-> 0, inits |-> 0, backups |-> 0,
      deaths |-> 0, raises |-> 1, expiries |-> 1, faults |-> 0],
     [goals |-> 2, writes |-> 2, inits |-> 0, backups |-> 0,
      deaths |-> 1, raises |-> 0, expiries |-> 0, faults |-> 0],
     [goals |-> 2, writes |-> 2, inits |-> 0, backups |-> 0,
      deaths |-> 0, raises |-> 1, expiries |-> 0, faults |-> 0],
     [goals |-> 0, writes |-> 0, inits |-> 2, backups |-> 3,
      deaths |-> 1, raises |-> 0, expiries |-> 0, faults |-> 1]}

\* Processes, goals, texts and names are told apart by nothing else.
MCSymmetry == Permutations(Process) \cup Permutations(Goal) \cup Permutations(Content)
              \cup Permutations(BackupName) \cup Permutations(WorkerId)
=============================================================================
