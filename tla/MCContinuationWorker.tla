------------------------ MODULE MCContinuationWorker ------------------------
(***************************************************************************)
(* Instances of ContinuationWorker for TLC.                                *)
(***************************************************************************)
EXTENDS ContinuationWorker, TLC

\* A retry is available at once or after one instant.
NowOrLater == {0, 1}

Symmetric == Permutations(Workers) \union Permutations(Owners)
=============================================================================
