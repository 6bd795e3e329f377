------------------------- MODULE MCFrozenEvaluation -------------------------
(* Two processes of `run', which only their names tell apart.              *)
EXTENDS FrozenEvaluation, TLC

RunSymmetry == Permutations(Runs)
=============================================================================
