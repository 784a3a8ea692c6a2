---------------------------- MODULE MCRunHistory ----------------------------
(* Instances of RunHistory for TLC.                                         *)
EXTENDS RunHistory, TLC

RunSymmetry == Permutations(Runs)
=============================================================================
