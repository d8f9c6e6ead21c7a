------------------------------ MODULE MCGitCopy ------------------------------
(* One repository and interchangeable calls, for TLC. *)
EXTENDS GitCopy, TLC

Symmetry == Permutations(Call)
=============================================================================
