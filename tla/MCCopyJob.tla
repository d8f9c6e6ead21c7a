----------------------------- MODULE MCCopyJob -----------------------------
(* CopyJob for TLC: requests are interchangeable.                          *)
EXTENDS CopyJob, TLC

CallerSymmetry == Permutations(Caller)
=============================================================================
