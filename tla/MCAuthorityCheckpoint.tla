----------------------- MODULE MCAuthorityCheckpoint -----------------------
(* Instances of AuthorityCheckpoint for TLC.  The requests are             *)
(* interchangeable, but the history and liveness are temporal properties,  *)
(* so no symmetry is declared.                                             *)
EXTENDS AuthorityCheckpoint
=============================================================================
