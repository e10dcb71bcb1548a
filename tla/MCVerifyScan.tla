---------------------------- MODULE MCVerifyScan ----------------------------
(* One scan of a list of three by two workers, for TLC. *)
EXTENDS VerifyScan
=============================================================================
