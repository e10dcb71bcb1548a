--------------------------- MODULE MCAutoScanner ----------------------------
(* The auto-scanner on two resolvers, for TLC. *)
EXTENDS AutoScanner

AllLists == (SUBSET Resolver) \ {{}}

NoList == {}
=============================================================================
