----------------------------- MODULE MCReloader -----------------------------
(* The hot reload on two resolvers, for TLC. *)
EXTENDS Reloader, TLC

Symmetry == Permutations(Resolver)
=============================================================================
