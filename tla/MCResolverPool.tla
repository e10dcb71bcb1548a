--------------------------- MODULE MCResolverPool ---------------------------
(* The pool under its most general client, for TLC. *)
EXTENDS ResolverPool, TLC

Symmetry == Permutations(Resolver)
=============================================================================
