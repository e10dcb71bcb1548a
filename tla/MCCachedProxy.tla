---------------------------- MODULE MCCachedProxy ---------------------------
(* Two handlers and a cache with room for two of three questions, for TLC. *)
EXTENDS CachedProxy

Symmetry == Permutations(Key) \cup Permutations(Handler)

Answers == {{}, {0, 2}, {1}, {1, 3}}
=============================================================================
