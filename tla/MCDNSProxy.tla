----------------------------- MODULE MCDNSProxy -----------------------------
(* The forwarding path on two resolvers, for TLC. *)
EXTENDS DNSProxy, TLC

Symmetry == Permutations(Resolver) \cup Permutations(UDPHandler)
=============================================================================
