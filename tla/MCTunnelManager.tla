-------------------------- MODULE MCTunnelManager ---------------------------
(* The tunnel manager with two identifiers for each kind of process, for TLC. *)
EXTENDS TunnelManager
=============================================================================
