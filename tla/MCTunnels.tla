----------------------------- MODULE MCTunnels -----------------------------
(* Small instances of Tunnels for TLC. *)
EXTENDS Tunnels
=============================================================================
