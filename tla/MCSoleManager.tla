---------------------------- MODULE MCSoleManager ----------------------------
(* A small instance of SoleManager for TLC. *)
EXTENDS SoleManager

CONSTANTS blk, loop, dns, tun

One == {Sole}
MCBlocks == {blk}
MCInfra == {loop}
MCDnsDown == {dns}
MCLuids == {tun}

ASSUME OneProcess /\ DistinctRules
=============================================================================
