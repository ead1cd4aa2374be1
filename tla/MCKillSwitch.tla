---------------------------- MODULE MCKillSwitch ----------------------------
(* A small instance of KillSwitch for TLC: two processes. *)
EXTENDS KillSwitch, TLC

CONSTANTS svc, cli, blk, loop

Two == {svc, cli}
MCBlocks == {blk}
MCInfra == {loop}
Symmetry == Permutations(Procs)
=============================================================================
