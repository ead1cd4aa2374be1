----------------------------- MODULE MCLifecycle -----------------------------
(* Small instances of Lifecycle for TLC. *)
EXTENDS Serial

MCFiles == { [enabled |-> TRUE, persistent |-> TRUE],
             [enabled |-> FALSE, persistent |-> FALSE] }
=============================================================================
