---------------------------- MODULE EngineOutcomes ----------------------------
(***************************************************************************)
(* What killswitch.Manager's Apply and Disable can leave in the engine, as *)
(* a function of what was there, of the adapters and of where the call     *)
(* failed, when no other process interferes.  Engine.tla makes actions of  *)
(* it; Service.tla is built on it (ServiceProofs.tla).                     *)
(*                                                                         *)
(* A rule is held with the fact whether it outlives its session.           *)
(***************************************************************************)
CONSTANTS Blocks,    \* the default-deny rules
          Infra,     \* permits of every configuration
          DnsDown,   \* permits installed only without a tunnel
          Luids      \* tunnel adapters

Rule == Blocks \cup Infra \cup DnsDown \cup Luids

BuildRules(us) == Blocks \cup Infra \cup us \cup (IF us = {} THEN DnsDown ELSE {})

New(us, keep) == {<<r, keep>> : r \in BuildRules(us)}

\* The default denies are added before any permit.
Partial(us, keep) ==
  {A \in SUBSET New(us, keep) :
     (\E r \in Rule \ Blocks : <<r, keep>> \in A) =>
        \A r \in Blocks : <<r, keep>> \in A}

(***************************************************************************)
(* A successful Apply leaves the new rules and nothing else.  One that     *)
(* fails leaves all it found and some of the new, or all of the new and    *)
(* some of what it found: it never deletes before it has added.            *)
(***************************************************************************)
ApplyFailed(F, us, keep) ==
  {F \cup A : A \in Partial(us, keep)} \cup {New(us, keep) \cup O : O \in SUBSET F}

DisableFailed(F) == SUBSET F
===============================================================================
