----------------------------- MODULE SoleManager -----------------------------
(***************************************************************************)
(* One process alone with the WFP engine: the calls of KillSwitch.tla      *)
(* implement the one-step operations of Engine.tla.  The engine's rules    *)
(* change call by call; those of Engine.tla change when the operation      *)
(* returns or dies, so the rules found at its start are remembered.        *)
(***************************************************************************)
EXTENDS KillSwitch

CONSTANT Sole   \* the process

OneProcess == Procs = {Sole}
\* A block, an adapter's permits and the other permits are different rules.
DistinctRules ==
  /\ Blocks \cap (Infra \cup DnsDown \cup Luids) = {}
  /\ Luids \cap (Infra \cup DnsDown) = {}

VARIABLE before   \* history: what the engine held when the operation began

soleVars == <<vars, before>>

Held(F) == {<<f.rule, f.owner = "persistent">> : f \in F}

Call ==
  IF pc[Sole] \in ApplyPc
  THEN [op |-> "apply", adapters |-> goal[Sole] \cap Luids]
  ELSE IF pc[Sole] \in DisablePc THEN [op |-> "disable", adapters |-> {}]
  ELSE [op |-> "none", adapters |-> {}]

Rules == IF pc[Sole] = "idle" THEN Held(filters) ELSE before

E == INSTANCE Engine WITH session <- sess[Sole], call <- Call,
                          rules <- Rules, answer <- ret[Sole]

SoleInit == Init /\ before = {}

SoleNext ==
  /\ Next
  /\ before' = IF pc[Sole] = "idle" /\ pc'[Sole] # "idle"
               THEN Held(filters) ELSE IF pc'[Sole] = "idle" THEN {} ELSE before

SoleSpec == SoleInit /\ [][SoleNext]_soleVars

-----------------------------------------------------------------------------
(***************************************************************************)
(* Apply and Disable, call by call and failing or dying anywhere, leave    *)
(* the engine only in states that the one-step operations leave it in      *)
(* (Apply's comment: "new rules (including duplicate blocks) are added     *)
(* first, old rules are deleted after"; Disable goes on after an error).   *)
(***************************************************************************)
KeepsPromise == E!Spec
=============================================================================
