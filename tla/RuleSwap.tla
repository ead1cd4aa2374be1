------------------------------ MODULE RuleSwap ------------------------------
(***************************************************************************)
(* What a connection meets while killswitch.Manager.Apply exchanges one    *)
(* configuration for another: the new rules are added one by one, the      *)
(* default denies first, then the old ones are deleted one by one.  Every  *)
(* call may fail, which ends Apply where it is; the next Apply replaces    *)
(* whatever it finds.                                                      *)
(*                                                                         *)
(* KillSwitch.tla has several processes, crashes and Disable; here there   *)
(* is one process, and the rules have their content.  The order of the     *)
(* other rules, and that of the engine's listing, is a parameter.          *)
(***************************************************************************)
EXTENDS FilterRules

CONSTANTS Configs,     \* configurations the service may apply
          Traffic,     \* connections that are attempted
          MaxApplies,  \* bound: calls of Apply
          Turn(_, _)   \* Turn(r, R): rule r of R may be the next one

\* The engine asks about a connection at the layer of its direction and of
\* the family of its remote address.
ASSUME TrafficAssumption ==
  \A x \in Traffic : /\ x.layer \in AllLayers
                     /\ x.raddr \in V6 <=> x.layer \in {Out6, In6}

ASSUME MaxAppliesAssumption == MaxApplies \in Nat

VARIABLES
  kept,     \* our rules the last Apply found and has not deleted
  added,    \* our rules the last Apply has added
  cfg,      \* the configuration of the last Apply
  todo,     \* rules Apply has still to add
  pc,       \* "new", "adding", "deleting", "applied", "failed"
  before,   \* history: the rules the last Apply found
  applies   \* number of calls of Apply

vars == <<kept, added, cfg, todo, pc, before, applies>>

Now == kept \cup added   \* our rules in the engine
Goal == BuildRules(cfg)

Init ==
  /\ kept = {} /\ added = {} /\ todo = {} /\ pc = "new"
  /\ cfg \in Configs /\ before = {} /\ applies = 0

StartApply_DropsFirst(c) ==
  /\ pc \notin {"adding", "deleting"} /\ applies < MaxApplies
  /\ applies' = applies + 1
  /\ cfg' = c /\ todo' = BuildRules(c)
  /\ kept' = {} /\ added' = {} /\ before' = Now
  /\ pc' = "adding"

StartApply(c) ==
  /\ pc \notin {"adding", "deleting"} /\ applies < MaxApplies
  /\ applies' = applies + 1
  /\ cfg' = c /\ todo' = BuildRules(c)
  /\ kept' = Now /\ added' = {} /\ before' = Now
  /\ pc' = "adding"

Due == IF todo \cap DefaultDeny # {} THEN todo \cap DefaultDeny ELSE todo

AddRule_DropsOne ==
  /\ pc = "adding"
  /\ \E r \in Due :
       /\ Turn(r, Due)
       /\ added' = added \cup {r}
       /\ todo' = todo \ {r}
       /\ IF kept = {} THEN UNCHANGED kept
          ELSE \E q \in kept : Turn(q, kept) /\ kept' = kept \ {q}
  /\ pc' = IF todo' # {} THEN "adding" ELSE IF kept' # {} THEN "deleting" ELSE "applied"
  /\ UNCHANGED <<cfg, before, applies>>

AddRule ==
  /\ pc = "adding"
  /\ \E r \in Due :
       /\ Turn(r, Due)
       /\ added' = added \cup {r}
       /\ todo' = todo \ {r}
  /\ pc' = IF todo' # {} THEN "adding" ELSE IF kept # {} THEN "deleting" ELSE "applied"
  /\ UNCHANGED <<kept, cfg, before, applies>>

DeleteRule ==
  /\ pc = "deleting"
  /\ \E r \in kept : Turn(r, kept) /\ kept' = kept \ {r}
  /\ pc' = IF kept' # {} THEN "deleting" ELSE "applied"
  /\ UNCHANGED <<added, cfg, todo, before, applies>>

ApplyFails_KeepsPlace ==
  /\ pc \in {"adding", "deleting"}
  /\ pc' = "failed"
  /\ UNCHANGED <<kept, added, cfg, todo, before, applies>>

ApplyFails ==
  /\ pc \in {"adding", "deleting"}
  /\ pc' = "failed" /\ todo' = {}
  /\ UNCHANGED <<kept, added, cfg, before, applies>>

Next ==
  \/ \E c \in Configs : StartApply(c)
  \/ AddRule
  \/ DeleteRule
  \/ ApplyFails

Spec == Init /\ [][Next]_vars
-----------------------------------------------------------------------------
(***************************************************************************)
(* Type invariant: Apply's loops stop where their lists end (killswitch    *)
(* Apply, the two range loops).                                            *)
(***************************************************************************)
TypeOK ==
  /\ pc \in {"new", "adding", "deleting", "applied", "failed"}
  /\ cfg \in Configs /\ applies \in 0 .. MaxApplies
  /\ todo \subseteq Goal /\ added \subseteq Goal /\ kept \subseteq before
  /\ (pc = "adding") = (todo # {})
  /\ pc = "deleting" => kept # {}
  /\ pc = "applied" => kept = {}

(***************************************************************************)
(* No leak window: at every moment of an exchange, and after one that      *)
(* failed anywhere, a connection passes only if it did under the rules     *)
(* Apply found or does under the rules it was asked for (Apply adds every  *)
(* new rule before it deletes an old one).                                 *)
(***************************************************************************)
NoWindow ==
  \A x \in Traffic :
     Passes(Now, x) => (Passes(before, x) \/ Passes(Goal, x))

(***************************************************************************)
(* No interruption: what both configurations permit, such as the VPN's     *)
(* reconnect and the LAN, is permitted at every moment in between.         *)
(***************************************************************************)
NoInterruption ==
  \A x \in Traffic :
     (Permitted(before, x) /\ Permitted(Goal, x)) => Permitted(Now, x)

-----------------------------------------------------------------------------
(***************************************************************************)
(* The rules of an applied configuration.                                  *)
(***************************************************************************)
Applied == pc = "applied"
IsOut(x) == x.layer \in OutLayers
OnTunnel(x) == x.luid \in cfg.luids
ByVpn(x) == cfg.binary = NoBinary \/ x.app = cfg.binary
Listed(x) == x.app \in cfg.allowed
IsLan(x) == cfg.allowLAN /\ \E prefix \in LanV4 : x.raddr \in prefix
IsNeighbour(x) ==
  /\ x.proto = "ICMPv6"
  /\ x.raddr \in LinkLocal \/ (IsOut(x) /\ x.raddr \in Multicast)
IsDns(x) == IsOut(x) /\ x.rport = 53 /\ x.proto \in {"UDP", "TCP"}
IsDhcp(x) ==
  /\ x.proto = "UDP" /\ x.lport = (IF x.raddr \in V6 THEN 546 ELSE 68)
  /\ IsOut(x) => x.rport = (IF x.raddr \in V6 THEN 547 ELSE 67)
IsLifeline(x) ==
  /\ IsOut(x)
  /\ \E ep \in cfg.endpoints :
        x.raddr = ep.addr /\ x.rport = ep.port /\ x.proto = ep.proto

(***************************************************************************)
(* The comment on Config.VPNEndpoints: nothing but the VPN's own           *)
(* connections leaves or enters the machine outside the tunnel, except     *)
(* that of a DHCP client, neighbour discovery, the LAN when allow_lan says *)
(* so, and name lookups as dns_when_down tells.                            *)
(***************************************************************************)
OnlyLifelineOutsideTunnel ==
  Applied =>
    \A x \in Traffic :
       (Passes(Now, x) /\ ~x.loopback /\ ~OnTunnel(x)) =>
          \/ IsLifeline(x) /\ ByVpn(x)
          \/ IsDhcp(x) \/ IsNeighbour(x) \/ IsLan(x)
          \/ /\ IsDns(x) /\ cfg.luids = {} /\ cfg.dns # "off"
             /\ (cfg.dns # "all" => x.app = Svchost)

\* Fail-closed does not lock the VPN out: its program reaches every endpoint,
\* IPv4 or IPv6, over any adapter (buildRules section 5).
CanReconnect ==
  Applied => \A x \in Traffic : IsLifeline(x) /\ ByVpn(x) => Permitted(Now, x)

(***************************************************************************)
(* app_policy allowlist: a program that is not listed has nothing of the   *)
(* tunnel but name lookups (the VPN program excepted), unless what it does *)
(* is permitted without a tunnel too.                                      *)
(***************************************************************************)
AllowlistHolds ==
  Applied /\ cfg.policy = "allowlist" =>
    \A x \in Traffic :
       (Passes(Now, x) /\ IsOut(x) /\ ~x.loopback /\ OnTunnel(x)) =>
          \/ Listed(x) \/ x.app = cfg.binary \/ IsDns(x)
          \/ (IsLifeline(x) /\ ByVpn(x)) \/ IsDhcp(x) \/ IsNeighbour(x) \/ IsLan(x)

(***************************************************************************)
(* The tunnel is usable: a permitted program connects and is connected to  *)
(* through it, and the DNS client, which resolves its names, gets through  *)
(* (the comment on "DNS via the tunnel for ANY app").                      *)
(***************************************************************************)
TunnelIsUsable ==
  Applied =>
    \A x \in Traffic :
       (OnTunnel(x) /\ (cfg.policy = "allowlist" /\ IsOut(x) =>
                           Listed(x) \/ (IsDns(x) /\ x.app = Svchost))) =>
          Permitted(Now, x)
=============================================================================
