--------------------------- MODULE RuleSwapProofs ---------------------------
(***************************************************************************)
(* Proofs about FilterRules and RuleSwap for any configurations, traffic,  *)
(* bound and order of the rules: what buildRules permits, and that an      *)
(* exchange of rules never opens nor closes more than it should.           *)
(***************************************************************************)
EXTENDS RuleSwap, TLAPS

(***************************************************************************)
(* The rules that decide: a permit outweighs every block, so a connection  *)
(* is permitted as soon as one permit matches.                             *)
(***************************************************************************)
Hit(R, x) == \E r \in R : r.action = "permit" /\ Matches(r, x)

Ranked(R) ==
  \A r \in R : \/ r.action = "block" /\ r.weight = 0
               \/ r.action = "permit" /\ r.weight = 100

Meets(conds, x) == \A m \in conds : x[m[1]] \in m[2]

LEMMA PermitDecides ==
  ASSUME NEW R, NEW x, Ranked(R)
  PROVE  Permitted(R, x) <=> Hit(R, x)
<1>1. ASSUME NEW r \in R, r.action = "permit", Matches(r, x)
      PROVE  Permitted(R, x)
  <2>1. \A q \in R : q.weight <= r.weight
    BY <1>1 DEF Ranked
  <2>2. QED
    BY <1>1, <2>1 DEF Permitted
<1>2. QED
  BY <1>1 DEF Permitted, Hit

LEMMA HitCup ==
  ASSUME NEW A, NEW B, NEW x
  PROVE  Hit(A \cup B, x) <=> Hit(A, x) \/ Hit(B, x)
  BY DEF Hit

LEMMA HitUnion ==
  ASSUME NEW F, NEW x
  PROVE  Hit(UNION F, x) <=> \E R \in F : Hit(R, x)
  BY DEF Hit

LEMMA HitNone == ASSUME NEW x PROVE ~Hit({}, x)
  BY DEF Hit

LEMMA HitOne ==
  ASSUME NEW l, NEW conds, NEW x
  PROVE  Hit({Permit(l, conds)}, x) <=> x.layer = l /\ Meets(conds, x)
  BY DEF Hit, Permit, Matches, Meets

LEMMA HitOnEach ==
  ASSUME NEW L, NEW conds, NEW x
  PROVE  Hit(OnEach(L, conds), x) <=> x.layer \in L /\ Meets(conds, x)
<1>1. \A l \in L : Permit(l, conds).action = "permit"
  BY DEF Permit
<1>2. \A l \in L : Matches(Permit(l, conds), x) <=> x.layer = l /\ Meets(conds, x)
  BY DEF Permit, Matches, Meets
<1>3. QED
  BY <1>1, <1>2 DEF Hit, OnEach

LEMMA MeetsIs ==
  ASSUME NEW x, NEW f, NEW v
  PROVE  Meets({Is(f, v)}, x) <=> x[f] = v
  BY DEF Meets, Is, Within

LEMMA MeetsWithin ==
  ASSUME NEW x, NEW f, NEW S
  PROVE  Meets({Within(f, S)}, x) <=> x[f] \in S
  BY DEF Meets, Within

LEMMA MeetsCup ==
  ASSUME NEW x, NEW C, NEW D
  PROVE  Meets(C \cup D, x) <=> Meets(C, x) /\ Meets(D, x)
  BY DEF Meets

-----------------------------------------------------------------------------
(***************************************************************************)
(* What each section of buildRules permits, in terms of the connection.    *)
(***************************************************************************)
IsDhcpClient(x) ==
  /\ x.proto = "UDP"
  /\ \/ x.layer = Out4 /\ x.lport = 68 /\ x.rport = 67
     \/ x.layer = In4 /\ x.lport = 68
     \/ x.layer = Out6 /\ x.lport = 546 /\ x.rport = 547
     \/ x.layer = In6 /\ x.lport = 546

IsNdp(x) ==
  /\ x.proto = "ICMPv6"
  /\ \/ x.layer \in {Out6, In6} /\ x.raddr \in LinkLocal
     \/ x.layer = Out6 /\ x.raddr \in Multicast

IsVpn(c, x) == c.binary = NoBinary \/ x.app = c.binary

Reconnects(c, x) ==
  /\ IsVpn(c, x)
  /\ \E ep \in c.endpoints :
       /\ x.layer = LayerOf(ep)
       /\ x.proto = ep.proto /\ x.raddr = ep.addr /\ x.rport = ep.port

Resolves(c, x) ==
  /\ IsDns(x) /\ c.luids = {} /\ c.dns # "off"
  /\ c.dns # "all" => x.app = Svchost

Tunnelled(c, x) ==
  /\ x.luid \in c.luids
  /\ \/ x.layer \in InLayers
     \/ x.layer \in OutLayers /\ c.policy # "allowlist"
     \/ x.layer \in OutLayers /\ x.app \in c.allowed
     \/ x.layer \in OutLayers /\ c.binary # NoBinary /\ x.app = c.binary
     \/ IsDns(x)

OnLan(c, x) ==
  c.allowLAN /\ x.layer \in {Out4, In4} /\ \E prefix \in LanV4 : x.raddr \in prefix

\* The whole policy.
Allowed(c, x) ==
  \/ x.loopback = TRUE /\ x.layer \in AllLayers
  \/ IsDhcpClient(x) \/ IsNdp(x)
  \/ Reconnects(c, x) \/ Resolves(c, x)
  \/ Tunnelled(c, x) \/ OnLan(c, x)

LEMMA HitDeny == ASSUME NEW x PROVE ~Hit(DefaultDeny, x)
  BY DEF Hit, DefaultDeny, Block

LEMMA HitLoopback ==
  ASSUME NEW x
  PROVE  Hit(Loopback, x) <=> x.loopback = TRUE /\ x.layer \in AllLayers
  BY HitOnEach, MeetsIs DEF Loopback

LEMMA HitDhcp == ASSUME NEW x PROVE Hit(Dhcp, x) <=> IsDhcpClient(x)
<1> DEFINE out(p, q) == {Is("proto", "UDP"), Is("lport", p), Is("rport", q)}
           in(p) == {Is("proto", "UDP"), Is("lport", p)}
<1>1. /\ \A p, q : Meets(out(p, q), x) <=> x.proto = "UDP" /\ x.lport = p /\ x.rport = q
      /\ \A p : Meets(in(p), x) <=> x.proto = "UDP" /\ x.lport = p
  BY DEF Meets, Is, Within
<1>2. Dhcp = {Permit(Out4, out(68, 67)), Permit(In4, in(68)),
              Permit(Out6, out(546, 547)), Permit(In6, in(546))}
  BY DEF Dhcp
<1> HIDE DEF out, in
<1>3. Hit(Dhcp, x) <=> \/ Hit({Permit(Out4, out(68, 67))}, x)
                       \/ Hit({Permit(In4, in(68))}, x)
                       \/ Hit({Permit(Out6, out(546, 547))}, x)
                       \/ Hit({Permit(In6, in(546))}, x)
  BY <1>2 DEF Hit
<1>4. QED
  BY <1>1, <1>3, HitOne DEF IsDhcpClient

LEMMA HitNdp == ASSUME NEW x PROVE Hit(Ndp, x) <=> IsNdp(x)
<1> DEFINE icmp(S) == {Is("proto", "ICMPv6"), Within("raddr", S)}
<1>1. \A S : Meets(icmp(S), x) <=> x.proto = "ICMPv6" /\ x.raddr \in S
  BY DEF Meets, Is, Within
<1>2. Ndp = {Permit(Out6, icmp(LinkLocal)), Permit(Out6, icmp(Multicast)),
             Permit(In6, icmp(LinkLocal))}
  BY DEF Ndp
<1> HIDE DEF icmp
<1>3. Hit(Ndp, x) <=> \/ Hit({Permit(Out6, icmp(LinkLocal))}, x)
                      \/ Hit({Permit(Out6, icmp(Multicast))}, x)
                      \/ Hit({Permit(In6, icmp(LinkLocal))}, x)
  BY <1>2 DEF Hit
<1>4. QED
  BY <1>1, <1>3, HitOne DEF IsNdp

LEMMA HitEndpoints ==
  ASSUME NEW c, NEW x
  PROVE  Hit(Endpoints(c), x) <=> Reconnects(c, x)
<1>1. Meets(ByBinary(c), x) <=> IsVpn(c, x)
  BY MeetsIs DEF ByBinary, IsVpn, Meets
<1>2. ASSUME NEW ep
      PROVE  Hit({EndpointRule(c, ep)}, x)
               <=> /\ IsVpn(c, x) /\ x.layer = LayerOf(ep)
                   /\ x.proto = ep.proto /\ x.raddr = ep.addr /\ x.rport = ep.port
  <2> DEFINE conds == {Is("proto", ep.proto), Is("raddr", ep.addr), Is("rport", ep.port)}
  <2>1. Meets(conds, x)
          <=> x.proto = ep.proto /\ x.raddr = ep.addr /\ x.rport = ep.port
    BY DEF Meets, Is, Within
  <2>2. Meets(conds \cup ByBinary(c), x) <=> Meets(conds, x) /\ IsVpn(c, x)
    BY <1>1, MeetsCup
  <2>3. Hit({EndpointRule(c, ep)}, x)
          <=> x.layer = LayerOf(ep) /\ Meets(conds \cup ByBinary(c), x)
    BY HitOne DEF EndpointRule
  <2>4. QED
    BY <2>1, <2>2, <2>3
<1>3. Hit(Endpoints(c), x) <=> \E ep \in c.endpoints : Hit({EndpointRule(c, ep)}, x)
  BY DEF Hit, Endpoints
<1>4. QED
  BY <1>2, <1>3 DEF Reconnects

LEMMA HitDns ==
  ASSUME NEW more, NEW x
  PROVE  Hit(Dns(more), x) <=> IsDns(x) /\ Meets(more, x)
<1> DEFINE port53(p) == {Is("proto", p), Is("rport", 53)}
<1>1. \A p : Meets(port53(p), x) <=> x.proto = p /\ x.rport = 53
  BY DEF Meets, Is, Within
<1>2. Dns(more) = OnEach(OutLayers, port53("UDP") \cup more)
                    \cup OnEach(OutLayers, port53("TCP") \cup more)
  BY DEF Dns
<1> HIDE DEF port53
<1>3. Hit(Dns(more), x) <=> \/ Hit(OnEach(OutLayers, port53("UDP") \cup more), x)
                            \/ Hit(OnEach(OutLayers, port53("TCP") \cup more), x)
  BY <1>2, HitCup
<1>4. \A p : Hit(OnEach(OutLayers, port53(p) \cup more), x)
             <=> x.layer \in OutLayers /\ x.proto = p /\ x.rport = 53 /\ Meets(more, x)
  BY <1>1, HitOnEach, MeetsCup
<1>5. QED
  BY <1>3, <1>4 DEF IsDns, IsOut

LEMMA HitDnsWhenDown ==
  ASSUME NEW c, NEW x
  PROVE  Hit(DnsWhenDown(c), x) <=> Resolves(c, x)
<1>1. Meets({}, x) /\ (Meets({Is("app", Svchost)}, x) <=> x.app = Svchost)
  BY MeetsIs DEF Meets
<1>2. QED
  BY <1>1, HitDns, HitNone DEF DnsWhenDown, Resolves

LEMMA HitTunnels ==
  ASSUME NEW c, NEW x
  PROVE  Hit(Tunnels(c), x) <=> Tunnelled(c, x)
<1>1. \A u, a : Hit(AppOnTunnel(u, a), x)
                <=> x.layer \in OutLayers /\ x.luid = u /\ x.app = a
  <2>1. \A u, a : Meets({Is("luid", u), Is("app", a)}, x) <=> x.luid = u /\ x.app = a
    BY DEF Meets, Is, Within
  <2>2. QED
    BY <2>1, HitOnEach DEF AppOnTunnel
<1>2. \A u : Hit(AppsOnTunnel(c, u), x)
             <=> x.layer \in OutLayers /\ x.luid = u /\ x.app \in c.allowed
  <2>1. ASSUME NEW u
        PROVE  Hit(AppsOnTunnel(c, u), x) <=> \E a \in c.allowed : Hit(AppOnTunnel(u, a), x)
    BY DEF AppsOnTunnel, Hit
  <2>2. QED
    BY <1>1, <2>1
<1>3. \A u : Hit(BinaryOnTunnel(c, u), x)
             <=> /\ x.layer \in OutLayers /\ x.luid = u
                 /\ c.binary # NoBinary /\ x.app = c.binary
  BY <1>1, HitNone DEF BinaryOnTunnel
<1>4. \A u : Hit(Dns({Is("luid", u)}), x) <=> IsDns(x) /\ x.luid = u
  BY HitDns, MeetsIs
<1>5. \A u : /\ Hit(AnyOnTunnel(u), x) <=> x.layer \in OutLayers /\ x.luid = u
             /\ Hit(TunnelIn(u), x) <=> x.layer \in InLayers /\ x.luid = u
  BY HitOnEach, MeetsIs DEF AnyOnTunnel, TunnelIn
<1> DEFINE through(u) == Hit(TunnelOut(c, u) \cup TunnelIn(u), x)
<1>6. \A u \in c.luids : through(u) <=> x.luid = u /\ Tunnelled(c, x)
  <2> SUFFICES ASSUME NEW u \in c.luids
               PROVE  through(u) <=> x.luid = u /\ Tunnelled(c, x)
    OBVIOUS
  <2>1. through(u) <=> Hit(TunnelOut(c, u), x) \/ Hit(TunnelIn(u), x)
    BY HitCup
  <2>2. CASE c.policy # "allowlist"
    <3>1. through(u) <=> x.luid = u /\ x.layer \in OutLayers \cup InLayers
      BY <1>5, <2>1, <2>2 DEF TunnelOut
    <3>2. QED
      BY <2>2, <3>1 DEF Tunnelled, IsDns, IsOut
  <2>3. CASE c.policy = "allowlist"
    <3>1. Hit(TunnelOut(c, u), x)
            <=> \/ Hit(AppsOnTunnel(c, u), x) \/ Hit(Dns({Is("luid", u)}), x)
                \/ Hit(BinaryOnTunnel(c, u), x)
      BY <2>3 DEF TunnelOut, Hit
    <3>2. QED
      BY <1>2, <1>3, <1>4, <1>5, <2>1, <2>3, <3>1 DEF Tunnelled
  <2>4. QED
    BY <2>2, <2>3
<1>7. Hit(Tunnels(c), x) <=> \E u \in c.luids : through(u)
  BY DEF Tunnels, Hit
<1>8. QED
  BY <1>6, <1>7 DEF Tunnelled

LEMMA HitLan ==
  ASSUME NEW c, NEW x
  PROVE  Hit(Lan(c), x) <=> OnLan(c, x)
<1>1. \A prefix : Hit(LanRules(prefix), x)
                  <=> x.layer \in {Out4, In4} /\ x.raddr \in prefix
  BY HitOnEach, MeetsWithin DEF LanRules
<1>2. c.allowLAN => (Hit(Lan(c), x) <=> \E prefix \in LanV4 : Hit(LanRules(prefix), x))
  BY DEF Lan, Hit
<1>3. ~c.allowLAN => ~Hit(Lan(c), x)
  BY HitNone DEF Lan
<1>4. QED
  BY <1>1, <1>2, <1>3 DEF OnLan
-----------------------------------------------------------------------------
(***************************************************************************)
(* buildRules as a whole.                                                  *)
(***************************************************************************)
LEMMA HitRules ==
  ASSUME NEW c, NEW x
  PROVE  Hit(BuildRules(c), x) <=> Allowed(c, x)
<1>1. Hit(BuildRules(c), x)
        <=> \/ Hit(DefaultDeny, x) \/ Hit(Loopback, x) \/ Hit(Dhcp, x) \/ Hit(Ndp, x)
            \/ Hit(Endpoints(c), x) \/ Hit(DnsWhenDown(c), x)
            \/ Hit(Tunnels(c), x) \/ Hit(Lan(c), x)
  BY DEF BuildRules, Hit
<1>2. QED
  BY <1>1, HitDeny, HitLoopback, HitDhcp, HitNdp, HitEndpoints, HitDnsWhenDown,
     HitTunnels, HitLan DEF Allowed

LEMMA RulesRanked == ASSUME NEW c PROVE Ranked(BuildRules(c))
<1>1. \A l, conds : Permit(l, conds).action = "permit" /\ Permit(l, conds).weight = 100
  BY DEF Permit
<1>2. \A L, conds : Ranked(OnEach(L, conds))
  BY <1>1 DEF Ranked, OnEach
<1>3. Ranked(DefaultDeny)
  BY DEF Ranked, DefaultDeny, Block
<1>4. Ranked(Loopback) /\ Ranked(Dhcp) /\ Ranked(Ndp)
  BY <1>1, <1>2 DEF Ranked, Loopback, Dhcp, Ndp
<1>5. Ranked(Endpoints(c))
  <2>1. \A ep : /\ EndpointRule(c, ep).action = "permit"
                /\ EndpointRule(c, ep).weight = 100
    BY <1>1 DEF EndpointRule
  <2>2. QED
    BY <2>1 DEF Ranked, Endpoints
<1>6. \A more : Ranked(Dns(more))
  BY <1>2 DEF Ranked, Dns
<1>7. Ranked(DnsWhenDown(c))
  BY <1>6 DEF DnsWhenDown, Ranked
<1>8. \A u : /\ Ranked(AppsOnTunnel(c, u)) /\ Ranked(BinaryOnTunnel(c, u))
             /\ Ranked(AnyOnTunnel(u)) /\ Ranked(TunnelIn(u))
  <2>1. \A u, a : Ranked(AppOnTunnel(u, a))
    BY <1>2 DEF AppOnTunnel
  <2>2. \A u : Ranked(AppsOnTunnel(c, u)) /\ Ranked(BinaryOnTunnel(c, u))
    BY <2>1 DEF Ranked, AppsOnTunnel, BinaryOnTunnel
  <2>3. \A u : Ranked(AnyOnTunnel(u)) /\ Ranked(TunnelIn(u))
    BY <1>2 DEF AnyOnTunnel, TunnelIn
  <2>4. QED
    BY <2>2, <2>3
<1>9. \A u : Ranked(TunnelOut(c, u) \cup TunnelIn(u))
  BY <1>6, <1>8 DEF TunnelOut, Ranked
<1>10. Ranked(Tunnels(c))
  BY <1>9 DEF Tunnels, Ranked
<1>11. Ranked(Lan(c))
  <2>1. \A prefix : Ranked(LanRules(prefix))
    BY <1>2 DEF LanRules
  <2>2. QED
    BY <2>1 DEF Ranked, Lan
<1>12. QED
  BY <1>3, <1>4, <1>5, <1>7, <1>10, <1>11 DEF BuildRules, Ranked

\* Every layer denies by default, so nothing passes for want of a rule.
LEMMA NothingUnseen ==
  ASSUME NEW c, NEW x, x.layer \in AllLayers
  PROVE  \E r \in BuildRules(c) : Matches(r, x)
<1>1. Block(x.layer) \in BuildRules(c)
  BY DEF BuildRules, DefaultDeny
<1>2. Matches(Block(x.layer), x)
  BY DEF Matches, Block
<1>3. QED
  BY <1>1, <1>2

\* The rules of a configuration let through exactly what its policy says
\* (buildRules, whatever endpoints, adapters, programs and prefixes).
THEOREM PolicyExact ==
  ASSUME NEW c, NEW x, x.layer \in AllLayers
  PROVE  /\ Permitted(BuildRules(c), x) <=> Allowed(c, x)
         /\ Passes(BuildRules(c), x) <=> Allowed(c, x)
  BY HitRules, RulesRanked, PermitDecides, NothingUnseen DEF Passes
-----------------------------------------------------------------------------
(***************************************************************************)
(* The exchange.  An Apply that is adding has deleted nothing; one that    *)
(* has deleted something has added everything, and stays so if it fails.   *)
(***************************************************************************)
Exchange ==
  /\ pc = "adding" => kept = before /\ Goal \subseteq added \cup todo
  /\ pc \in {"deleting", "applied"} => Goal \subseteq added
  /\ kept = before \/ Goal \subseteq added

IInv == TypeOK /\ Exchange /\ Ranked(before)

LEMMA Start == Init => IInv
<1> SUFFICES ASSUME Init PROVE IInv
  OBVIOUS
<1>1. TypeOK
  BY MaxAppliesAssumption DEF Init, TypeOK
<1>2. QED
  BY <1>1 DEF Init, IInv, Exchange, Ranked

LEMMA Step == IInv /\ [Next]_vars => IInv'
<1> SUFFICES ASSUME IInv, [Next]_vars PROVE IInv'
  OBVIOUS
<1>1. TypeOK /\ Exchange /\ Ranked(before)
  BY DEF IInv
<1>2. Ranked(Now)
  <2>1. Ranked(Goal)
    BY RulesRanked DEF Goal
  <2>2. QED
    BY <1>1, <2>1 DEF TypeOK, Ranked, Now
<1>3. ASSUME NEW c \in Configs, StartApply(c) PROVE IInv'
  <2>1. TypeOK'
    <3>1. BuildRules(c) # {}
      BY DEF BuildRules, DefaultDeny, AllLayers, OutLayers
    <3>2. applies' \in 0 .. MaxApplies
      BY <1>1, <1>3, MaxAppliesAssumption DEF StartApply, TypeOK
    <3>3. QED
      BY <1>1, <1>3, <3>1, <3>2 DEF StartApply, TypeOK, Goal
  <2>2. Exchange'
    BY <1>3 DEF StartApply, Exchange, Goal
  <2>3. Ranked(before)'
    BY <1>2, <1>3 DEF StartApply, Ranked
  <2>4. QED
    BY <2>1, <2>2, <2>3 DEF IInv
<1>4. ASSUME AddRule PROVE IInv'
  <2>1. PICK r \in Due : added' = added \cup {r} /\ todo' = todo \ {r}
    BY <1>4 DEF AddRule
  <2>2. r \in todo
    BY DEF Due
  <2>3. /\ pc = "adding" /\ UNCHANGED <<kept, cfg, before, applies>>
        /\ pc' = IF todo' # {} THEN "adding" ELSE IF kept # {} THEN "deleting" ELSE "applied"
    BY <1>4 DEF AddRule
  <2>4. Goal' = Goal
    BY <2>3 DEF Goal
  <2>5. TypeOK'
    BY <1>1, <2>1, <2>2, <2>3, <2>4 DEF TypeOK
  <2>6. Exchange'
    BY <1>1, <2>1, <2>2, <2>3, <2>4 DEF Exchange
  <2>7. QED
    BY <1>1, <2>3, <2>5, <2>6 DEF IInv, Ranked
<1>5. ASSUME DeleteRule PROVE IInv'
  <2>1. PICK r \in kept : kept' = kept \ {r}
    BY <1>5 DEF DeleteRule
  <2>2. /\ pc = "deleting" /\ UNCHANGED <<added, cfg, todo, before, applies>>
        /\ pc' = IF kept' # {} THEN "deleting" ELSE "applied"
    BY <1>5 DEF DeleteRule
  <2>3. Goal' = Goal
    BY <2>2 DEF Goal
  <2>4. TypeOK'
    BY <1>1, <2>1, <2>2, <2>3 DEF TypeOK
  <2>5. Exchange'
    BY <1>1, <2>1, <2>2, <2>3 DEF Exchange
  <2>6. QED
    BY <1>1, <2>2, <2>4, <2>5 DEF IInv, Ranked
<1>6. ASSUME ApplyFails PROVE IInv'
  <2>1. Goal' = Goal
    BY <1>6 DEF ApplyFails, Goal
  <2>2. QED
    BY <1>1, <1>6, <2>1 DEF ApplyFails, IInv, TypeOK, Exchange, Ranked
<1>7. CASE UNCHANGED vars
  BY <1>1, <1>7 DEF vars, IInv, TypeOK, Exchange, Ranked, Goal
<1>8. QED
  BY <1>3, <1>4, <1>5, <1>6, <1>7 DEF Next

LEMMA Inductive == Spec => []IInv
  BY Start, Step, PTL DEF Spec

\* Apply's loops stop where their lists end, for any configurations and bound.
THEOREM TypeCorrect == Spec => []TypeOK
<1>1. IInv => TypeOK
  BY DEF IInv
<1>2. QED
  BY <1>1, Inductive, PTL

\* Between the two configurations the engine holds all of one of them.
LEMMA AllOfOne ==
  ASSUME IInv
  PROVE  /\ Now \subseteq before \cup Goal
         /\ before \subseteq Now \/ Goal \subseteq Now
         /\ Ranked(Now) /\ Ranked(before) /\ Ranked(Goal)
<1>1. Ranked(Goal) /\ Ranked(before)
  BY RulesRanked DEF Goal, IInv
<1>2. /\ Now \subseteq before \cup Goal
      /\ before \subseteq Now \/ Goal \subseteq Now
  BY DEF IInv, TypeOK, Exchange, Now
<1>3. QED
  BY <1>1, <1>2 DEF Ranked

\* No leak window at any point of any sequence of exchanges, failed ones
\* included.
THEOREM NeverOpens == Spec => []NoWindow
<1>1. ASSUME IInv, NEW x \in Traffic, Passes(Now, x)
      PROVE  Passes(before, x) \/ Passes(Goal, x)
  <2>1. CASE Hit(Now, x)
    <3>1. Hit(before, x) \/ Hit(Goal, x)
      BY <1>1, <2>1, AllOfOne DEF Hit
    <3>2. QED
      BY <1>1, <3>1, AllOfOne, PermitDecides DEF Passes
  <2>2. CASE ~\E r \in Now : Matches(r, x)
    BY <1>1, <2>2, AllOfOne DEF Passes
  <2>3. QED
    BY <1>1, <2>1, <2>2, AllOfOne, PermitDecides DEF Passes
<1>2. IInv => NoWindow
  BY <1>1 DEF NoWindow
<1>3. QED
  BY <1>2, Inductive, PTL

\* What the old and the new configuration permit is never cut in between.
THEOREM NeverInterrupts == Spec => []NoInterruption
<1>1. ASSUME IInv, NEW x \in Traffic, Permitted(before, x), Permitted(Goal, x)
      PROVE  Permitted(Now, x)
  <2>1. Hit(before, x) /\ Hit(Goal, x)
    BY <1>1, AllOfOne, PermitDecides
  <2>2. Hit(Now, x)
    BY <1>1, <2>1, AllOfOne DEF Hit
  <2>3. QED
    BY <1>1, <2>2, AllOfOne, PermitDecides
<1>2. IInv => NoInterruption
  BY <1>1 DEF NoInterruption
<1>3. QED
  BY <1>2, Inductive, PTL
-----------------------------------------------------------------------------
(***************************************************************************)
(* The policy of an applied configuration.                                 *)
(***************************************************************************)
\* A successful Apply leaves the rules of its configuration and no other,
\* whatever earlier ones left behind, and they let through what the policy says.
LEMMA AppliedPolicy ==
  ASSUME IInv, Applied, NEW x \in Traffic
  PROVE  /\ Permitted(Now, x) <=> Allowed(cfg, x)
         /\ Passes(Now, x) <=> Allowed(cfg, x)
         /\ x.layer \in AllLayers
         /\ x.raddr \in V6 <=> x.layer \in {Out6, In6}
<1>1. Now = BuildRules(cfg)
  BY DEF IInv, TypeOK, Exchange, Applied, Now, Goal
<1>2. QED
  BY <1>1, TrafficAssumption, PolicyExact

\* The permits of the local link, without the layers.
LEMMA LinkPermits ==
  ASSUME IInv, Applied, NEW x \in Traffic
  PROVE  /\ IsDhcpClient(x) => IsDhcp(x)
         /\ IsNdp(x) => IsNeighbour(x)
         /\ OnLan(cfg, x) => IsLan(x)
<1>1. x.raddr \in V6 <=> x.layer \in {Out6, In6}
  BY AppliedPolicy
<1>2. IsDhcpClient(x) => IsDhcp(x)
  BY <1>1 DEF IsDhcpClient, IsDhcp, IsOut, OutLayers, Out4, Out6, In4, In6
<1>3. IsNdp(x) => IsNeighbour(x)
  BY DEF IsNdp, IsNeighbour, IsOut, OutLayers
<1>4. OnLan(cfg, x) => IsLan(x)
  BY DEF OnLan, IsLan
<1>5. QED
  BY <1>2, <1>3, <1>4

\* Outside the tunnel there is the VPN's lifeline and little else, for any
\* configuration.
THEOREM OutsideTunnel == Spec => []OnlyLifelineOutsideTunnel
<1>1. ASSUME IInv, Applied, NEW x \in Traffic, Passes(Now, x),
             ~x.loopback, ~OnTunnel(x)
      PROVE  \/ IsLifeline(x) /\ ByVpn(x)
             \/ IsDhcp(x) \/ IsNeighbour(x) \/ IsLan(x)
             \/ /\ IsDns(x) /\ cfg.luids = {} /\ cfg.dns # "off"
                /\ (cfg.dns # "all" => x.app = Svchost)
  <2>1. Allowed(cfg, x)
    BY <1>1, AppliedPolicy
  <2>2. ~Tunnelled(cfg, x) /\ x.loopback # TRUE
    BY <1>1 DEF Tunnelled, OnTunnel
  <2>3. /\ IsDhcpClient(x) => IsDhcp(x)
        /\ IsNdp(x) => IsNeighbour(x)
        /\ OnLan(cfg, x) => IsLan(x)
    BY <1>1, LinkPermits
  <2>4. Reconnects(cfg, x) => IsLifeline(x) /\ ByVpn(x)
    BY DEF Reconnects, IsVpn, IsLifeline, ByVpn, IsOut, LayerOf, OutLayers
  <2>5. QED
    BY <2>1, <2>2, <2>3, <2>4 DEF Allowed, Resolves
<1>2. IInv => OnlyLifelineOutsideTunnel
  BY <1>1 DEF OnlyLifelineOutsideTunnel
<1>3. QED
  BY <1>2, Inductive, PTL

\* The VPN program reaches every endpoint, for any configuration.
THEOREM Reconnecting == Spec => []CanReconnect
<1>1. ASSUME IInv, Applied, NEW x \in Traffic, IsLifeline(x), ByVpn(x)
      PROVE  Permitted(Now, x)
  <2>1. PICK ep \in cfg.endpoints :
          x.raddr = ep.addr /\ x.rport = ep.port /\ x.proto = ep.proto
    BY <1>1 DEF IsLifeline
  <2>2. x.layer = LayerOf(ep)
    <3>1. x.layer \in {Out4, Out6} /\ (x.raddr \in V6 <=> x.layer \in {Out6, In6})
      BY <1>1, AppliedPolicy DEF IsLifeline, IsOut, OutLayers
    <3>2. Out4 \notin {Out6, In6}
      BY DEF Out4, Out6, In6
    <3>3. QED
      BY <2>1, <3>1, <3>2 DEF LayerOf
  <2>3. Reconnects(cfg, x)
    BY <1>1, <2>1, <2>2 DEF Reconnects, IsVpn, ByVpn
  <2>4. QED
    BY <1>1, <2>3, AppliedPolicy DEF Allowed
<1>2. IInv => CanReconnect
  BY <1>1 DEF CanReconnect
<1>3. QED
  BY <1>2, Inductive, PTL

\* Under allowlist the tunnel is for the listed programs, for any configuration.
THEOREM Allowlisted == Spec => []AllowlistHolds
<1>1. ASSUME IInv, Applied, cfg.policy = "allowlist", NEW x \in Traffic,
             Passes(Now, x), IsOut(x), ~x.loopback, OnTunnel(x)
      PROVE  \/ Listed(x) \/ x.app = cfg.binary \/ IsDns(x)
             \/ (IsLifeline(x) /\ ByVpn(x)) \/ IsDhcp(x)
             \/ IsNeighbour(x) \/ IsLan(x)
  <2>1. Allowed(cfg, x) /\ x.loopback # TRUE
    BY <1>1, AppliedPolicy
  <2>2. /\ IsDhcpClient(x) => IsDhcp(x)
        /\ IsNdp(x) => IsNeighbour(x)
        /\ OnLan(cfg, x) => IsLan(x)
    BY <1>1, LinkPermits
  <2>3. Reconnects(cfg, x) => IsLifeline(x) /\ ByVpn(x)
    BY DEF Reconnects, IsVpn, IsLifeline, ByVpn, IsOut, LayerOf, OutLayers
  <2>5. x.layer \notin InLayers
    BY <1>1 DEF IsOut, OutLayers, InLayers, Out4, Out6, In4, In6
  <2>6. Tunnelled(cfg, x) => Listed(x) \/ x.app = cfg.binary \/ IsDns(x)
    BY <1>1, <2>5 DEF Tunnelled, Listed
  <2>7. QED
    BY <2>1, <2>2, <2>3, <2>6 DEF Allowed, Resolves
<1>2. IInv => AllowlistHolds
  BY <1>1 DEF AllowlistHolds
<1>3. QED
  BY <1>2, Inductive, PTL

\* Programs that may use the tunnel can, for any configuration.
THEOREM Usable == Spec => []TunnelIsUsable
<1>1. ASSUME IInv, Applied, NEW x \in Traffic, OnTunnel(x),
             cfg.policy = "allowlist" /\ IsOut(x) =>
               Listed(x) \/ (IsDns(x) /\ x.app = Svchost)
      PROVE  Permitted(Now, x)
  <2>1. x.layer \in OutLayers \/ x.layer \in InLayers
    BY <1>1, AppliedPolicy DEF AllLayers
  <2>2. Tunnelled(cfg, x)
    BY <1>1, <2>1 DEF Tunnelled, OnTunnel, IsOut, Listed
  <2>3. QED
    BY <1>1, <2>2, AppliedPolicy DEF Allowed
<1>2. IInv => TunnelIsUsable
  BY <1>1 DEF TunnelIsUsable
<1>3. QED
  BY <1>2, Inductive, PTL
=============================================================================
