----------------------------- MODULE FilterRules -----------------------------
(***************************************************************************)
(* What the killswitch lets through: buildRules (internal/killswitch) and  *)
(* the arbitration of its rules by the Windows Filtering Platform.         *)
(*                                                                         *)
(* A match of a rule is a pair: a field of the connection and the values   *)
(* it accepts.  Addresses, adapters and programs are values of CONSTANTS;  *)
(* a program stands for its WFP application id.  Rules with one content    *)
(* and different ids act alike, so buildRules yields a set; its order is   *)
(* left to RuleSwap.  A failing wf.AppID makes buildRules fail as a whole, *)
(* before any rule is added (KillSwitch!ApplyFails).                       *)
(***************************************************************************)
EXTENDS Naturals

CONSTANTS LanV4,      \* the IPv4 LAN prefixes, as sets of addresses
          LinkLocal,  \* the addresses in fe80::/10
          Multicast,  \* the addresses in ff02::/16
          V6,         \* all IPv6 addresses
          Svchost,    \* the DNS client service's program
          NoBinary    \* openvpn.binary is not configured

Out4 == <<"connect", 4>>
Out6 == <<"connect", 6>>
In4 == <<"accept", 4>>
In6 == <<"accept", 6>>
OutLayers == {Out4, Out6}
InLayers == {In4, In6}
AllLayers == OutLayers \cup InLayers

Block(layer) ==
  [layer |-> layer, action |-> "block", weight |-> 0, conds |-> {}]

Permit(layer, conds) ==
  [layer |-> layer, action |-> "permit", weight |-> 100, conds |-> conds]

OnEach(layers, conds) == {Permit(l, conds) : l \in layers}

Within(field, values) == <<field, values>>
Is(field, value) == Within(field, {value})

-----------------------------------------------------------------------------
(***************************************************************************)
(* The sections of buildRules, in its order.                               *)
(***************************************************************************)
DefaultDeny == {Block(l) : l \in AllLayers}

Loopback == OnEach(AllLayers, {Is("loopback", TRUE)})

Dhcp ==
  { Permit(Out4, {Is("proto", "UDP"), Is("lport", 68), Is("rport", 67)}),
    Permit(In4, {Is("proto", "UDP"), Is("lport", 68)}),
    Permit(Out6, {Is("proto", "UDP"), Is("lport", 546), Is("rport", 547)}),
    Permit(In6, {Is("proto", "UDP"), Is("lport", 546)}) }

Ndp ==
  { Permit(Out6, {Is("proto", "ICMPv6"), Within("raddr", LinkLocal)}),
    Permit(Out6, {Is("proto", "ICMPv6"), Within("raddr", Multicast)}),
    Permit(In6, {Is("proto", "ICMPv6"), Within("raddr", LinkLocal)}) }

ByBinary(c) == IF c.binary = NoBinary THEN {} ELSE {Is("app", c.binary)}

LayerOf_V4(ep) == Out4

LayerOf(ep) == IF ep.addr \in V6 THEN Out6 ELSE Out4

EndpointRule_AnyPort(c, ep) ==
  Permit(LayerOf(ep), {Is("proto", ep.proto), Is("raddr", ep.addr)} \cup ByBinary(c))

EndpointRule(c, ep) ==
  Permit(LayerOf(ep), {Is("proto", ep.proto), Is("raddr", ep.addr),
                       Is("rport", ep.port)} \cup ByBinary(c))

Endpoints(c) == {EndpointRule(c, ep) : ep \in c.endpoints}

\* Port 53 over UDP and TCP, for the connections that more describes.
Dns(more) ==
  OnEach(OutLayers, {Is("proto", "UDP"), Is("rport", 53)} \cup more) \cup
  OnEach(OutLayers, {Is("proto", "TCP"), Is("rport", 53)} \cup more)

DnsWhenDown(c) ==
  IF c.luids # {} \/ c.dns = "off" THEN {}
  ELSE IF c.dns = "all" THEN Dns({})
  ELSE Dns({Is("app", Svchost)})

AppOnTunnel(luid, app) ==
  OnEach(OutLayers, {Is("luid", luid), Is("app", app)})

AppsOnTunnel(c, luid) == UNION {AppOnTunnel(luid, app) : app \in c.allowed}

BinaryOnTunnel(c, luid) ==
  IF c.binary = NoBinary THEN {} ELSE AppOnTunnel(luid, c.binary)

AnyOnTunnel(luid) == OnEach(OutLayers, {Is("luid", luid)})

TunnelOut_NoDns(c, luid) ==
  IF c.policy # "allowlist" THEN AnyOnTunnel(luid)
  ELSE AppsOnTunnel(c, luid) \cup BinaryOnTunnel(c, luid)

TunnelOut_AnyApp(c, luid) == AnyOnTunnel(luid)

TunnelOut(c, luid) ==
  IF c.policy # "allowlist" THEN AnyOnTunnel(luid)
  ELSE AppsOnTunnel(c, luid) \cup Dns({Is("luid", luid)}) \cup BinaryOnTunnel(c, luid)

TunnelIn(luid) == OnEach(InLayers, {Is("luid", luid)})

Tunnels(c) == UNION {TunnelOut(c, luid) \cup TunnelIn(luid) : luid \in c.luids}

LanRules(prefix) == OnEach({Out4, In4}, {Within("raddr", prefix)})

Lan(c) == IF c.allowLAN THEN UNION {LanRules(prefix) : prefix \in LanV4} ELSE {}

BuildRules(c) ==
  DefaultDeny \cup Loopback \cup Dhcp \cup Ndp \cup Endpoints(c) \cup
  DnsWhenDown(c) \cup Tunnels(c) \cup Lan(c)

-----------------------------------------------------------------------------
(***************************************************************************)
(* The arbitration (external): a rule sees the connections of its layer    *)
(* that meet all its conditions.  In one sublayer the heaviest rule        *)
(* decides; a connection that no rule sees is none of our business.        *)
(***************************************************************************)
Matches(r, x) ==
  /\ r.layer = x.layer
  /\ \A m \in r.conds : x[m[1]] \in m[2]

Permitted(R, x) ==
  LET hits == {r \in R : Matches(r, x)}
  IN  \E r \in hits : /\ r.action = "permit"
                      /\ \A q \in hits : q.weight <= r.weight

Passes(R, x) == Permitted(R, x) \/ ~\E r \in R : Matches(r, x)
=============================================================================
