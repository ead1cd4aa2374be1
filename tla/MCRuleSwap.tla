----------------------------- MODULE MCRuleSwap -----------------------------
EXTENDS RuleSwap

\* Apply takes the rules in one order.
MCTurn(r, R) == r = CHOOSE q \in R : TRUE

MCLanV4 == {{"router"}}
MCLinkLocal == {"fe80"}
MCMulticast == {"ff02"}
MCV6 == {"ep6", "fe80", "ff02", "inet6"}
Addrs4 == {"ep4", "router", "inet4"}
Addrs == Addrs4 \cup MCV6

Ep4 == [addr |-> "ep4", port |-> 1194, proto |-> "UDP"]
Ep6 == [addr |-> "ep6", port |-> 443, proto |-> "TCP"]

\* Protocol, local port and remote port of the connections tried.
Flows == {<<"UDP", 68, 67>>, <<"UDP", 68, 9>>, <<"UDP", 546, 547>>,
          <<"UDP", 9, 53>>, <<"TCP", 9, 53>>, <<"UDP", 9, 1194>>,
          <<"TCP", 9, 443>>, <<"ICMPv6", 0, 0>>}

Connections(flows, addrs, luids, apps) ==
  {[layer |-> <<d, IF a \in MCV6 THEN 6 ELSE 4>>, loopback |-> l,
    proto |-> f[1], lport |-> f[2], rport |-> f[3], raddr |-> a,
    app |-> p, luid |-> u] :
     d \in {"connect", "accept"}, l \in BOOLEAN, f \in flows, a \in addrs,
     p \in apps, u \in luids}

AllTraffic ==
  Connections(Flows, Addrs, {"nic", "tun"}, {"openvpn", "svchost", "listed", "other"})

SomeTraffic ==
  Connections({<<"UDP", 9, 53>>, <<"UDP", 9, 1194>>}, {"ep4", "router", "inet4"},
              {"nic", "tun", "tap"}, {"openvpn", "other"})

AllConfigs ==
  [allowLAN : BOOLEAN, dns : {"off", "svchost", "all"},
   endpoints : {{}, {Ep4, Ep6}}, binary : {"none", "openvpn"},
   luids : {{}, {"tun"}}, policy : {"all", "allowlist"},
   allowed : {{}, {"listed"}}]

\* The VPN goes up and down, with one adapter and with two.
SomeConfigs ==
  [allowLAN : {TRUE}, dns : {"all"}, endpoints : {{Ep4}}, binary : {"openvpn"},
   luids : {{}, {"tun"}, {"tun", "tap"}}, policy : {"all"}, allowed : {{}}]
=============================================================================
