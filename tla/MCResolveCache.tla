--------------------------- MODULE MCResolveCache ---------------------------
(* Small instances of ResolveCache for TLC. *)
EXTENDS ResolveCache

CONSTANTS svc, cli, vpn1, vpn2, ip1, ip2

Two == {svc, cli}
MCHosts == {vpn1, vpn2}
MCAnswers == {ip1, ip2}

\* .ovpn files with one remote, with two, and with one name twice (two ports).
MCRemotes == {<<vpn1>>, <<vpn1, vpn2>>, <<vpn2, vpn1>>, <<vpn2, vpn2>>}
=============================================================================
