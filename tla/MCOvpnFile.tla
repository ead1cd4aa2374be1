----------------------------- MODULE MCOvpnFile -----------------------------
(* Small instances of OvpnFile for TLC. *)
EXTENDS OvpnFile

MCToken == {"remote", "port", "PORT", "proto", "dev", "#", "vpn", "443", "0",
            "70000", "none", "udp", "tcp-client"}
MCLower == [t \in MCToken |-> IF t = "PORT" THEN "port" ELSE t]
MCNumber == [t \in MCToken |-> CASE t = "443" -> 443 [] t = "0" -> 0
                                 [] t = "70000" -> 70000 [] OTHER -> -1]

MCLongLine == <<"long">>
MCMissing == << <<"no file">> >>

PortValues == {"443", "0", "70000", "none"}

MCLines ==
  { <<>>, <<"#", "remote", "vpn">>, <<"dev", "tcp-client">>, <<"port">>, <<"remote">>,
    <<"remote", "vpn">>, MCLongLine }
  \cup {<<"port", p>> : p \in PortValues} \cup {<<"PORT", "443">>}
  \cup {<<"proto", q>> : q \in {"udp", "tcp-client"}}
  \cup {<<"remote", "vpn", p>> : p \in PortValues}
  \cup {<<"remote", "vpn", p, "tcp-client">> : p \in {"443", "none"}}

\* Every file of up to three lines.
MCFiles == {<<>>, MCMissing} \cup UNION {[1 .. n -> MCLines] : n \in 1 .. 3}
=============================================================================
