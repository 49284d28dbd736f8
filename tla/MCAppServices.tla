--------------------------- MODULE MCAppServices ---------------------------
EXTENDS AppServices

CONSTANTS a1, a2, v1

(* Two dials at a time, of which at least one needs the server; with        *)
(* nobody dialling for the other parts.                                     *)
MCCasts == {[who |-> {a1, a2}, app |-> 5, vpn |-> 5], [who |-> {}, app |-> 2, vpn |-> 2]}
    \cup [who : {{a1, v1}}, app : {2, 4}, vpn : {4, 5}]

(* A datagram that fits, one with a name, one that is too large, and one    *)
(* behind it.                                                               *)
Datagram(n, isDomain) == [size |-> n, domain |-> isDomain]
MCDatagrams == <<Datagram(2, FALSE), Datagram(1, TRUE), Datagram(3, FALSE), Datagram(1, FALSE)>>

Row(t, l, r, u) == [table |-> t, local |-> l, remote |-> r, uid |-> u]
(* Two users on one port: a looser row before the exact one of a table, and *)
(* one in the IPv4 table that hides the exact one of the IPv6 table.        *)
MCRows == <<Row("4", "source", "none", 1), Row("4", "source", "dest", 2),
            Row("6", "any", "none", 2), Row("6", "source", "dest", 1)>>

MCPieces == <<1, 2>>

(* Powers of two, their neighbours, and what the plugins ask for.           *)
MCSizes == {0, 1, 2, 3, 16, 17, 20480, 32768, 32769, 65535, 65536, 65537}
=============================================================================
