---------------------------- MODULE PacketFilter ----------------------------
(***************************************************************************)
(* What becomes of a packet an app sends, as both tun implementations have *)
(* it (nat/nat.go deliverPacket, gvisor/endpoint.go DeliverNetworkPacket): *)
(* the reference the two are compared with.                                *)
(***************************************************************************)

Versions == {4, 6}
Protocols == {"tcp", "udp", "echo", "icmp", "other"}   \* echo: an ICMP echo request

IsICMP(proto) == proto \in {"echo", "icmp"}

(* discard6: IPv6 is to be discarded on this network; discardICMP: ICMP is. *)
Wanted(version, proto, discard6, discardICMP) ==
    IF (version = 6 /\ discard6) \/ (IsICMP(proto) /\ discardICMP) THEN "drop"
    ELSE CASE proto = "tcp" -> "connection"
           [] proto = "udp" -> "packet"
           [] proto = "echo" -> "reply"
           [] OTHER -> "drop"

(* What became of a packet: its version, protocol and whether its UDP       *)
(* header says more than arrived (cut), what discardIPv6() said, and the    *)
(* decision.                                                                *)
Outcomes == [version : Versions, proto : Protocols, cut : BOOLEAN, discard6 : BOOLEAN,
             is : {"connection", "packet", "reply", "drop"}]

(* The history of what became of a packet, while none is decided. *)
Undecided == [version |-> 4, proto |-> "other", cut |-> FALSE, discard6 |-> FALSE, is |-> "drop"]
=============================================================================
