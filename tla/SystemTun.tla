------------------------------ MODULE SystemTun ------------------------------
(***************************************************************************)
(* The device loop of the "system" tun (nat/nat.go), its UDP and ICMP      *)
(* halves (nat/udp.go, nat/icmp.go); TCP is TcpNat.                        *)
(*                                                                         *)
(* The loop reads every packet into the buffer cache and decides what      *)
(* becomes of it.  A UDP datagram is handed to the handler together with   *)
(* the buffer, so that the loop needs a new one, and with a function       *)
(* writeBack that puts the answers of the session into packets for the     *)
(* app; all answers of a session are built in one header, newHeader.       *)
(* Meanwhile handlers release buffers and the network, and with it         *)
(* discardIPv6, changes.                                                   *)
(***************************************************************************)
EXTENDS Integers, PacketFilter

CONSTANTS
    Apps,              \* source addresses of apps
    Peers,             \* addresses they send to and get answers from
    NoAddr,            \* addr = nil in a call of writeBack
    DiscardICMP,       \* t.discardICMP
    DiscardByNetwork,  \* t.discardIPv6 is not nil
    MaxBuffers         \* bound on the buffers, hence on the datagrams

Buffers == 1..MaxBuffers
Packets == [version : Versions, proto : Protocols, cut : BOOLEAN, source : Apps, destination : Peers]

VARIABLES
    pc,           \* the loop: "read", "deliver" or "ended"
    packet,       \* the packet in cache
    cache,        \* the loop's buffer
    owner,        \* buffer -> "new", "loop", "handler", "pool", "lost"
    discardIPv6,  \* what t.discardIPv6() returns
    origin,       \* buffer -> the datagram it was handed over with
    newHeader,    \* buffer -> the header its writeBack fills
    answer,       \* history: the last packet written to the device for an app
    verdict       \* history: what became of the last packet read

loopVars == <<pc, packet, cache>>
bufferVars == <<owner, origin>>
vars == <<loopVars, bufferVars, discardIPv6, newHeader, answer, verdict>>

NoHeader == [source |-> NoAddr, destination |-> NoAddr]

Init ==
    /\ pc = "read"
    /\ packet = CHOOSE p \in Packets : p.version = 4 /\ p.proto = "other" /\ ~p.cut
    /\ cache = 1
    /\ owner = [b \in Buffers |-> IF b = 1 THEN "loop" ELSE "new"]
    /\ discardIPv6 = FALSE
    /\ origin = [b \in Buffers |-> packet]
    /\ newHeader = [b \in Buffers |-> NoHeader]
    /\ answer = [from |-> NoAddr, to |-> NoAddr, peer |-> NoAddr, app |-> NoAddr]
    /\ verdict = Undecided

(* The network callback; without it t.discardIPv6 is nil. *)
NetworkChanges ==
    /\ DiscardByNetwork
    /\ discardIPv6' = ~discardIPv6
    /\ UNCHANGED <<loopVars, bufferVars, newHeader, answer, verdict>>

(* device.Read fills cache, whoever else may hold it.  Only a UDP header has *)
(* a length of its own, which may be more than what was read.               *)
Read(p) ==
    /\ pc = "read"
    /\ p.cut => p.proto = "udp"
    /\ pc' = "deliver"
    /\ packet' = p
    /\ verdict' = Undecided
    /\ UNCHANGED <<cache, bufferVars, discardIPv6, newHeader, answer>>

(* device.Read fails: the loop ends for good and releases its buffer. *)
ReadFails ==
    /\ pc = "read"
    /\ pc' = "ended"
    /\ owner' = [owner EXCEPT ![cache] = "pool"]
    /\ UNCHANGED <<packet, cache, origin, discardIPv6, newHeader, answer, verdict>>

Verdict(v) ==
    verdict' = [version |-> packet.version, proto |-> packet.proto, cut |-> packet.cut,
                discard6 |-> discardIPv6, is |-> v]

(* deliverPacket returned false: the buffer is used again. *)
KeepCache == pc' = "read" /\ UNCHANGED <<packet, cache>>

(* Mutant: deliverPacket returns false for a datagram it has handed over. *)
RenewCacheForgotten == KeepCache

(* deliverPacket returned true: buf.NewWithSize. *)
RenewCache ==
    /\ pc' = "read"
    /\ UNCHANGED packet
    /\ \E b \in Buffers : owner[b] = "new" /\ (\A a \in Buffers : owner[a] = "new" => b <= a) /\ cache' = b

Delivering(proto) == pc = "deliver" /\ packet.proto = proto
Discarded6 == packet.version = 6 /\ discardIPv6

(* processIPv4 / processIPv6 of the TCP forwarder. *)
ProcessTCP ==
    /\ Delivering("tcp") /\ ~Discarded6
    /\ Verdict("connection")
    /\ KeepCache
    /\ UNCHANGED <<bufferVars, discardIPv6, newHeader, answer>>

(* processIPv4UDP / processIPv6UDP: the packet's header, with its           *)
(* destination replaced by the app, is copied to newHeader.  The length in  *)
(* the UDP header is not looked at.                                         *)
ProcessUDP ==
    /\ Delivering("udp") /\ ~Discarded6
    /\ Verdict("packet")
    /\ RenewCache
    /\ owner' = [owner EXCEPT ![cache'] = "loop", ![cache] = "handler"]
    /\ origin' = [origin EXCEPT ![cache] = packet]
    /\ newHeader' = [newHeader EXCEPT ![cache] = [source |-> packet.source, destination |-> packet.source]]
    /\ UNCHANGED <<discardIPv6, answer>>

(* An IPv6 datagram that is discarded takes its buffer along. *)
DiscardUDP ==
    /\ Delivering("udp") /\ Discarded6
    /\ Verdict("drop")
    /\ RenewCache
    /\ owner' = [owner EXCEPT ![cache'] = "loop", ![cache] = "lost"]
    /\ UNCHANGED <<origin, discardIPv6, newHeader, answer>>

DiscardTCP ==
    /\ Delivering("tcp") /\ Discarded6
    /\ Verdict("drop")
    /\ KeepCache
    /\ UNCHANGED <<bufferVars, discardIPv6, newHeader, answer>>

DiscardICMPPacket ==
    /\ pc = "deliver" /\ IsICMP(packet.proto) /\ (Discarded6 \/ DiscardICMP)
    /\ Verdict("drop")
    /\ KeepCache
    /\ UNCHANGED <<bufferVars, discardIPv6, newHeader, answer>>

(* Mutant: processICMPv6 does not look at discardIPv6. *)
ProcessICMPAlways ==
    /\ pc = "deliver" /\ IsICMP(packet.proto) /\ ~DiscardICMP
    /\ Verdict(IF packet.proto = "echo" THEN "reply" ELSE "drop")
    /\ answer' = IF packet.proto # "echo" THEN answer
                 ELSE [from |-> packet.destination, to |-> packet.source,
                       peer |-> packet.destination, app |-> packet.source]
    /\ KeepCache
    /\ UNCHANGED <<bufferVars, discardIPv6, newHeader>>

(* processICMPv4 / processICMPv6: an echo request is answered in place, by  *)
(* exchanging source and destination; other messages are ignored.           *)
ProcessICMP ==
    /\ pc = "deliver" /\ IsICMP(packet.proto) /\ ~Discarded6 /\ ~DiscardICMP
    /\ Verdict(IF packet.proto = "echo" THEN "reply" ELSE "drop")
    /\ answer' = IF packet.proto # "echo" THEN answer
                 ELSE [from |-> packet.destination, to |-> packet.source,
                       peer |-> packet.destination, app |-> packet.source]
    /\ KeepCache
    /\ UNCHANGED <<bufferVars, discardIPv6, newHeader>>

(* No case for the protocol: ignored. *)
IgnoreOther ==
    /\ Delivering("other")
    /\ Verdict("drop")
    /\ KeepCache
    /\ UNCHANGED <<bufferVars, discardIPv6, newHeader, answer>>

-----------------------------------------------------------------------------
(* The handler's side.                                                      *)

(* The datagram was written or dropped (UdpTable). *)
Release(b) ==
    /\ owner[b] = "handler"
    /\ owner' = [owner EXCEPT ![b] = "pool"]
    /\ UNCHANGED <<loopVars, origin, discardIPv6, newHeader, answer, verdict>>

(* The session that began with the datagram of buffer b writes an answer    *)
(* that came from addr, or from an address that is not a UDPAddr.           *)
WriteBack(b, addr) ==
    LET from == IF addr = NoAddr THEN origin[b].destination ELSE addr IN
    /\ newHeader[b] # NoHeader
    /\ newHeader' = [newHeader EXCEPT ![b].source = from]
    /\ answer' = [from |-> from, to |-> newHeader[b].destination,
                  peer |-> IF addr = NoAddr THEN origin[b].destination ELSE addr,
                  app |-> origin[b].source]
    /\ UNCHANGED <<loopVars, bufferVars, discardIPv6, verdict>>

Next ==
    \/ NetworkChanges
    \/ (\E p \in Packets : Read(p)) \/ ReadFails
    \/ ProcessTCP \/ ProcessUDP \/ ProcessICMP
    \/ DiscardTCP \/ DiscardUDP \/ DiscardICMPPacket \/ IgnoreOther
    \/ \E b \in Buffers : Release(b) \/ \E addr \in Peers \cup {NoAddr} : WriteBack(b, addr)

-----------------------------------------------------------------------------
(* Correctness.                                                             *)

Addresses == Apps \cup Peers \cup {NoAddr}

(* Every variable has its type; headers and answers are addressed to apps. *)
TypeOK ==
    /\ pc \in {"read", "deliver", "ended"} /\ packet \in Packets /\ cache \in Buffers
    /\ owner \in [Buffers -> {"new", "loop", "handler", "pool", "lost"}]
    /\ discardIPv6 \in BOOLEAN
    /\ origin \in [Buffers -> Packets]
    /\ newHeader \in [Buffers -> [source : Addresses, destination : Apps \cup {NoAddr}]]
    /\ answer \in [from : Addresses, to : Addresses, peer : Peers \cup {NoAddr}, app : Apps \cup {NoAddr}]
    /\ verdict \in Outcomes

(* The loop never reads into a buffer it has handed over: a datagram the    *)
(* handler still holds is not overwritten by the next packet, and a buffer  *)
(* that went back to the pool is neither written to nor released again.     *)
CacheIsOurs == pc # "ended" => owner[cache] = "loop"
=============================================================================
