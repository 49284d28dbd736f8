------------------------------ MODULE GVisorTun ------------------------------
(***************************************************************************)
(* The gvisor tun (gvisor/*.go): the link endpoint that discards packets,  *)
(* the TCP forwarder, and Close.                                           *)
(*                                                                         *)
(* The dispatch goroutine of the fd endpoint calls DeliverNetworkPacket    *)
(* for every packet; what is not discarded goes to the stack's dispatcher, *)
(* which Attach sets and Close sets to nil from another goroutine.  The    *)
(* stack (external) calls the UDP handler in the dispatch goroutine, which *)
(* hands on a copy of the datagram and a function writeBack for answers,   *)
(* and starts the TCP forwarder's function in a goroutine per connection   *)
(* request, of which it allows MaxInFlight at a time.                      *)
(***************************************************************************)
EXTENDS Integers, FiniteSets, PacketFilter

CONSTANTS
    Apps,              \* source addresses of apps
    Peers,             \* addresses they send to and get answers from
    NoAddr,            \* addr = nil in a call of writeBack
    Requests,          \* TCP connection requests (SYNs of apps)
    MaxInFlight,       \* 1024: requests the forwarder holds at a time
    EnableIPv6,        \* the stack has the IPv6 protocol
    DiscardICMP,       \* e.discardICMP
    DiscardByNetwork   \* e.discardIPv6 is not nil

VARIABLES
    pc,           \* dispatch goroutine: "read", "filter", "load", "call", "stopped"
    packet,       \* the packet it delivers: version, protocol, and its request if it is a SYN
    local,        \* its variable dispatcher is not nil
    attached,     \* e.dispatcher is not nil
    discardIPv6,  \* what e.discardIPv6() returns
    read6,        \* its variable discardIPv6
    request,      \* request -> "none", "asked", "created", "failed", "completed", "dropped"
    handed,       \* first datagrams of the sessions, which hold their writeBack
    answer,       \* history: the last packet written to the device for an app
    closing,      \* GVisor.Close: "no", "detached", "stopped", "done"
    crashed,      \* a nil dispatcher was called
    verdict       \* history: what became of the last packet

vars == <<pc, packet, local, attached, discardIPv6, read6, request, handed, answer, closing, crashed, verdict>>

NoRequest == 0
Packets == [version : Versions, proto : Protocols, cut : BOOLEAN, request : Requests \cup {NoRequest},
            source : Apps, destination : Peers]

Init ==
    /\ pc = "read"
    /\ packet = CHOOSE p \in Packets : p.version = 4 /\ p.proto = "other" /\ ~p.cut
    /\ local = FALSE /\ attached = TRUE
    /\ discardIPv6 = FALSE /\ read6 = FALSE
    /\ request = [r \in Requests |-> "none"]
    /\ handed = {} /\ answer = [from |-> NoAddr, to |-> NoAddr, peer |-> NoAddr, app |-> NoAddr]
    /\ closing = "no" /\ crashed = FALSE
    /\ verdict = Undecided

NetworkChanges ==
    /\ DiscardByNetwork
    /\ discardIPv6' = ~discardIPv6
    /\ UNCHANGED <<pc, packet, local, attached, read6, request, handed, answer, closing, crashed, verdict>>

(* A SYN is sent once per request and is a TCP packet; only a UDP header has *)
(* a length of its own, which may be more than what was read.               *)
Read(p) ==
    /\ ~crashed /\ pc = "read"
    /\ p.request # NoRequest => p.proto = "tcp" /\ request[p.request] = "none"
    /\ p.cut => p.proto = "udp"
    /\ packet' = p
    /\ verdict' = Undecided
    /\ pc' = "filter"
    /\ UNCHANGED <<local, attached, discardIPv6, read6, request, handed, answer, closing, crashed>>

Verdict(v) ==
    verdict' = [version |-> packet.version, proto |-> packet.proto, cut |-> packet.cut,
                discard6 |-> read6', is |-> v]

(* The two switch cases of DeliverNetworkPacket; v6 is what discardIPv6()   *)
(* returned.                                                                *)
Filtered(v6) ==
    \/ packet.version = 4 /\ DiscardICMP /\ IsICMP(packet.proto)
    \/ packet.version = 6 /\ ((DiscardICMP /\ IsICMP(packet.proto)) \/ v6)

(* discardIPv6() is called once per IPv6 packet. *)
Filter ==
    /\ ~crashed /\ pc = "filter"
    /\ read6' = (packet.version = 6 /\ discardIPv6)
    /\ IF Filtered(read6') THEN pc' = "read" /\ Verdict("drop") ELSE pc' = "load" /\ UNCHANGED verdict
    /\ UNCHANGED <<packet, local, attached, discardIPv6, request, handed, answer, closing, crashed>>

(* dispatcher := e.dispatcher; if dispatcher == nil return *)
Load ==
    /\ ~crashed /\ pc = "load"
    /\ local' = attached
    /\ pc' = IF attached THEN "call" ELSE "read"
    /\ UNCHANGED <<packet, attached, discardIPv6, read6, request, handed, answer, closing, crashed, verdict>>

InFlight == {r \in Requests : request[r] \in {"asked", "created", "failed"}}

(* A SYN is dropped when too many requests are in flight or the stack is    *)
(* closed.                                                                  *)
Admits == Cardinality(InFlight) < MaxInFlight /\ closing \notin {"stopped", "done"}

(* The stack, external, knows these network protocols, ... *)
Known == packet.version = 4 \/ EnableIPv6

(* ... gives a TCP packet to the forwarder, ... *)
StackTCP ==
    /\ Known /\ packet.proto = "tcp"
    /\ Verdict("connection")
    /\ LET r == packet.request IN
       request' = IF r = NoRequest \/ request[r] # "none" THEN request
                  ELSE [request EXCEPT ![r] = IF Admits THEN "asked" ELSE "dropped"]
    /\ UNCHANGED handed

(* ... a datagram to the UDP handler, which drops it if its header says     *)
(* more than arrived, ...                                                   *)
StackDropsUDP ==
    /\ Known /\ packet.proto = "udp" /\ packet.cut
    /\ Verdict("drop")
    /\ UNCHANGED <<request, handed>>

(* ... and else hands it on.  A session keeps the writeBack of its first    *)
(* datagram (Tun2ray.NewPacket).                                            *)
StackUDP ==
    /\ Known /\ packet.proto = "udp" /\ ~packet.cut
    /\ Verdict("packet")
    /\ handed' = IF packet.source \in {d.source : d \in handed} THEN handed ELSE handed \cup {packet}
    /\ UNCHANGED request

(* It answers an echo request by itself, and has no use for the rest. *)
StackOther ==
    /\ ~Known \/ packet.proto \notin {"tcp", "udp"}
    /\ Verdict(IF Known /\ packet.proto = "echo" THEN "reply" ELSE "drop")
    /\ UNCHANGED <<request, handed>>

(* Mutant: the call goes through e.dispatcher. *)
CallField ==
    /\ ~crashed /\ pc = "call"
    /\ crashed' = ~attached
    /\ pc' = "read"
    /\ UNCHANGED <<packet, local, attached, discardIPv6, read6, request, handed, answer, closing, verdict>>

(* dispatcher.DeliverNetworkPacket: the handlers run inside the call. *)
Call ==
    /\ ~crashed /\ pc = "call"
    /\ crashed' = ~local
    /\ pc' = "read"
    /\ UNCHANGED <<packet, local, attached, discardIPv6, read6, answer, closing>>
    /\ StackTCP \/ StackDropsUDP \/ StackUDP \/ StackOther

(* The session that began with datagram d writes an answer from addr, or    *)
(* from an address that is no UDPAddr.                                      *)
WriteBack(d, addr) ==
    /\ ~crashed /\ d \in handed /\ closing # "done"
    /\ answer' = [from |-> IF addr = NoAddr THEN d.destination ELSE addr, to |-> d.source,
                  peer |-> IF addr = NoAddr THEN d.destination ELSE addr, app |-> d.source]
    /\ UNCHANGED <<pc, packet, local, attached, discardIPv6, read6, request, handed, closing, crashed, verdict>>

(* FindRoute fails, as it does in a closed stack, or the session ends. *)
SessionEnds(d) ==
    /\ ~crashed /\ d \in handed
    /\ handed' = handed \ {d}
    /\ UNCHANGED <<pc, packet, local, attached, discardIPv6, read6, request, answer, closing, crashed, verdict>>

-----------------------------------------------------------------------------
(* The function given to tcp.NewForwarder, in a goroutine per request.      *)

CreateEndpoint(r) ==
    /\ ~crashed /\ request[r] = "asked"
    /\ request' = [request EXCEPT ![r] = "created"]
    /\ UNCHANGED <<pc, packet, local, attached, discardIPv6, read6, handed, answer, closing, crashed, verdict>>

CreateFails(r) ==
    /\ ~crashed /\ request[r] = "asked"
    /\ request' = [request EXCEPT ![r] = "failed"]
    /\ UNCHANGED <<pc, packet, local, attached, discardIPv6, read6, handed, answer, closing, crashed, verdict>>

(* Complete(false), then go NewConnection; Complete(true) after a failure. *)
Complete(r) ==
    /\ ~crashed /\ request[r] \in {"created", "failed"}
    /\ request' = [request EXCEPT ![r] = "completed"]
    /\ UNCHANGED <<pc, packet, local, attached, discardIPv6, read6, handed, answer, closing, crashed, verdict>>

-----------------------------------------------------------------------------
(* GVisor.Close.                                                            *)

(* linkEndpointWithDiscard.Attach(nil) clears its own field first ... *)
Detach ==
    /\ ~crashed /\ closing = "no"
    /\ attached' = FALSE
    /\ closing' = "detached"
    /\ UNCHANGED <<pc, packet, local, discardIPv6, read6, request, handed, answer, crashed, verdict>>

(* ... then the fd endpoint's (external), which stops the dispatch          *)
(* goroutine and waits until it is out of DeliverNetworkPacket.             *)
StopDispatch ==
    /\ ~crashed /\ closing = "detached" /\ pc = "read"
    /\ pc' = "stopped"
    /\ closing' = "stopped"
    /\ UNCHANGED <<packet, local, attached, discardIPv6, read6, request, handed, answer, crashed, verdict>>

(* stack.Close, and Abort of the endpoints it still has. *)
StackClose ==
    /\ ~crashed /\ closing = "stopped"
    /\ closing' = "done"
    /\ UNCHANGED <<pc, packet, local, attached, discardIPv6, read6, request, handed, answer, crashed, verdict>>

Dispatch == Filter \/ Load \/ Call
Forward(r) == CreateEndpoint(r) \/ CreateFails(r) \/ Complete(r)

Next ==
    \/ NetworkChanges
    \/ \E p \in Packets : Read(p)
    \/ Dispatch
    \/ \E r \in Requests : Forward(r)
    \/ \E d \in handed : SessionEnds(d) \/ \E addr \in Peers \cup {NoAddr} : WriteBack(d, addr)
    \/ Detach \/ StopDispatch \/ StackClose

-----------------------------------------------------------------------------
(* Correctness.                                                             *)

(* Every variable has its type, and the forwarder holds no more requests    *)
(* than it may.                                                             *)
TypeOK ==
    /\ pc \in {"read", "filter", "load", "call", "stopped"} /\ packet \in Packets
    /\ local \in BOOLEAN /\ attached \in BOOLEAN
    /\ discardIPv6 \in BOOLEAN /\ read6 \in BOOLEAN
    /\ request \in [Requests -> {"none", "asked", "created", "failed", "completed", "dropped"}]
    /\ Cardinality(InFlight) <= MaxInFlight
    /\ handed \subseteq Packets
    /\ closing \in {"no", "detached", "stopped", "done"} /\ crashed \in BOOLEAN
    /\ verdict \in Outcomes

(* Close may detach the dispatcher while a packet is being delivered; the   *)
(* delivery never calls a nil dispatcher.                                   *)
NoNilDispatch == ~crashed
=============================================================================
