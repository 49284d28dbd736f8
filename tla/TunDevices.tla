----------------------------- MODULE TunDevices -----------------------------
(***************************************************************************)
(* The device of a tun (NewTun2ray, tun.go): one of the two                *)
(* implementations, SystemTun or GVisorTun, which are to treat every       *)
(* packet of an app alike.  They serve the same handler, and share the     *)
(* flag that the Android side's network callback sets.                     *)
(***************************************************************************)
EXTENDS Integers, PacketFilter

CONSTANTS
    Apps, Peers, NoAddr,
    MaxBuffers,            \* of SystemTun
    Requests, MaxInFlight, \* of GVisorTun
    EnableIPv6,            \* config.EnableIPv6
    DiscardICMP,           \* implementation -> config.DiscardICMP it is checked with
    DiscardByNetwork       \* config.DiscardIPv6BasedOnNetwork

Implementations == {"system", "gvisor"}

(* Some app sends to some peer: the first packet is one of theirs. *)
ASSUME UseAssumption == Apps # {} /\ Peers # {}
ASSUME AddrAssumption == NoAddr \notin Apps \cup Peers
ASSUME FlagAssumption ==
    EnableIPv6 \in BOOLEAN /\ DiscardByNetwork \in BOOLEAN /\ DiscardICMP \in [Implementations -> BOOLEAN]
ASSUME BufferAssumption == MaxBuffers \in Nat \ {0}
ASSUME RequestAssumption == 0 \notin Requests /\ MaxInFlight \in Nat \ {0}

(* gvisor.New puts linkEndpointWithDiscard in between only if it has work. *)
ASSUME DiscardAssumption == DiscardICMP["gvisor"] \/ DiscardByNetwork

VARIABLES
    implementation, discardIPv6, answer, verdict,
    loop, packet, cache, owner, origin, newHeader,
    stage, current, local, attached, read6, request, handed, closing, nilCalled

System == INSTANCE SystemTun WITH
    DiscardICMP <- DiscardICMP["system"], pc <- loop
GVisor == INSTANCE GVisorTun WITH
    DiscardICMP <- DiscardICMP["gvisor"], pc <- stage, packet <- current,
    crashed <- nilCalled

systemVars == <<loop, packet, cache, owner, origin, newHeader>>
gvisorVars == <<stage, current, local, attached, read6, request, handed, closing, nilCalled>>
deviceVars == <<implementation, discardIPv6, answer, verdict, systemVars, gvisorVars>>

DeviceInit == implementation \in Implementations /\ System!Init /\ GVisor!Init

DeviceNext ==
    \/ implementation = "system" /\ System!Next /\ UNCHANGED <<implementation, gvisorVars>>
    \/ implementation = "gvisor" /\ GVisor!Next /\ UNCHANGED <<implementation, systemVars>>

DeviceSpec == DeviceInit /\ [][DeviceNext]_deviceVars

-----------------------------------------------------------------------------
(* Correctness.                                                             *)

(* Both implementations treat an app's packets alike.  What becomes of a    *)
(* packet is what the reference says for the discardIPv6 of the moment,     *)
(* however the network changes between the reads (nat.go:109-162,           *)
(* endpoint.go:47-79), except for two kinds of packets that gvisor drops    *)
(* and the system tun treats like any other: IPv6 packets when its stack    *)
(* has no IPv6, and datagrams whose UDP header says more than arrived       *)
(* (gvisor/udp.go:41-44).  And what is written for an app goes to the app   *)
(* whose packet caused it and carries the peer's address, although the      *)
(* system tun builds all answers of a session in one header (udp.go:53-98   *)
(* in nat and 69-77 in gvisor).                                             *)
TreatedAlike ==
    /\ verdict.is =
           IF implementation = "gvisor" /\ ((verdict.version = 6 /\ ~EnableIPv6) \/ verdict.cut) THEN "drop"
           ELSE Wanted(verdict.version, verdict.proto, verdict.discard6, DiscardICMP[implementation])
    /\ answer.from = answer.peer /\ answer.to = answer.app

(* The system tun's loop never reads into a buffer it has handed over       *)
(* (nat.go:84-91): a datagram the handler still holds is not overwritten by *)
(* the next packet, and a buffer that went back to the pool is neither      *)
(* written to nor released again.                                           *)
CacheIsOurs == System!CacheIsOurs

(* GVisor.Close may detach the dispatcher while a packet is being           *)
(* delivered; the delivery never calls a nil dispatcher (endpoint.go:75).   *)
NoNilDispatch == GVisor!NoNilDispatch
=============================================================================
