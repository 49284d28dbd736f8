---------------------------- MODULE TunLifecycle ----------------------------
(***************************************************************************)
(* NewTun2ray and Tun2ray.Close (tun.go), while connections of apps come   *)
(* in: TcpRelay is what a connection does.                                 *)
(*                                                                         *)
(* NewTun2ray opens the device, which starts to deliver, before it has set *)
(* all fields that NewConnection reads, and installs the dialer that keeps *)
(* the proxy's own connections out of the tun last; Close takes that       *)
(* dialer away first.  The dialer is one for the whole process: other      *)
(* tuns and V2RayInstance.WithAlternativeSystemDialer replace it.          *)
(***************************************************************************)
EXTENDS TcpRelay

CONSTANT Configs  \* tun -> what its TunConfig may ask for: a dumped UID, a block list

ASSUME ConfigAssumption == Configs \in [Tuns -> SUBSET [dump : BOOLEAN, blocks : BOOLEAN]]

VARIABLES
    new,        \* tun -> where NewTun2ray or Close is
    blockList,  \* tuns with config.BlockedUIDs
    shared      \* history: the dialer was replaced while another tun was in use

tunVars == <<new, blockList, shared>>
vars == <<relayVars, fieldVars, tunVars>>

SystemDialer == [tun |-> NoDialer]   \* that of WithAlternativeSystemDialer

Init ==
    /\ RelayInit
    /\ dumpUID = {} /\ uidDumper = {} /\ blockedUIDs = {}
    /\ device = [t \in Tuns |-> "none"]
    /\ systemDialer = NoDialer
    /\ new = [t \in Tuns |-> "none"]
    /\ blockList = {} /\ shared = FALSE

Step(t, from, to) == ~crashed /\ new[t] = from /\ new' = [new EXCEPT ![t] = to]

InUse(t) == new[t] \notin {"none", "failed", "closed"}

(* The call, with its configuration, and the fields set at once. *)
NewTun2ray(t, config) ==
    /\ Step(t, "none", "device") /\ \A u \in 1..(t - 1) : new[u] # "none"
    /\ dumpUID' = IF config.dump THEN dumpUID \cup {t} ELSE dumpUID
    /\ blockList' = IF config.blocks THEN blockList \cup {t} ELSE blockList
    /\ shared' = (shared \/ \E u \in Tuns : InUse(u))
    /\ UNCHANGED <<relayVars, uidDumper, blockedUIDs, device, systemDialer>>

(* gvisor.New or nat.New: the device loop runs from here on. *)
NewDevice(t) ==
    /\ Step(t, "device", "dumper")
    /\ device' = [device EXCEPT ![t] = "open"]
    /\ UNCHANGED <<relayVars, dumpUID, uidDumper, blockedUIDs, systemDialer, blockList, shared>>

NewDeviceFails(t) ==
    /\ Step(t, "device", "failed")
    /\ UNCHANGED <<relayVars, fieldVars, blockList, shared>>

NeedsDumper(t) == t \in dumpUID \/ TrafficStats \/ t \in blockList

NewDumper(t) ==
    /\ Step(t, "dumper", "block")
    /\ uidDumper' = IF NeedsDumper(t) THEN uidDumper \cup {t} ELSE uidDumper
    /\ UNCHANGED <<relayVars, dumpUID, blockedUIDs, device, systemDialer, blockList, shared>>

(* GetUidDumper returns an error: NewTun2ray too, and the device loop runs on. *)
NewDumperFails(t) ==
    /\ Step(t, "dumper", "failed")
    /\ NeedsDumper(t)
    /\ UNCHANGED <<relayVars, fieldVars, blockList, shared>>

NewBlockedUIDs(t) ==
    /\ Step(t, "block", "dialer")
    /\ blockedUIDs' = IF t \in blockList THEN blockedUIDs \cup {t} ELSE blockedUIDs
    /\ UNCHANGED <<relayVars, dumpUID, uidDumper, device, systemDialer, blockList, shared>>

(* Mutant: a dialer that is already there is kept. *)
NewDialerKept(t) ==
    /\ Step(t, "dialer", "up")
    /\ systemDialer' = IF systemDialer = NoDialer THEN TunDialer(t) ELSE systemDialer
    /\ UNCHANGED <<relayVars, dumpUID, uidDumper, blockedUIDs, device, blockList, shared>>

NewDialer(t) ==
    /\ Step(t, "dialer", "up")
    /\ systemDialer' = TunDialer(t)
    /\ UNCHANGED <<relayVars, dumpUID, uidDumper, blockedUIDs, device, blockList, shared>>

(* WithAlternativeSystemDialer of an instance that tests a configuration. *)
OtherDialer ==
    /\ ~crashed /\ systemDialer # SystemDialer
    /\ systemDialer' = SystemDialer
    /\ shared' = (shared \/ \E u \in Tuns : InUse(u))
    /\ UNCHANGED <<relayVars, dumpUID, uidDumper, blockedUIDs, device, new, blockList>>

(* Close: UseAlternativeSystemDialer(nil), *)
Close(t) ==
    /\ Step(t, "up", "closeDevice")
    /\ systemDialer' = NoDialer
    /\ UNCHANGED <<relayVars, dumpUID, uidDumper, blockedUIDs, device, blockList, shared>>

(* t.dev, which delivers no more connections, *)
CloseDevice(t) ==
    /\ Step(t, "closeDevice", "cancel")
    /\ device' = [device EXCEPT ![t] = "closed"]
    /\ UNCHANGED <<relayVars, dumpUID, uidDumper, blockedUIDs, systemDialer, blockList, shared>>

(* and every context registered by then, under connectionsLock. *)
CloseCancel(t) ==
    /\ Step(t, "cancel", "closed")
    /\ cancelled' = cancelled \cup {r \in connections : tun[r] = t}
    /\ UNCHANGED <<pc, class, tun, connVars, connections, failedDial, crashed, restVars, blockList, shared>>

TunStep(t) ==
    \/ NewDevice(t) \/ NewDeviceFails(t) \/ NewDumper(t) \/ NewDumperFails(t)
    \/ NewBlockedUIDs(t) \/ NewDialer(t)
    \/ CloseDevice(t) \/ CloseCancel(t)

Next ==
    \/ RelayNext /\ UNCHANGED tunVars
    \/ \E r \in Relays, t \in Tuns, cl \in Classes :
          Accepted(r, t, cl, new[t] = "up") /\ UNCHANGED tunVars
    \/ \E r \in Relays : OutboundDials(r, new[tun[r]] = "up") /\ UNCHANGED tunVars
    \/ \E t \in Tuns : \E config \in Configs[t] : NewTun2ray(t, config)
    \/ \E t \in Tuns : TunStep(t) \/ Close(t)
    \/ OtherDialer

(* Goroutines run and dial returns; a loop that meets an ended or closed    *)
(* connection ends.  Nothing makes an app or an outbound end, and the       *)
(* trafficStats block may block for ever.                                   *)
Fairness ==
    /\ \A r \in Relays : WF_vars(NewConnection(r) /\ UNCHANGED tunVars)
    /\ \A r \in Relays, d \in Directions : WF_vars(CopyEnds(r, d) /\ UNCHANGED tunVars)
    /\ ~TrafficStats => \A r \in Relays : WF_vars(CountStats(r) /\ UNCHANGED tunVars)
    /\ \A t \in Tuns : WF_vars(TunStep(t))

Spec == Init /\ [][Next]_vars /\ Fairness

-----------------------------------------------------------------------------
(* Correctness.                                                             *)

RelayPlaces == {"none", "start", "uid", "stats", "register", "dial", "run", "remove", "closeConn", "closeProxy", "done"}
TunPlaces == {"none", "device", "dumper", "block", "dialer", "up", "closeDevice", "cancel", "closed", "failed"}

(* Every variable has its type. *)
TypeOK ==
    /\ pc \in [Relays -> RelayPlaces] /\ class \in [Relays -> Classes] /\ tun \in [Relays -> Tuns]
    /\ conn \in [Relays -> {"none", "open", "closed"}] /\ proxyConn \in [Relays -> {"none", "open", "closed"}]
    /\ ended \in [Relays -> [Directions -> BOOLEAN]]
    /\ copy \in [Relays -> [Directions -> {"none", "running", "ended"}]]
    /\ connections \cup cancelled \cup failedDial \cup early \cup exposed \subseteq Relays
    /\ dumpUID \cup uidDumper \cup blockedUIDs \cup blockList \subseteq Tuns
    /\ device \in [Tuns -> {"none", "open", "closed"}]
    /\ systemDialer \in {NoDialer, SystemDialer} \cup {TunDialer(t) : t \in Tuns}
    /\ new \in [Tuns -> TunPlaces]
    /\ crashed \in BOOLEAN /\ shared \in BOOLEAN

(* No relay outlives its reasons: when one side ends, the other one is     *)
(* closed too, and Close, once called, ends every connection that is        *)
(* registered, even when neither side sends or ends, and even one that is   *)
(* still dialling (tun.go:205-213, 343-356).                                *)
RelaysEnd ==
    \A r \in Relays :
        /\ \A d \in Directions :
              copy[r][d] = "running" /\ ended[r][d] ~> crashed \/ (conn[r] = "closed" /\ proxyConn[r] = "closed")
        /\ new[tun[r]] = "closeDevice" /\ r \in connections ~> pc[r] = "done" \/ crashed

(* A tun that NewTun2ray has returned is complete: a blocked app's          *)
(* connection that comes in then is never given to the proxy, and none      *)
(* meets the nil uidDumper that ends the process.  Before, or after it      *)
(* failed, t.blockedUIDs and t.uidDumper may be nil (tun.go:153-187, 249).  *)
ReturnedTunIsComplete ==
    /\ \A r \in Relays : class[r] = "blocked" /\ tun[r] \in blockList /\ proxyConn[r] # "none" => r \in early
    /\ crashed => \E r \in early : pc[r] = "uid" /\ tun[r] \notin uidDumper

(* While a tun is up, an outbound that connects for one of its relays uses  *)
(* the tun's own dialer, so that the connection is kept out of the tun,     *)
(* provided the process has one user of the dialer at a time                *)
(* (tun.go:197-206, v2ray.go:153).                                          *)
OutboundsProtected ==
    shared \/ exposed = {}
=============================================================================
