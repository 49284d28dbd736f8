------------------------------- MODULE TcpNat -------------------------------
(***************************************************************************)
(* The TCP half of the "system" tun (nat/tcp.go, nat/tcpnat.go).           *)
(*                                                                         *)
(* Every TCP packet an app sends is rewritten so that it seems to come     *)
(* from addrNext:natPort and is reflected to the forwarder's own listener; *)
(* what the kernel answers is rewritten back.  tcpNAT keeps two maps, flow *)
(* to port and port to session, under two locks.  Three goroutines use it: *)
(* the device loop (Lookup, and LookupInverse for answers), the accept     *)
(* loop (LookupInverse) and the sweeper (checkTimeout).                    *)
(*                                                                         *)
(* A flow is a natKey (source and destination); 0 in addrMap and NoFlow in *)
(* sessFlow stand for a missing map entry.  The kernel's TCP stack is      *)
(* external: per remote port, which flow's packet opened the socket.       *)
(***************************************************************************)
EXTENDS Integers

CONSTANTS
    Flows,       \* natKeys the apps use
    NoFlow,      \* no flow
    FirstPort,   \* 10000: first port handed out
    PortSpace,   \* 2^16: ports are uint16
    Timeout,     \* 300 s: idle time after which a session may be swept
    RefreshGap,  \* 1 s: lastActive is not rewritten more often than this
    MaxClock     \* bound on the clock

ASSUME FlowAssumption == NoFlow \notin Flows
ASSUME PortAssumption ==
    /\ FirstPort \in Nat \ {0} /\ PortSpace \in Nat /\ FirstPort + 1 < PortSpace
ASSUME TimeAssumption ==
    /\ Timeout \in Nat \ {0} /\ RefreshGap \in Nat /\ MaxClock \in Nat

Ports == FirstPort .. (PortSpace - 1)
Readers == {"dev", "accept"}     \* the two goroutines that call LookupInverse

VARIABLES
    addrMap,     \* tcpNAT.addrMap: flow -> port, 0 if absent
    sessFlow,    \* tcpNAT.portMap: port -> flow of its session, NoFlow if absent
    lastActive,  \* port -> session.lastActive
    portIndex,   \* tcpNAT.portIndex, a uint16
    clock,       \* time.Now()
    rd,          \* local state of each reader
    sweeper,     \* local state of loopCheckTimeout
    listening,   \* the listener is open
    kOwner,      \* kernel: remote port -> flow whose packet opened the socket
    kState,      \* kernel: remote port -> state of that socket
    foreign,     \* kernel: a connection that another host made waits for Accept
    lastUse,     \* history: port -> last time its session was stored or looked up
    routed,      \* history: every flow a connection or an answer was attributed to
    overrun      \* history: a port still in use was handed out again

natVars == <<addrMap, sessFlow, lastActive, portIndex>>
kernelVars == <<kOwner, kState, foreign>>
vars == <<natVars, clock, rd, sweeper, listening, kernelVars, lastUse, routed, overrun>>

Idle == [pc |-> "idle", port |-> 0, flow |-> NoFlow, from |-> NoFlow, live |-> FALSE]

Init ==
    /\ addrMap = [f \in Flows |-> 0]
    /\ sessFlow = [p \in Ports |-> NoFlow]
    /\ lastActive = [p \in Ports |-> 0]
    /\ portIndex = FirstPort
    /\ clock = 0
    /\ rd = [r \in Readers |-> Idle]
    /\ sweeper = [pc |-> "select", now |-> 0, next |-> Timeout]
    /\ listening = TRUE
    /\ kOwner = [p \in Ports |-> NoFlow]
    /\ kState = [p \in Ports |-> "free"]
    /\ foreign = FALSE
    /\ lastUse = [p \in Ports |-> 0]
    /\ routed = {}
    /\ overrun = FALSE

-----------------------------------------------------------------------------
(* Lookup: the device loop translates a packet of an app.                   *)

NextPort == IF portIndex = 0 THEN FirstPort ELSE portIndex

AdvancePortIndex ==
    portIndex' = IF portIndex = 0 THEN FirstPort + 1 ELSE (portIndex + 1) % PortSpace

(* Somebody still refers to the port: a map entry or a socket. *)
InUse(p) ==
    \/ \E f \in Flows : addrMap[f] = p
    \/ sessFlow[p] # NoFlow
    \/ kOwner[p] # NoFlow

(* Kernel, external: a packet of flow f with source port p reaches the      *)
(* listener's address.  A SYN opens a socket, anything else is answered     *)
(* with a RST, unless a socket for that remote port exists already.         *)
KernelReceive(f, p) ==
    IF kOwner[p] = NoFlow
    THEN /\ kOwner' = [kOwner EXCEPT ![p] = f]
         /\ \E s \in {"backlog", "rst"} :
               /\ s = "backlog" => listening
               /\ kState' = [kState EXCEPT ![p] = s]
         /\ UNCHANGED foreign
    ELSE UNCHANGED kernelVars

(* The flow is in addrMap: the packet goes out with its port.  Lookup does  *)
(* not touch the session.                                                   *)
LookupHit(f) ==
    /\ rd["dev"].pc = "idle"
    /\ addrMap[f] # 0
    /\ KernelReceive(f, addrMap[f])
    /\ UNCHANGED <<natVars, clock, rd, sweeper, listening, lastUse, routed, overrun>>

(* The flow is new.  Under addrAccess a port is taken and addrMap updated;  *)
(* portMap is still without the session when addrAccess is released.  Only  *)
(* this goroutine adds flows, so the miss under RLock is still a miss here. *)
LookupAllocate(f) ==
    /\ rd["dev"].pc = "idle"
    /\ addrMap[f] = 0
    /\ AdvancePortIndex
    /\ addrMap' = [addrMap EXCEPT ![f] = NextPort]
    /\ rd' = [rd EXCEPT !["dev"] = [pc |-> "insert", port |-> NextPort, flow |-> f,
                                   from |-> NoFlow, live |-> FALSE]]
    /\ overrun' = (overrun \/ InUse(NextPort))
    /\ UNCHANGED <<sessFlow, lastActive, clock, sweeper, listening, kernelVars, lastUse, routed>>

(* A session object was dropped from portMap at the ports of S: a reader    *)
(* that still holds a pointer to it refreshes a dead object.                *)
Detach(readers, S) ==
    [r \in Readers |-> IF readers[r].port \in S THEN [readers[r] EXCEPT !.live = FALSE]
                                                ELSE readers[r]]

(* Under portAccess the session is stored; then the packet is written. *)
LookupInsert ==
    /\ rd["dev"].pc = "insert"
    /\ LET p == rd["dev"].port
           f == rd["dev"].flow
       IN /\ sessFlow' = [sessFlow EXCEPT ![p] = f]
          /\ lastActive' = [lastActive EXCEPT ![p] = clock]
          /\ lastUse' = [lastUse EXCEPT ![p] = clock]
          /\ rd' = Detach([rd EXCEPT !["dev"] = Idle], {p})
          /\ KernelReceive(f, p)
    /\ UNCHANGED <<addrMap, portIndex, clock, sweeper, listening, routed, overrun>>

-----------------------------------------------------------------------------
(* LookupInverse: portMap is read under RLock, the session's lastActive is  *)
(* refreshed afterwards, under the session's own lock.                      *)

ReadSession(r, p) ==
    rd' = [rd EXCEPT ![r] = [pc |-> "refresh", port |-> p, flow |-> sessFlow[p],
                             from |-> kOwner[p], live |-> TRUE]]

(* Mutant: the comparison is the wrong way round. *)
RefreshInverted(r) ==
    LET p == rd[r].port IN
    /\ lastActive' = IF rd[r].live /\ clock - lastActive[p] < RefreshGap
                     THEN [lastActive EXCEPT ![p] = clock] ELSE lastActive
    /\ lastUse' = IF rd[r].live THEN [lastUse EXCEPT ![p] = clock] ELSE lastUse

Refresh(r) ==
    LET p == rd[r].port IN
    /\ lastActive' = IF rd[r].live /\ clock - lastActive[p] > RefreshGap
                     THEN [lastActive EXCEPT ![p] = clock] ELSE lastActive
    /\ lastUse' = IF rd[r].live THEN [lastUse EXCEPT ![p] = clock] ELSE lastUse

(* The kernel drops the socket with remote port p. *)
KernelFree(p) ==
    /\ kOwner' = [kOwner EXCEPT ![p] = NoFlow]
    /\ kState' = [kState EXCEPT ![p] = "free"]
    /\ UNCHANGED foreign

(* The device loop reads an answer of the kernel for port p.  Without a     *)
(* session it is dropped; with one it is rewritten for the session's flow.  *)
AnswerUnknown(p) ==
    /\ rd["dev"].pc = "idle"
    /\ kState[p] # "free"
    /\ sessFlow[p] = NoFlow
    /\ IF kState[p] = "rst" THEN KernelFree(p) ELSE UNCHANGED kernelVars
    /\ UNCHANGED <<natVars, clock, rd, sweeper, listening, lastUse, routed, overrun>>

AnswerLookup(p) ==
    /\ rd["dev"].pc = "idle"
    /\ kState[p] # "free"
    /\ sessFlow[p] # NoFlow
    /\ ReadSession("dev", p)
    /\ IF kState[p] = "rst" THEN KernelFree(p) ELSE UNCHANGED kernelVars
    /\ UNCHANGED <<natVars, clock, sweeper, listening, lastUse, routed, overrun>>

AnswerRewrite ==
    /\ rd["dev"].pc = "refresh"
    /\ Refresh("dev")
    /\ routed' = routed \cup {[flow |-> rd["dev"].flow, from |-> rd["dev"].from]}
    /\ rd' = [rd EXCEPT !["dev"] = Idle]
    /\ UNCHANGED <<addrMap, sessFlow, portIndex, clock, sweeper, listening, kernelVars, overrun>>

-----------------------------------------------------------------------------
(* dispatch: one turn of the accept loop.                                   *)

(* Mutant: the remote address is not compared with addr4Next and addr6Next. *)
AcceptForeignUnchecked ==
    /\ rd["accept"].pc = "idle" /\ listening
    /\ foreign
    /\ foreign' = FALSE
    /\ \E p \in Ports :
          /\ sessFlow[p] # NoFlow
          /\ routed' = routed \cup {[flow |-> sessFlow[p], from |-> NoFlow]}
    /\ UNCHANGED <<natVars, clock, rd, sweeper, listening, kOwner, kState, lastUse, overrun>>

(* A connection that does not come from addr4Next or addr6Next is closed. *)
AcceptForeign ==
    /\ rd["accept"].pc = "idle" /\ listening
    /\ foreign
    /\ foreign' = FALSE
    /\ UNCHANGED <<natVars, clock, rd, sweeper, listening, kOwner, kState, lastUse, routed, overrun>>

(* A connection without a session is closed. *)
AcceptUnknown(p) ==
    /\ rd["accept"].pc = "idle" /\ listening
    /\ kState[p] = "backlog"
    /\ sessFlow[p] = NoFlow
    /\ KernelFree(p)
    /\ UNCHANGED <<natVars, clock, rd, sweeper, listening, lastUse, routed, overrun>>

AcceptLookup(p) ==
    /\ rd["accept"].pc = "idle" /\ listening
    /\ kState[p] = "backlog"
    /\ sessFlow[p] # NoFlow
    /\ ReadSession("accept", p)
    /\ kState' = [kState EXCEPT ![p] = "established"]
    /\ UNCHANGED <<natVars, clock, sweeper, listening, kOwner, foreign, lastUse, routed, overrun>>

(* go handler.NewConnection(session.source, session.destination, conn) *)
AcceptDispatch ==
    /\ rd["accept"].pc = "refresh"
    /\ Refresh("accept")
    /\ routed' = routed \cup {[flow |-> rd["accept"].flow, from |-> rd["accept"].from]}
    /\ rd' = [rd EXCEPT !["accept"] = Idle]
    /\ UNCHANGED <<addrMap, sessFlow, portIndex, clock, sweeper, listening, kernelVars, overrun>>

(* Accept returns an error, because the listener was closed or for any      *)
(* other reason: the loop ends for good and cancels the sweeper's context.  *)
AcceptLoopEnd ==
    /\ rd["accept"].pc = "idle"
    /\ rd' = [rd EXCEPT !["accept"].pc = "done"]
    /\ UNCHANGED <<natVars, clock, sweeper, listening, kernelVars, lastUse, routed, overrun>>

(* tcpForwarder.Close closes the listener and nothing else; the kernel      *)
(* resets what was waiting to be accepted.                                  *)
Close ==
    /\ listening
    /\ listening' = FALSE
    /\ foreign' = FALSE
    /\ kState' = [p \in Ports |-> IF kState[p] = "backlog" THEN "rst" ELSE kState[p]]
    /\ UNCHANGED <<natVars, clock, rd, sweeper, kOwner, lastUse, routed, overrun>>

-----------------------------------------------------------------------------
(* loopCheckTimeout and checkTimeout.                                       *)

(* The ticker fires: now is read before the two locks are taken. *)
SweepStart ==
    /\ sweeper.pc = "select"
    /\ clock >= sweeper.next
    /\ sweeper' = [pc |-> "locked", now |-> clock, next |-> sweeper.next + Timeout]
    /\ UNCHANGED <<natVars, clock, rd, listening, kernelVars, lastUse, routed, overrun>>

Expired(p) == sessFlow[p] # NoFlow /\ sweeper.now - lastActive[p] > Timeout

(* Mutant: the session stays in portMap. *)
SweepKeepsSession ==
    /\ sweeper.pc = "locked"
    /\ addrMap' = [f \in Flows |->
                     IF \E p \in Ports : Expired(p) /\ sessFlow[p] = f THEN 0 ELSE addrMap[f]]
    /\ sweeper' = [sweeper EXCEPT !.pc = "select"]
    /\ UNCHANGED <<sessFlow, lastActive, portIndex, clock, rd, listening, kernelVars, lastUse, routed, overrun>>

(* Under portAccess and addrAccess every expired session leaves both maps;  *)
(* addrMap is cleared at the flow the session holds.                        *)
Sweep ==
    /\ sweeper.pc = "locked"
    /\ addrMap' = [f \in Flows |->
                     IF \E p \in Ports : Expired(p) /\ sessFlow[p] = f THEN 0 ELSE addrMap[f]]
    /\ sessFlow' = [p \in Ports |-> IF Expired(p) THEN NoFlow ELSE sessFlow[p]]
    /\ rd' = Detach(rd, {p \in Ports : Expired(p)})
    /\ sweeper' = [sweeper EXCEPT !.pc = "select"]
    /\ UNCHANGED <<lastActive, portIndex, clock, listening, kernelVars, lastUse, routed, overrun>>

(* ctx.Done(): the accept loop has ended. *)
SweepEnd ==
    /\ sweeper.pc = "select"
    /\ rd["accept"].pc = "done"
    /\ sweeper' = [sweeper EXCEPT !.pc = "done"]
    /\ UNCHANGED <<natVars, clock, rd, listening, kernelVars, lastUse, routed, overrun>>

-----------------------------------------------------------------------------
(* Environment.                                                             *)

Tick ==
    /\ clock < MaxClock
    /\ clock' = clock + 1
    /\ UNCHANGED <<natVars, rd, sweeper, listening, kernelVars, lastUse, routed, overrun>>

(* The relay of a connection ends and its socket is closed. *)
ConnectionEnd(p) ==
    /\ kState[p] = "established"
    /\ KernelFree(p)
    /\ UNCHANGED <<natVars, clock, rd, sweeper, listening, lastUse, routed, overrun>>

(* The listener is bound to the wildcard address: any host can connect. *)
ForeignConnect ==
    /\ listening
    /\ foreign' = TRUE
    /\ UNCHANGED <<natVars, clock, rd, sweeper, listening, kOwner, kState, lastUse, routed, overrun>>

Next ==
    \/ \E f \in Flows : LookupHit(f) \/ LookupAllocate(f)
    \/ LookupInsert
    \/ \E p \in Ports : AnswerUnknown(p) \/ AnswerLookup(p)
    \/ AnswerRewrite
    \/ AcceptForeign
    \/ \E p \in Ports : AcceptUnknown(p) \/ AcceptLookup(p)
    \/ AcceptDispatch
    \/ AcceptLoopEnd
    \/ Close
    \/ SweepStart
    \/ Sweep
    \/ SweepEnd
    \/ Tick
    \/ \E p \in Ports : ConnectionEnd(p)
    \/ ForeignConnect

Spec == Init /\ [][Next]_vars

-----------------------------------------------------------------------------
(* Correctness.                                                             *)

ReaderStates ==
    [pc : {"idle", "insert", "refresh", "done"}, port : Ports \cup {0},
     flow : Flows \cup {NoFlow}, from : Flows \cup {NoFlow}, live : BOOLEAN]

(* Every variable of the forwarder and of the kernel has its type; portIndex *)
(* skips the ports below 10000 that tcpnat.go:113-119 reserves.              *)
TypeOK ==
    /\ addrMap \in [Flows -> Ports \cup {0}]
    /\ sessFlow \in [Ports -> Flows \cup {NoFlow}]
    /\ lastActive \in [Ports -> 0..MaxClock]
    /\ portIndex \in Ports \cup {0}
    /\ clock \in 0..MaxClock
    /\ rd \in [Readers -> ReaderStates]
    /\ sweeper \in [pc : {"select", "locked", "done"}, now : 0..MaxClock, next : Nat]
    /\ listening \in BOOLEAN
    /\ kOwner \in [Ports -> Flows \cup {NoFlow}]
    /\ kState \in [Ports -> {"free", "backlog", "rst", "established"}]
    /\ foreign \in BOOLEAN
    /\ lastUse \in [Ports -> 0..MaxClock]
    /\ routed \subseteq [flow : Flows, from : Flows]
    /\ overrun \in BOOLEAN

Inserting(f) == rd["dev"].pc = "insert" /\ rd["dev"].flow = f

(* A session in portMap is always the one addrMap sends its flow to, although *)
(* Lookup updates the two maps under two locks with the sweeper in between,   *)
(* and although a wrapped portIndex replaces sessions of other flows.  Hence  *)
(* a flow never has two ports that answer for it.                             *)
SessionMapped ==
    \A p \in Ports : sessFlow[p] # NoFlow => addrMap[sessFlow[p]] = p

(* Until portIndex has wrapped onto a port still in use, a flow in addrMap    *)
(* has its session in portMap, except while Lookup is between its two locks:  *)
(* the flow's answers are never dropped with "session not found".             *)
MapsAgree ==
    ~overrun => \A f \in Flows :
        addrMap[f] # 0 => (sessFlow[addrMap[f]] = f \/ Inserting(f))

(* The two maps, which no lock covers together, say the same.                 *)
MapsConsistent == SessionMapped /\ MapsAgree

(* Until portIndex has wrapped onto a port still in use, every connection     *)
(* handed to NewConnection and every answer written to the device is          *)
(* attributed to the flow whose packets opened the kernel's socket: no app    *)
(* reads another flow's bytes.                                                *)
RoutedToOwner ==
    ~overrun => \A x \in routed : x.flow = x.from

(* checkTimeout only drops sessions that nobody looked up for the timeout,    *)
(* less the second by which LookupInverse may leave lastActive behind, even   *)
(* when a lookup is interleaved between reading `now` and taking the locks.   *)
SweptWasIdle ==
    [][\A p \in Ports :
         sessFlow[p] # NoFlow /\ sessFlow'[p] = NoFlow
            => clock - lastUse[p] > Timeout - RefreshGap]_vars

-----------------------------------------------------------------------------
(* The inductive invariant the proofs use.                                  *)

(* The kernel knows the owner of exactly the sockets that exist. *)
KernelOK == \A p \in Ports : kState[p] = "free" <=> kOwner[p] = NoFlow

(* Between its two locks Lookup has a port that addrMap already knows and   *)
(* no session does.                                                         *)
InsertOK ==
    LET d == rd["dev"] IN
    d.pc = "insert" =>
        /\ d.port \in Ports /\ d.flow \in Flows
        /\ addrMap[d.flow] = d.port
        /\ \A q \in Ports : sessFlow[q] # d.flow
        /\ ~overrun => sessFlow[d.port] = NoFlow /\ kOwner[d.port] = NoFlow

(* A goroutine between LookupInverse's two locks has a session, of the flow *)
(* that owns the socket.                                                    *)
RefreshOK ==
    \A r \in Readers : rd[r].pc = "refresh" =>
        /\ rd[r].port \in Ports /\ rd[r].flow \in Flows /\ rd[r].from \in Flows
        /\ ~overrun => rd[r].flow = rd[r].from

(* A socket and a session with the same port are of the same flow. *)
OwnersAgree ==
    ~overrun => \A p \in Ports :
        kOwner[p] # NoFlow /\ sessFlow[p] # NoFlow => kOwner[p] = sessFlow[p]

(* lastActive is never more than RefreshGap behind the last lookup, and the *)
(* sweeper's `now` is in the past.                                          *)
TimesOK ==
    /\ \A p \in Ports : lastUse[p] - lastActive[p] <= RefreshGap
    /\ sweeper.now <= clock

IInv ==
    /\ TypeOK /\ KernelOK /\ InsertOK /\ RefreshOK /\ SessionMapped /\ MapsAgree
    /\ OwnersAgree /\ RoutedToOwner /\ TimesOK
=============================================================================
