------------------------------ MODULE TcpRelay ------------------------------
(***************************************************************************)
(* NewConnection of tun.go: the life of a TCP connection of an app, from   *)
(* the forwarder that accepted it to the end of its two copy loops.        *)
(*                                                                         *)
(* Each connection runs in a goroutine of its own; task.Run starts two     *)
(* more, one per direction, and returns when the first of them ends or the *)
(* context is done, without waiting for the other.  The trafficStats block *)
(* (AppStats) is one step, dial (V2RayInstance) succeeds or fails; the     *)
(* outbound it reaches connects later, with the dialer that the process    *)
(* uses by then.  The fields of the tun are those of TunLifecycle, which   *)
(* sets them while connections arrive.                                     *)
(***************************************************************************)
EXTENDS Integers

CONSTANTS
    MaxTuns,      \* bound on the tuns, which are numbered as they are made
    Relays,       \* connections of apps
    TrafficStats, \* t.trafficStats: NewConnection goes through AppStats
    NoDialer      \* no alternative system dialer: the core's own, which protects nothing

ASSUME StatsAssumption == TrafficStats \in BOOLEAN /\ MaxTuns \in Nat \ {0}

Tuns == 1..MaxTuns
Directions == {"up", "down"}

(* What the checks make of a connection: its UID is blocked, it goes to the *)
(* tun's own DNS address but not to port 53, or neither.                    *)
Classes == {"plain", "blocked", "badDns"}

VARIABLES
    (* relays *)
    pc,           \* relay -> where NewConnection is
    class,        \* relay -> its class
    tun,          \* relay -> the tun it came from
    conn,         \* relay -> the app's connection: "none", "open", "closed"
    proxyConn,    \* relay -> the proxy's connection, likewise
    ended,        \* relay -> direction -> its sender has sent its last byte
    copy,         \* relay -> direction -> its loop: "none", "running", "ended"
    connections,  \* relays whose cancel is in t.connections
    cancelled,    \* relays whose context is done
    failedDial,   \* relays whose dial failed
    crashed,      \* a nil uidDumper was called, which ended the process
    (* fields they read *)
    dumpUID,      \* tuns with t.dumpUID
    uidDumper,    \* tuns whose t.uidDumper is set
    blockedUIDs,  \* tuns whose t.blockedUIDs is not nil
    device,       \* tun -> its device: "none", "open", "closed"
    systemDialer, \* the process' alternative system dialer
    (* histories *)
    early,        \* relays accepted before NewTun2ray returned
    exposed       \* relays whose outbound connected without the dialer of their tun, which was up

connVars == <<conn, proxyConn, ended, copy>>
fieldVars == <<dumpUID, uidDumper, blockedUIDs, device, systemDialer>>
restVars == <<early, exposed, fieldVars>>
relayVars == <<pc, class, tun, connVars, connections, cancelled, failedDial, crashed, early, exposed>>

TunDialer(t) == [tun |-> t]

RelayInit ==
    /\ pc = [r \in Relays |-> "none"]
    /\ class = [r \in Relays |-> "plain"]
    /\ tun = [r \in Relays |-> 1]
    /\ conn = [r \in Relays |-> "none"]
    /\ proxyConn = [r \in Relays |-> "none"]
    /\ ended = [r \in Relays |-> [d \in Directions |-> FALSE]]
    /\ copy = [r \in Relays |-> [d \in Directions |-> "none"]]
    /\ connections = {} /\ cancelled = {}
    /\ failedDial = {}
    /\ crashed = FALSE
    /\ early = {}
    /\ exposed = {}

Goto(r, from, to) == ~crashed /\ pc[r] = from /\ pc' = [pc EXCEPT ![r] = to]

(* go handler.NewConnection: the device hands over an open connection. *)
Accepted(r, t, cl, isUp) ==
    /\ Goto(r, "none", "start")
    /\ device[t] = "open"
    /\ class' = [class EXCEPT ![r] = cl]
    /\ tun' = [tun EXCEPT ![r] = t]
    /\ conn' = [conn EXCEPT ![r] = "open"]
    /\ early' = IF isUp THEN early ELSE early \cup {r}
    /\ UNCHANGED <<proxyConn, ended, copy, connections, cancelled, failedDial, crashed, exposed, fieldVars>>

(* A DNS address without its port is closed before anything is registered. *)
RejectDns(r) ==
    /\ Goto(r, "start", "done")
    /\ class[r] = "badDns"
    /\ conn' = [conn EXCEPT ![r] = "closed"]
    /\ UNCHANGED <<class, tun, proxyConn, ended, copy, connections, cancelled, failedDial, crashed, restVars>>

WantsUID(t) == t \in dumpUID \/ TrafficStats \/ t \in blockedUIDs

SkipUID(r) ==
    /\ Goto(r, "start", "stats")
    /\ class[r] # "badDns" /\ ~WantsUID(tun[r])
    /\ UNCHANGED <<class, tun, connVars, connections, cancelled, failedDial, crashed, restVars>>

(* t.uidDumper.DumpUid, a nil pointer if NewTun2ray has not set it. *)
DumpUid(r) ==
    /\ Goto(r, "start", "uid")
    /\ class[r] # "badDns" /\ WantsUID(tun[r])
    /\ crashed' = (tun[r] \notin uidDumper)
    /\ UNCHANGED <<class, tun, connVars, connections, cancelled, failedDial, restVars>>

IsBlocked(r) == tun[r] \in blockedUIDs /\ class[r] = "blocked"

Reject(r) ==
    /\ Goto(r, "uid", "done")
    /\ IsBlocked(r)
    /\ conn' = [conn EXCEPT ![r] = "closed"]
    /\ UNCHANGED <<class, tun, proxyConn, ended, copy, connections, cancelled, failedDial, crashed, restVars>>

(* Mutant: the UID is looked up for the log only. *)
PassUnchecked(r) ==
    /\ Goto(r, "uid", "stats")
    /\ UNCHANGED <<class, tun, connVars, connections, cancelled, failedDial, crashed, restVars>>

Pass(r) ==
    /\ Goto(r, "uid", "stats")
    /\ ~IsBlocked(r)
    /\ UNCHANGED <<class, tun, connVars, connections, cancelled, failedDial, crashed, restVars>>

CountStats(r) ==
    /\ Goto(r, "stats", "register")
    /\ UNCHANGED <<class, tun, connVars, connections, cancelled, failedDial, crashed, restVars>>

Register(r) ==
    /\ Goto(r, "register", "dial")
    /\ connections' = connections \cup {r}
    /\ UNCHANGED <<class, tun, connVars, cancelled, failedDial, crashed, restVars>>

(* Mutant: the app's connection stays open after a failed dial. *)
DialFailsKeepsConn(r) ==
    /\ Goto(r, "dial", "done")
    /\ failedDial' = failedDial \cup {r}
    /\ UNCHANGED <<class, tun, connVars, connections, cancelled, crashed, restVars>>

(* dial returned an error: the cancel stays in connections. *)
DialFails(r) ==
    /\ Goto(r, "dial", "done")
    /\ failedDial' = failedDial \cup {r}
    /\ conn' = [conn EXCEPT ![r] = "closed"]
    /\ UNCHANGED <<class, tun, proxyConn, ended, copy, connections, cancelled, crashed, restVars>>

Dial(r) ==
    /\ Goto(r, "dial", "run")
    /\ proxyConn' = [proxyConn EXCEPT ![r] = "open"]
    /\ copy' = [copy EXCEPT ![r] = [d \in Directions |-> "running"]]
    /\ UNCHANGED <<class, tun, conn, ended, connections, cancelled, failedDial, crashed, restVars>>

(* buf.Copy, external: the loop of a direction ends when its sender has     *)
(* ended, or when either connection was closed under it.                    *)
CopyEnds(r, d) ==
    /\ copy[r][d] = "running" /\ ~crashed
    /\ ended[r][d] \/ conn[r] = "closed" \/ proxyConn[r] = "closed"
    /\ copy' = [copy EXCEPT ![r][d] = "ended"]
    /\ UNCHANGED <<pc, class, tun, conn, proxyConn, ended, connections, cancelled, failedDial, crashed, restVars>>

(* Mutant: task.Run waits for both loops, as if they returned nil. *)
RunWaitsForBoth(r) ==
    /\ Goto(r, "run", "remove")
    /\ (\A d \in Directions : copy[r][d] = "ended") \/ r \in cancelled
    /\ UNCHANGED <<class, tun, connVars, connections, cancelled, failedDial, crashed, restVars>>

(* task.Run: both loops return io.EOF, so the first to end ends it. *)
RunReturns(r) ==
    /\ Goto(r, "run", "remove")
    /\ (\E d \in Directions : copy[r][d] = "ended") \/ r \in cancelled
    /\ UNCHANGED <<class, tun, connVars, connections, cancelled, failedDial, crashed, restVars>>

Remove(r) ==
    /\ Goto(r, "remove", "closeConn")
    /\ connections' = connections \ {r}
    /\ UNCHANGED <<class, tun, connVars, cancelled, failedDial, crashed, restVars>>

CloseConn(r) ==
    /\ Goto(r, "closeConn", "closeProxy")
    /\ conn' = [conn EXCEPT ![r] = "closed"]
    /\ UNCHANGED <<class, tun, proxyConn, ended, copy, connections, cancelled, failedDial, crashed, restVars>>

(* The deferred CloseIgnore(proxyConn). *)
CloseProxy(r) ==
    /\ Goto(r, "closeProxy", "done")
    /\ proxyConn' = [proxyConn EXCEPT ![r] = "closed"]
    /\ UNCHANGED <<class, tun, conn, ended, copy, connections, cancelled, failedDial, crashed, restVars>>

(* The core's outbound connects, unless the context is done; how is up to   *)
(* internet.UseAlternativeSystemDialer.                                     *)
OutboundDials(r, isUp) ==
    /\ ~crashed /\ pc[r] = "run" /\ proxyConn[r] = "open" /\ r \notin cancelled
    /\ exposed' = IF isUp /\ systemDialer # TunDialer(tun[r]) THEN exposed \cup {r} ELSE exposed
    /\ UNCHANGED <<pc, class, tun, connVars, connections, cancelled, failedDial, crashed, early, fieldVars>>

(* The app or the outbound finishes sending, or breaks the connection. *)
SenderEnds(r, d) ==
    /\ conn[r] = "open" /\ (d = "down" => proxyConn[r] = "open")
    /\ ~ended[r][d]
    /\ ended' = [ended EXCEPT ![r][d] = TRUE]
    /\ UNCHANGED <<pc, class, tun, conn, proxyConn, copy, connections, cancelled, failedDial, crashed, restVars>>

NewConnection(r) ==
    \/ RejectDns(r) \/ SkipUID(r) \/ DumpUid(r) \/ Reject(r) \/ Pass(r)
    \/ Register(r) \/ DialFails(r) \/ Dial(r)
    \/ RunReturns(r) \/ Remove(r) \/ CloseConn(r) \/ CloseProxy(r)

RelayNext ==
    \/ \E r \in Relays : NewConnection(r) \/ CountStats(r)
    \/ \E r \in Relays, d \in Directions : CopyEnds(r, d) \/ SenderEnds(r, d)

-----------------------------------------------------------------------------
(* Correctness.                                                             *)

(* However NewConnection ends - rejected, dial failed, either side ended,   *)
(* cancelled - both connections are closed and, unless the dial failed, its *)
(* cancel is no longer in connections.                                      *)
NothingLeftOpen ==
    \A r \in Relays : pc[r] = "done" =>
        /\ conn[r] = "closed" /\ proxyConn[r] # "open"
        /\ r \in connections => r \in failedDial
=============================================================================
