------------------------------ MODULE UdpTable ------------------------------
(***************************************************************************)
(* The UDP half of tun.go: NewPacket, newPacket and its writer goroutine,  *)
(* udpTable, the list connections, and Tun2ray.Close.                      *)
(*                                                                         *)
(* NewPacket, called by the device loop, puts a datagram into the queue of *)
(* its source address; the first datagram of a source makes the queue and  *)
(* starts newPacket, which checks the first destination, dials, starts a   *)
(* writer for the queue and then reads answers until the conn fails.       *)
(*                                                                         *)
(* The conn is DispatcherConn, here only what the session sees of it: it   *)
(* fails, for both directions, at a time of its own choosing, after a      *)
(* cancellation, or at a failed write.  Sessions are numbered in the order *)
(* they start, and so are datagrams.                                       *)
(***************************************************************************)
EXTENDS Integers, Sequences

CONSTANTS
    Sources,      \* source addresses: the keys of udpTable
    Callers,      \* goroutines that call NewPacket (one device loop per tun)
    QueueCap,     \* 16: capacity of writeQueue.packets
    MaxPackets,   \* bound on the datagrams
    MaxSessions,  \* bound on the sessions
    DeviceWaits,  \* values of deviceWaits: both implementations, or one
    DumpUID,      \* t.dumpUID
    TrafficStats  \* t.trafficStats: newPacket goes through AppStats

ASSUME CapAssumption ==
    /\ QueueCap \in Nat \ {0} /\ MaxPackets \in Nat /\ MaxSessions \in Nat
    /\ DeviceWaits \subseteq BOOLEAN /\ DumpUID \in BOOLEAN /\ TrafficStats \in BOOLEAN

ASSUME SourcesAssumption == Sources # {}

Sessions == 1..MaxSessions
Packets == 1..MaxPackets

(* What the checks make of a datagram: its UID is blocked, it goes to the   *)
(* tun's own DNS address but not to port 53, or neither.                    *)
Classes == {"plain", "blocked", "badDns"}

VARIABLES
    setup,        \* NewTun2ray: "device" runs, "dumper" is set, "done": blockedUIDs is set
    late,         \* history: blocked datagrams that have arrived since
    crashed,      \* a nil uidDumper was called
    udpTable,     \* source -> session whose queue is in udpTable, 0 if none
    started,      \* number of sessions so far
    key,          \* session -> its natKey
    first,        \* session -> class of the datagram that started it
    pc,           \* session -> where newPacket is
    queue,        \* session -> queue.packets
    qclosed,      \* session -> queue.closed is closed
    conn,         \* session -> "none", "open", "failed"
    cancelled,    \* session -> its context is done
    failedDial,   \* session -> dialUDP returned an error
    writer,       \* session -> where its writer goroutine is
    inHand,       \* session -> the datagram its writer holds, 0 if none
    connections,  \* sessions whose cancel is in t.connections
    deviceWaits,  \* t.dev.Close waits for the callers: gvisor's does, SystemTun's does not
    closing,      \* Tun2ray.Close: "no", "device", "cancel", "done"
    caller,       \* caller -> local state of NewPacket
    arrived,      \* number of datagrams so far
    class,        \* datagram -> its class
    written,      \* history: session -> datagrams its conn accepted
    released,     \* history: datagrams whose buffer was released
    reused        \* history: a buffer was released that had been before

setupVars == <<setup, late, crashed>>
tableVars == <<udpTable, started, key, first>>
sessionVars == <<pc, failedDial>>
queueVars == <<queue, qclosed>>
connVars == <<conn, cancelled>>
writerVars == <<writer, inHand, written>>
listVars == <<connections, deviceWaits, closing>>
callerVars == <<caller, arrived, class>>
bufVars == <<released, reused>>
vars == <<setupVars, tableVars, sessionVars, queueVars, connVars, writerVars, listVars, callerVars, bufVars>>

Away == [pc |-> "idle", packet |-> 0, session |-> 0]

Init ==
    /\ setup = "device" /\ late = {} /\ crashed = FALSE
    /\ udpTable = [k \in Sources |-> 0] /\ started = 0
    /\ key = [s \in Sessions |-> CHOOSE k \in Sources : TRUE]
    /\ first = [s \in Sessions |-> "plain"]
    /\ pc = [s \in Sessions |-> "none"]
    /\ queue = [s \in Sessions |-> <<>>]
    /\ qclosed = [s \in Sessions |-> FALSE]
    /\ conn = [s \in Sessions |-> "none"]
    /\ cancelled = [s \in Sessions |-> FALSE]
    /\ failedDial = [s \in Sessions |-> FALSE]
    /\ writer = [s \in Sessions |-> "none"]
    /\ inHand = [s \in Sessions |-> 0]
    /\ connections = {} /\ deviceWaits \in DeviceWaits /\ closing = "no"
    /\ caller = [c \in Callers |-> Away]
    /\ arrived = 0
    /\ class = [i \in Packets |-> "plain"]
    /\ written = [s \in Sessions |-> <<>>]
    /\ released = {} /\ reused = FALSE

Release(i) ==
    /\ released' = released \cup {i}
    /\ reused' = (reused \/ i \in released)

-----------------------------------------------------------------------------
(* NewTun2ray, from the moment the device delivers.  It may also fail in    *)
(* GetUidDumper, and then the device runs on with nothing more set.         *)

SetUidDumper ==
    /\ ~crashed /\ setup = "device"
    /\ setup' = "dumper"
    /\ UNCHANGED <<late, crashed, tableVars, sessionVars, queueVars, connVars, writerVars, listVars, callerVars, bufVars>>

SetBlockedUIDs ==
    /\ ~crashed /\ setup = "dumper"
    /\ setup' = "done"
    /\ UNCHANGED <<late, crashed, tableVars, sessionVars, queueVars, connVars, writerVars, listVars, callerVars, bufVars>>

(* t.blockedUIDs != nil, and the UID of a datagram of this class is in it. *)
IsBlocked(cl) == setup = "done" /\ cl = "blocked"

-----------------------------------------------------------------------------
(* NewPacket.                                                               *)

(* A closed gvisor endpoint delivers nothing more; SystemTun's loop goes on. *)
Arrives(c) ==
    /\ ~crashed /\ caller[c].pc = "idle" /\ arrived < MaxPackets
    /\ closing = "no" \/ ~deviceWaits

ArrivesNow(cl) ==
    /\ arrived' = arrived + 1
    /\ class' = [class EXCEPT ![arrived + 1] = cl]
    /\ late' = IF IsBlocked(cl) THEN late \cup {arrived + 1} ELSE late

(* Under udpTableMu the queue is found, or made and its session started.    *)
(* Where a datagram that finds a queue goes is not looked at.               *)
NewPacketLoaded(c, k, cl) ==
    /\ Arrives(c) /\ cl # "badDns"
    /\ udpTable[k] # 0
    /\ ArrivesNow(cl)
    /\ caller' = [caller EXCEPT ![c] = [pc |-> "check", packet |-> arrived + 1, session |-> udpTable[k]]]
    /\ UNCHANGED <<setup, crashed, tableVars, sessionVars, queueVars, connVars, writerVars, listVars, bufVars>>

NewPacketFirst(c, k, cl) ==
    /\ Arrives(c) /\ started < MaxSessions
    /\ udpTable[k] = 0
    /\ ArrivesNow(cl)
    /\ started' = started + 1
    /\ udpTable' = [udpTable EXCEPT ![k] = started + 1]
    /\ key' = [key EXCEPT ![started + 1] = k]
    /\ first' = [first EXCEPT ![started + 1] = cl]
    /\ pc' = [pc EXCEPT ![started + 1] = "start"]
    /\ caller' = [caller EXCEPT ![c] = [pc |-> "send", packet |-> arrived + 1, session |-> started + 1]]
    /\ UNCHANGED <<setup, crashed, failedDial, queueVars, connVars, writerVars, listVars, bufVars>>

(* Mutant: the return after the release is missing. *)
NewPacketBlockedSends(c) ==
    /\ ~crashed /\ caller[c].pc = "check"
    /\ IsBlocked(class[caller[c].packet])
    /\ Release(caller[c].packet)
    /\ caller' = [caller EXCEPT ![c].pc = "send"]
    /\ UNCHANGED <<setupVars, tableVars, sessionVars, queueVars, connVars, writerVars, listVars, arrived, class>>

(* Only a datagram that found a queue is checked here, and only its UID. *)
NewPacketBlocked(c) ==
    /\ ~crashed /\ caller[c].pc = "check"
    /\ IsBlocked(class[caller[c].packet])
    /\ Release(caller[c].packet)
    /\ caller' = [caller EXCEPT ![c] = Away]
    /\ UNCHANGED <<setupVars, tableVars, sessionVars, queueVars, connVars, writerVars, listVars, arrived, class>>

(* Mutant: the UID of a datagram that finds a queue is not checked. *)
NewPacketUnchecked(c) ==
    /\ ~crashed /\ caller[c].pc = "check"
    /\ caller' = [caller EXCEPT ![c].pc = "send"]
    /\ UNCHANGED <<setupVars, tableVars, sessionVars, queueVars, connVars, writerVars, listVars, bufVars, arrived, class>>

NewPacketAllowed(c) ==
    /\ ~crashed /\ caller[c].pc = "check"
    /\ ~IsBlocked(class[caller[c].packet])
    /\ caller' = [caller EXCEPT ![c].pc = "send"]
    /\ UNCHANGED <<setupVars, tableVars, sessionVars, queueVars, connVars, writerVars, listVars, bufVars, arrived, class>>

(* The select: the send blocks while the queue is full.  When the queue is  *)
(* closed and has room, either case may be taken.                           *)
NewPacketQueue(c) ==
    LET s == caller[c].session IN
    /\ ~crashed /\ caller[c].pc = "send"
    /\ Len(queue[s]) < QueueCap
    /\ queue' = [queue EXCEPT ![s] = Append(@, caller[c].packet)]
    /\ caller' = [caller EXCEPT ![c] = Away]
    /\ UNCHANGED <<setupVars, tableVars, sessionVars, qclosed, connVars, writerVars, listVars, bufVars, arrived, class>>

NewPacketClosed(c) ==
    /\ ~crashed /\ caller[c].pc = "send"
    /\ qclosed[caller[c].session]
    /\ Release(caller[c].packet)
    /\ caller' = [caller EXCEPT ![c] = Away]
    /\ UNCHANGED <<setupVars, tableVars, sessionVars, queueVars, connVars, writerVars, listVars, arrived, class>>

-----------------------------------------------------------------------------
(* newPacket.  A session that ends early deletes and closes its queue and   *)
(* returns; the others unregister and close the conn as well.               *)

Goto(s, from, to) == ~crashed /\ pc[s] = from /\ pc' = [pc EXCEPT ![s] = to]

(* Mutant: a rejected session leaves its queue in udpTable. *)
SessionRejectKeepsQueue(s) ==
    /\ Goto(s, "start", "closeQueue")
    /\ first[s] = "badDns" \/ IsBlocked(first[s])
    /\ UNCHANGED <<setupVars, tableVars, failedDial, queueVars, connVars, writerVars, listVars, callerVars, bufVars>>

SessionReject(s) ==
    /\ Goto(s, "start", "delete")
    /\ first[s] = "badDns" \/ IsBlocked(first[s])
    /\ UNCHANGED <<setupVars, tableVars, failedDial, queueVars, connVars, writerVars, listVars, callerVars, bufVars>>

(* The UID is looked up with a uidDumper that is not set yet. *)
NoDumper == setup = "device" /\ (DumpUID \/ TrafficStats)

SessionPanics(s) ==
    /\ ~crashed /\ pc[s] = "start"
    /\ first[s] # "badDns" /\ NoDumper
    /\ crashed' = TRUE
    /\ UNCHANGED <<setup, late, tableVars, sessionVars, queueVars, connVars, writerVars, listVars, callerVars, bufVars>>

SessionPasses(s) ==
    /\ Goto(s, "start", "register")
    /\ first[s] # "badDns" /\ ~IsBlocked(first[s]) /\ ~NoDumper
    /\ UNCHANGED <<setupVars, tableVars, failedDial, queueVars, connVars, writerVars, listVars, callerVars, bufVars>>

SessionRegister(s) ==
    /\ Goto(s, "register", "dial")
    /\ connections' = connections \cup {s}
    /\ UNCHANGED <<setupVars, tableVars, failedDial, queueVars, connVars, writerVars, deviceWaits, closing, callerVars, bufVars>>

SessionDialFails(s) ==
    /\ Goto(s, "dial", "delete")
    /\ failedDial' = [failedDial EXCEPT ![s] = TRUE]
    /\ UNCHANGED <<setupVars, tableVars, queueVars, connVars, writerVars, listVars, callerVars, bufVars>>

SessionDials(s) ==
    /\ Goto(s, "dial", "stats")
    /\ conn' = [conn EXCEPT ![s] = "open"]
    /\ UNCHANGED <<setupVars, tableVars, failedDial, queueVars, cancelled, writerVars, listVars, callerVars, bufVars>>

(* The trafficStats block, then go func() for the writer. *)
SessionStartsWriter(s) ==
    /\ Goto(s, "stats", "read")
    /\ writer' = [writer EXCEPT ![s] = "select"]
    /\ UNCHANGED <<setupVars, tableVars, failedDial, queueVars, connVars, inHand, written, listVars, callerVars, bufVars>>

(* Mutant: ReadFrom does not look at the context. *)
SessionIgnoresCancel(s) ==
    /\ Goto(s, "read", "delete")
    /\ conn[s] = "failed"
    /\ UNCHANGED <<setupVars, tableVars, failedDial, queueVars, connVars, writerVars, listVars, callerVars, bufVars>>

(* ReadFrom fails: the conn failed or its context is done. *)
SessionReadFails(s) ==
    /\ Goto(s, "read", "delete")
    /\ conn[s] = "failed" \/ cancelled[s]
    /\ UNCHANGED <<setupVars, tableVars, failedDial, queueVars, connVars, writerVars, listVars, callerVars, bufVars>>

(* ReadFrom returned a datagram and writeBack could not write it to the tun. *)
SessionWriteBackFails(s) ==
    /\ Goto(s, "read", "delete")
    /\ UNCHANGED <<setupVars, tableVars, failedDial, queueVars, connVars, writerVars, listVars, callerVars, bufVars>>

SessionDelete(s) ==
    /\ Goto(s, "delete", "closeQueue")
    /\ udpTable' = [udpTable EXCEPT ![key[s]] = 0]
    /\ UNCHANGED <<setupVars, started, key, first, failedDial, queueVars, connVars, writerVars, listVars, callerVars, bufVars>>

(* Mutant: close(queue.closed) is missing. *)
SessionLeavesQueueOpen(s) ==
    /\ Goto(s, "closeQueue", IF conn[s] = "none" THEN "done" ELSE "unregister")
    /\ UNCHANGED <<setupVars, tableVars, failedDial, queueVars, connVars, writerVars, listVars, callerVars, bufVars>>

SessionCloseQueue(s) ==
    /\ Goto(s, "closeQueue", IF conn[s] = "none" THEN "done" ELSE "unregister")
    /\ qclosed' = [qclosed EXCEPT ![s] = TRUE]
    /\ UNCHANGED <<setupVars, tableVars, failedDial, queue, connVars, writerVars, listVars, callerVars, bufVars>>

SessionUnregister(s) ==
    /\ Goto(s, "unregister", "closeConn")
    /\ connections' = connections \ {s}
    /\ UNCHANGED <<setupVars, tableVars, failedDial, queueVars, connVars, writerVars, deviceWaits, closing, callerVars, bufVars>>

SessionCloseConn(s) ==
    /\ Goto(s, "closeConn", "done")
    /\ conn' = [conn EXCEPT ![s] = "failed"]
    /\ UNCHANGED <<setupVars, tableVars, failedDial, queueVars, cancelled, writerVars, listVars, callerVars, bufVars>>

-----------------------------------------------------------------------------
(* The writer goroutine.  Its select may take a datagram although the queue *)
(* is closed; a failed WriteTo has closed the conn and ends the goroutine.  *)

(* Mutant: the datagram stays in the queue. *)
WriterPeeks(s) ==
    /\ ~crashed /\ writer[s] = "select" /\ queue[s] # <<>>
    /\ inHand' = [inHand EXCEPT ![s] = Head(queue[s])]
    /\ writer' = [writer EXCEPT ![s] = "write"]
    /\ UNCHANGED <<setupVars, tableVars, sessionVars, queueVars, connVars, written, listVars, callerVars, bufVars>>

WriterTake(s) ==
    /\ ~crashed /\ writer[s] = "select" /\ queue[s] # <<>>
    /\ inHand' = [inHand EXCEPT ![s] = Head(queue[s])]
    /\ queue' = [queue EXCEPT ![s] = Tail(@)]
    /\ writer' = [writer EXCEPT ![s] = "write"]
    /\ UNCHANGED <<setupVars, tableVars, sessionVars, qclosed, connVars, written, listVars, callerVars, bufVars>>

WriterWrites(s) ==
    /\ ~crashed /\ writer[s] = "write" /\ conn[s] = "open"
    /\ written' = [written EXCEPT ![s] = Append(@, inHand[s])]
    /\ Release(inHand[s])
    /\ inHand' = [inHand EXCEPT ![s] = 0]
    /\ writer' = [writer EXCEPT ![s] = "select"]
    /\ UNCHANGED <<setupVars, tableVars, sessionVars, queueVars, connVars, listVars, callerVars>>

WriterFails(s) ==
    /\ ~crashed /\ writer[s] = "write"
    /\ conn' = [conn EXCEPT ![s] = "failed"]
    /\ Release(inHand[s])
    /\ inHand' = [inHand EXCEPT ![s] = 0]
    /\ writer' = [writer EXCEPT ![s] = "ended"]
    /\ UNCHANGED <<setupVars, tableVars, sessionVars, queueVars, cancelled, written, listVars, callerVars>>

WriterSeesClosed(s) ==
    /\ ~crashed /\ writer[s] = "select" /\ qclosed[s]
    /\ writer' = [writer EXCEPT ![s] = "drain"]
    /\ UNCHANGED <<setupVars, tableVars, sessionVars, queueVars, connVars, inHand, written, listVars, callerVars, bufVars>>

(* for packet := range queue.packets: the channel is never closed, so the   *)
(* loop blocks on an empty queue and the goroutine never returns.           *)
WriterDrain(s) ==
    /\ ~crashed /\ writer[s] = "drain" /\ queue[s] # <<>>
    /\ Release(Head(queue[s]))
    /\ queue' = [queue EXCEPT ![s] = Tail(@)]
    /\ UNCHANGED <<setupVars, tableVars, sessionVars, qclosed, connVars, writerVars, listVars, callerVars>>

-----------------------------------------------------------------------------
(* Tun2ray.Close.                                                           *)

(* It closes the device first; gvisor's endpoint is detached, *)
TunCloseDevice ==
    /\ ~crashed /\ setup = "done" /\ closing = "no"
    /\ closing' = "device"
    /\ UNCHANGED <<setupVars, tableVars, sessionVars, queueVars, connVars, writerVars, connections, deviceWaits, callerVars, bufVars>>

(* ... and its Close returns when the dispatch goroutine is out of          *)
(* NewPacket, whatever that is waiting for.                                 *)
TunDeviceClosed ==
    /\ ~crashed /\ closing = "device"
    /\ deviceWaits => \A c \in Callers : caller[c].pc = "idle"
    /\ closing' = "cancel"
    /\ UNCHANGED <<setupVars, tableVars, sessionVars, queueVars, connVars, writerVars, connections, deviceWaits, callerVars, bufVars>>

(* Every context that is in connections by then is cancelled, under         *)
(* connectionsLock.                                                         *)
TunCancel ==
    /\ ~crashed /\ closing = "cancel"
    /\ closing' = "done"
    /\ cancelled' = [s \in Sessions |-> cancelled[s] \/ s \in connections]
    /\ UNCHANGED <<setupVars, tableVars, sessionVars, queueVars, conn, writerVars, connections, deviceWaits, callerVars, bufVars>>

(* The conn fails by itself: the outbound ended, or the inactivity timer. *)
ConnFails(s) ==
    /\ ~crashed /\ conn[s] = "open"
    /\ conn' = [conn EXCEPT ![s] = "failed"]
    /\ UNCHANGED <<setupVars, tableVars, sessionVars, queueVars, cancelled, writerVars, listVars, callerVars, bufVars>>

TunClose == TunDeviceClosed \/ TunCancel

NewPacketStep(c) ==
    NewPacketBlocked(c) \/ NewPacketAllowed(c) \/ NewPacketQueue(c) \/ NewPacketClosed(c)

SessionStep(s) ==
    \/ SessionReject(s) \/ SessionPasses(s) \/ SessionRegister(s) \/ SessionDialFails(s) \/ SessionDials(s)
    \/ SessionReadFails(s)
    \/ SessionDelete(s) \/ SessionCloseQueue(s) \/ SessionUnregister(s) \/ SessionCloseConn(s)

WriterStep(s) ==
    WriterTake(s) \/ WriterWrites(s) \/ WriterFails(s) \/ WriterSeesClosed(s) \/ WriterDrain(s)

Next ==
    \/ \E c \in Callers, k \in Sources, cl \in Classes : NewPacketLoaded(c, k, cl) \/ NewPacketFirst(c, k, cl)
    \/ \E c \in Callers : NewPacketStep(c)
    \/ \E s \in Sessions :
          SessionStep(s) \/ SessionPanics(s) \/ SessionStartsWriter(s) \/ SessionWriteBackFails(s) \/ WriterStep(s) \/ ConnFails(s)
    \/ SetUidDumper \/ SetBlockedUIDs \/ TunCloseDevice \/ TunClose

(* Goroutines run; dialUDP and WriteTo return.  The trafficStats block may  *)
(* block for ever (AppStats, Lost), so it is fair only without it.          *)
Fairness ==
    /\ \A c \in Callers : WF_vars(NewPacketStep(c))
    /\ \A s \in Sessions : WF_vars(SessionStep(s) \/ SessionPanics(s)) /\ WF_vars(WriterStep(s))
    /\ WF_vars(TunClose)
    /\ ~TrafficStats => \A s \in Sessions : WF_vars(SessionStartsWriter(s))

Spec == Init /\ [][Next]_vars /\ Fairness

-----------------------------------------------------------------------------
(* Correctness.                                                             *)

SessionPlaces == {"none", "start", "register", "dial", "stats", "read", "delete", "closeQueue", "unregister", "closeConn", "done"}

(* Every variable has its type and no queue exceeds its capacity. *)
TypeOK ==
    /\ setup \in {"device", "dumper", "done"} /\ crashed \in BOOLEAN
    /\ late \subseteq Packets
    /\ udpTable \in [Sources -> 0..MaxSessions] /\ started \in 0..MaxSessions
    /\ key \in [Sessions -> Sources] /\ first \in [Sessions -> Classes]
    /\ pc \in [Sessions -> SessionPlaces]
    /\ queue \in [Sessions -> Seq(Packets)] /\ \A s \in Sessions : Len(queue[s]) <= QueueCap
    /\ qclosed \in [Sessions -> BOOLEAN]
    /\ conn \in [Sessions -> {"none", "open", "failed"}]
    /\ cancelled \in [Sessions -> BOOLEAN] /\ failedDial \in [Sessions -> BOOLEAN]
    /\ writer \in [Sessions -> {"none", "select", "write", "drain", "ended"}]
    /\ inHand \in [Sessions -> 0..MaxPackets]
    /\ connections \subseteq Sessions
    /\ deviceWaits \in BOOLEAN /\ closing \in {"no", "device", "cancel", "done"}
    /\ caller \in [Callers -> [pc : {"idle", "check", "send"}, packet : 0..MaxPackets, session : 0..MaxSessions]]
    /\ \A c \in Callers : caller[c].pc # "idle" => caller[c].packet \in Packets /\ caller[c].session \in Sessions
    /\ arrived \in 0..MaxPackets /\ class \in [Packets -> Classes]
    /\ written \in [Sessions -> Seq(Packets)]
    /\ released \subseteq Packets /\ reused \in BOOLEAN

Serving == {"start", "register", "dial", "stats", "read", "delete"}

(* udpTable holds a queue exactly while its session has not run its delete: *)
(* no session's unconditional delete(t.udpTable, natKey) ever removes the   *)
(* queue of a successor, and no source has two serving sessions.  Nor does  *)
(* a session that returned leave its cancel in connections, unless its dial *)
(* failed.                                                                  *)
TableOwned ==
    \A s \in Sessions :
        /\ pc[s] \in Serving <=> udpTable[key[s]] = s /\ s <= started
        /\ s \in connections /\ pc[s] = "done" => failedDial[s]

(* NewTun2ray starts the device before it sets blockedUIDs (tun.go:153-187),*)
(* and until then no UID is checked.  A datagram of a blocked UID that      *)
(* arrives after that never reaches the proxy: not as the first one of a    *)
(* source, which is queued before newPacket checks it, not through a queue  *)
(* another app's datagram opened, and not through one that a blocked app    *)
(* itself opened early, whose session goes on.                              *)
BlockedNeverWritten ==
    \A s \in Sessions : \A i \in 1..Len(written[s]) : written[s][i] \notin late

Held(i) ==
    \/ \E c \in Callers : caller[c].pc # "idle" /\ caller[c].packet = i
    \/ \E s \in Sessions : inHand[s] = i \/ \E j \in 1..Len(queue[s]) : queue[s][j] = i

(* No buffer is released twice, and none that is released is still in a     *)
(* queue or in somebody's hands: a pooled buffer is never shared by two     *)
(* datagrams.                                                               *)
BufferOwned == ~reused /\ \A i \in released : ~Held(i)

(* With one device loop, a session's datagrams reach the proxy in the order *)
(* the app sent them, each once.                                            *)
WrittenInOrder ==
    \A s \in Sessions : \A i, j \in 1..Len(written[s]) : i < j => written[s][i] < written[s][j]

(* NewPacket, and with it the device loop of every app, never blocks for    *)
(* good on a full queue: the writer takes datagrams until its conn fails,   *)
(* and then the session closes the queue.                                   *)
NewPacketReturns ==
    \A c \in Callers : caller[c].pc # "idle" ~> caller[c].pc = "idle"

(* Tun2ray.Close returns, although closing the device may wait for a        *)
(* NewPacket that waits for a session which is only cancelled afterwards;   *)
(* and every session that was in connections when it was called ends        *)
(* (tun.go:205-213).                                                        *)
CloseEndsSessions ==
    /\ closing = "device" ~> closing = "done"
    /\ \A s \in Sessions : closing = "device" /\ s \in connections ~> pc[s] = "done"
=============================================================================
