---------------------------- MODULE UdpTableProofs ----------------------------
(***************************************************************************)
(* Proofs about UdpTable, for any number of sources, callers, sessions and *)
(* datagrams and any capacity of the queues: the types, who owns an entry  *)
(* of udpTable, that a blocked datagram is never written and that a buffer *)
(* has one owner; and, when one device loop calls NewPacket, the order of  *)
(* what is written.                                                        *)
(*                                                                         *)
(* The inductive invariant says which sessions and datagrams exist so far  *)
(* (StartedInv, SeenInv), which session udpTable and connections hold      *)
(* (TableInv, ListInv), what may be queued in a blocked session            *)
(* (BlockedInv), that a datagram is in one place (OnceInv), and in which   *)
(* order a session holds its datagrams (OrderInv, for one caller).         *)
(***************************************************************************)
EXTENDS UdpTable, SequenceTheorems, TLAPS

(* The sessions that exist are 1..started, and a caller uses one of them. *)
StartedInv ==
    /\ \A s \in Sessions :
          /\ s <= started <=> pc[s] # "none"
          /\ s > started => queue[s] = <<>> /\ inHand[s] = 0 /\ writer[s] = "none" /\ written[s] = <<>>
    /\ \A c \in Callers : caller[c].pc # "idle" => caller[c].session <= started

(* A source's entry is the one session of that source that has not deleted it. *)
TableInv ==
    /\ \A k \in Sources : udpTable[k] # 0 =>
          /\ udpTable[k] \in Sessions
          /\ key[udpTable[k]] = k /\ pc[udpTable[k]] \in Serving
    /\ \A s \in Sessions : pc[s] \in Serving => udpTable[key[s]] = s

(* A session that has a conn is on its way to unregister; one that is      *)
(* registered without a conn is dialling, or its dial failed.              *)
ListInv ==
    \A s \in Sessions :
        /\ pc[s] \in {"stats", "read"} => conn[s] # "none"
        /\ s \in connections => pc[s] \notin {"none", "start", "register", "closeConn"}
        /\ s \in connections /\ pc[s] \in {"delete", "closeQueue"} => conn[s] # "none" \/ failedDial[s]
        /\ s \in connections /\ pc[s] = "done" => failedDial[s]

(* Everything that is held or released has arrived. *)
SeenInv ==
    /\ \A s \in Sessions :
          Range(queue[s]) \subseteq 1..arrived /\ Range(written[s]) \subseteq 1..arrived /\ inHand[s] <= arrived
    /\ \A c \in Callers : caller[c].pc # "idle" => caller[c].packet <= arrived
    /\ released \subseteq 1..arrived

(* A session that was started by a blocked datagram and that the check      *)
(* rejects, or that ended without a writer.                                 *)
Rejected(s) ==
    /\ setup = "done" /\ first[s] = "blocked" /\ writer[s] = "none"
    /\ pc[s] \in {"start", "delete", "closeQueue", "unregister", "closeConn", "done"}

(* A blocked datagram that arrived once blockedUIDs was set is queued only   *)
(* for such a session, which never has a writer to take it.                  *)
BlockedInv ==
    /\ \A i \in late : i \in 1..arrived /\ class[i] = "blocked" /\ setup = "done"
    /\ \A s \in Sessions :
          /\ \A i \in Range(queue[s]) : i \in late => Rejected(s)
          /\ inHand[s] \notin late
          /\ Range(written[s]) \cap late = {}
    /\ \A c \in Callers : caller[c].pc = "send" /\ caller[c].packet \in late =>
          Rejected(caller[c].session)

(* A writer that is about to write holds a datagram. *)
HandInv == \A s \in Sessions : writer[s] = "write" => inHand[s] # 0

Once(q) == \A i, j \in 1..Len(q) : q[i] = q[j] => i = j

(* A datagram is in one place: with one caller, at one position of one      *)
(* queue, in one writer's hand, or released.                                *)
OnceInv ==
    /\ ~reused
    /\ \A s \in Sessions : Once(queue[s])
    /\ \A s, t \in Sessions :
          /\ inHand[s] \notin Range(queue[t])
          /\ s # t => Range(queue[s]) \cap Range(queue[t]) = {} /\ (inHand[s] = inHand[t] => inHand[s] = 0)
    /\ \A c \in Callers, s \in Sessions : caller[c].pc # "idle" =>
          caller[c].packet \notin Range(queue[s]) /\ caller[c].packet # inHand[s]
    /\ \A c, d \in Callers : c # d /\ caller[c].pc # "idle" /\ caller[d].pc # "idle" =>
          caller[c].packet # caller[d].packet
    /\ \A s \in Sessions : released \cap Range(queue[s]) = {} /\ inHand[s] \notin released
    /\ \A c \in Callers : caller[c].pc # "idle" => caller[c].packet \notin released

Increasing(q) == \A i, j \in 1..Len(q) : i < j => q[i] < q[j]

(* What a session has written is older than what its writer holds, that is  *)
(* older than its queue, and the queue is older than what the caller holds. *)
OrderInv ==
    \A s \in Sessions :
        /\ Increasing(written[s]) /\ Increasing(queue[s])
        /\ \A i \in Range(written[s]) :
              (inHand[s] # 0 => i < inHand[s]) /\ \A j \in Range(queue[s]) : i < j
        /\ \A j \in Range(queue[s]) : inHand[s] < j
        /\ \A c \in Callers : caller[c].pc # "idle" =>
              /\ inHand[s] < caller[c].packet
              /\ \A i \in Range(queue[s]) \cup Range(written[s]) : i < caller[c].packet

(* One device loop calls NewPacket. *)
OneCaller == \A c, d \in Callers : c = d

IInv ==
    /\ TypeOK
    /\ StartedInv /\ TableInv /\ ListInv /\ SeenInv /\ HandInv /\ BlockedInv /\ OnceInv
    /\ OneCaller => OrderInv

-----------------------------------------------------------------------------
(* The queues.                                                              *)

(* Appending a datagram that is not there keeps a queue free of repetitions, *)
(* and appending a newer one keeps it in order.                              *)
LEMMA AppendFacts ==
    ASSUME NEW q \in Seq(Packets), NEW x \in Packets
    PROVE  /\ Append(q, x) \in Seq(Packets) /\ Len(Append(q, x)) = Len(q) + 1
           /\ Range(Append(q, x)) = Range(q) \cup {x}
           /\ Once(q) /\ x \notin Range(q) => Once(Append(q, x))
           /\ Increasing(q) /\ (\A i \in Range(q) : i < x) => Increasing(Append(q, x))
<1> DEFINE r == Append(q, x)
<1>1. /\ r \in Seq(Packets) /\ Len(r) = Len(q) + 1 /\ Len(q) \in Nat
      /\ \A i \in 1..Len(q) : r[i] = q[i]
      /\ r[Len(q) + 1] = x
    BY AppendProperties, LenProperties
<1>2. /\ Range(q) = {q[i] : i \in 1..Len(q)}
      /\ Range(r) = {r[i] : i \in 1..Len(r)}
    BY <1>1, RangeEquality
<1>3. \A i \in 1..Len(r) : (i \in 1..Len(q) /\ r[i] = q[i]) \/ (i = Len(q) + 1 /\ r[i] = x)
    BY <1>1
<1>4. \A i \in 1..Len(q) : i \in 1..Len(r)
    BY <1>1
<1>5. Len(q) + 1 \in 1..Len(r)
    BY <1>1
<1> HIDE DEF r
<1>6. Range(r) = Range(q) \cup {x}
    BY <1>1, <1>2, <1>3, <1>4, <1>5
<1>7. \A i \in 1..Len(q) : q[i] \in Range(q)
    BY <1>2
<1>8. ASSUME Once(q), x \notin Range(q), NEW i \in 1..Len(r), NEW j \in 1..Len(r), r[i] = r[j]
      PROVE  i = j
    BY <1>3, <1>7, <1>8 DEF Once
<1>9. ASSUME Increasing(q), \A i \in Range(q) : i < x, NEW i \in 1..Len(r), NEW j \in 1..Len(r), i < j
      PROVE  r[i] < r[j]
    <2>1. i \in 1..Len(q) /\ r[i] = q[i]
        BY <1>1, <1>3, <1>9
    <2>2. CASE j \in 1..Len(q) /\ r[j] = q[j]
        BY <1>9, <2>1, <2>2 DEF Increasing
    <2>3. CASE r[j] = x
        BY <1>7, <1>9, <2>1, <2>3
    <2>4. QED
        BY <1>3, <2>2, <2>3
<1>10. QED
    BY <1>1, <1>6, <1>8, <1>9 DEF r, Once, Increasing

(* Taking the head leaves the rest, in the same order. *)
LEMMA TailFacts ==
    ASSUME NEW q \in Seq(Packets), q # <<>>
    PROVE  /\ Head(q) \in Packets
           /\ Tail(q) \in Seq(Packets) /\ Len(Tail(q)) = Len(q) - 1 /\ Len(q) \in Nat
           /\ Range(q) = {Head(q)} \cup Range(Tail(q))
           /\ Once(q) => Once(Tail(q)) /\ Head(q) \notin Range(Tail(q))
           /\ Increasing(q) => Increasing(Tail(q)) /\ \A i \in Range(Tail(q)) : Head(q) < i
<1> DEFINE r == Tail(q)
<1>1. /\ Head(q) \in Packets /\ r \in Seq(Packets) /\ Len(q) \in Nat \ {0} /\ Len(r) = Len(q) - 1
      /\ \A i \in 1..Len(r) : r[i] = q[i + 1]
      /\ Head(q) = q[1]
    BY HeadTailProperties, EmptySeq
<1>2. /\ Range(q) = {q[i] : i \in 1..Len(q)}
      /\ Range(r) = {r[i] : i \in 1..Len(r)}
    BY <1>1, RangeEquality
<1> HIDE DEF r
<1>3. \A j \in 1..Len(r) : j + 1 \in 1..Len(q) /\ r[j] = q[j + 1]
    BY <1>1
<1>4. ASSUME NEW i \in 1..Len(q), i # 1
      PROVE  \E j \in 1..Len(r) : q[i] = r[j]
    <2>1. i - 1 \in 1..Len(r) /\ (i - 1) + 1 = i
        BY <1>1, <1>4
    <2>2. QED
        BY <1>1, <2>1
<1>5. 1 \in 1..Len(q)
    BY <1>1
<1>6. Range(q) = {Head(q)} \cup Range(r)
    <2>1. Head(q) \in Range(q)
        BY <1>1, <1>2, <1>5
    <2>2. Range(r) \subseteq Range(q)
        BY <1>2, <1>3
    <2>3. ASSUME NEW x \in Range(q), x # Head(q)
          PROVE  x \in Range(r)
        BY <1>1, <1>2, <1>4, <2>3
    <2>4. QED
        BY <2>1, <2>2, <2>3
<1>7. ASSUME Once(q)
      PROVE  Once(r) /\ Head(q) \notin Range(r)
    <2>1. Once(r)
        BY <1>1, <1>3, <1>7 DEF Once
    <2>2. ASSUME NEW j \in 1..Len(r), Head(q) = r[j]
          PROVE  FALSE
        BY <1>1, <1>3, <1>5, <1>7, <2>2 DEF Once
    <2>3. QED
        BY <1>2, <2>1, <2>2
<1>8. ASSUME Increasing(q)
      PROVE  Increasing(r) /\ \A i \in Range(r) : Head(q) < i
    <2>1. Increasing(r)
        BY <1>1, <1>3, <1>8 DEF Increasing
    <2>2. \A j \in 1..Len(r) : Head(q) < r[j]
        BY <1>1, <1>3, <1>5, <1>8 DEF Increasing
    <2>3. QED
        BY <1>2, <2>1, <2>2
<1>9. QED
    BY <1>1, <1>6, <1>7, <1>8 DEF r

(* An empty queue. *)
LEMMA EmptyFacts ==
    <<>> \in Seq(Packets) /\ Len(<<>>) = 0 /\ Range(<<>>) = {} /\ Once(<<>>) /\ Increasing(<<>>)
<1>1. <<>> \in Seq(Packets) /\ Len(<<>>) = 0
    BY EmptySeq
<1>2. Range(<<>>) = {}
    <2>1. Range(<<>>) = {(<<>>)[i] : i \in 1..Len(<<>>)}
        BY <1>1, RangeEquality
    <2>2. 1..Len(<<>>) = {}
        BY <1>1
    <2>3. QED
        BY <2>1, <2>2
<1>3. QED
    BY <1>1, <1>2 DEF Once, Increasing

-----------------------------------------------------------------------------
(* The types, of five groups of variables.                                  *)

TableType ==
    /\ udpTable \in [Sources -> 0..MaxSessions] /\ started \in 0..MaxSessions
    /\ key \in [Sessions -> Sources] /\ first \in [Sessions -> Classes]
    /\ pc \in [Sessions -> SessionPlaces]

QueueType ==
    /\ queue \in [Sessions -> Seq(Packets)] /\ \A s \in Sessions : Len(queue[s]) <= QueueCap
    /\ inHand \in [Sessions -> 0..MaxPackets]
    /\ written \in [Sessions -> Seq(Packets)]

StateType ==
    /\ qclosed \in [Sessions -> BOOLEAN]
    /\ conn \in [Sessions -> {"none", "open", "failed"}]
    /\ cancelled \in [Sessions -> BOOLEAN] /\ failedDial \in [Sessions -> BOOLEAN]
    /\ writer \in [Sessions -> {"none", "select", "write", "drain", "ended"}]
    /\ connections \subseteq Sessions
    /\ deviceWaits \in BOOLEAN /\ closing \in {"no", "device", "cancel", "done"}

CallerType ==
    /\ caller \in [Callers -> [pc : {"idle", "check", "send"}, packet : 0..MaxPackets, session : 0..MaxSessions]]
    /\ \A c \in Callers : caller[c].pc # "idle" => caller[c].packet \in Packets /\ caller[c].session \in Sessions
    /\ arrived \in 0..MaxPackets /\ class \in [Packets -> Classes]
    /\ released \subseteq Packets /\ reused \in BOOLEAN

SetupType ==
    setup \in {"device", "dumper", "done"} /\ late \subseteq Packets /\ crashed \in BOOLEAN

LEMMA TypeSplit == TypeOK <=> SetupType /\ TableType /\ QueueType /\ StateType /\ CallerType
BY DEF TypeOK, SetupType, TableType, QueueType, StateType, CallerType

(* What the steps that take a new number rely on. *)
LEMMA NextNumbers ==
    ASSUME TypeOK
    PROVE  /\ \A c \in Callers : Arrives(c) => arrived + 1 \in Packets
           /\ started < MaxSessions => started + 1 \in Sessions
BY CapAssumption DEF TypeOK, Arrives, Packets, Sessions

LEMMA TableTypeInductive ==
    ASSUME TypeOK, [Next]_vars
    PROVE  TableType'
<1>0. TableType
    BY TypeSplit
<1>1. CASE UNCHANGED <<tableVars, pc>>
    BY <1>0, <1>1 DEF TableType, tableVars
<1>2. ASSUME NEW c \in Callers, NEW k \in Sources, NEW cl \in Classes, NewPacketFirst(c, k, cl)
      PROVE  TableType'
    <2>1. started + 1 \in Sessions /\ started + 1 \in 0..MaxSessions
        BY <1>2, NextNumbers DEF NewPacketFirst, ArrivesNow, Sessions
    <2>2. udpTable' \in [Sources -> 0..MaxSessions] /\ started' \in 0..MaxSessions
        BY <1>0, <1>2, <2>1 DEF NewPacketFirst, ArrivesNow, TableType
    <2>3. key' \in [Sessions -> Sources] /\ first' \in [Sessions -> Classes]
        BY <1>0, <1>2, <2>1 DEF NewPacketFirst, ArrivesNow, TableType
    <2>4. pc' \in [Sessions -> SessionPlaces]
        BY <1>0, <1>2, <2>1 DEF NewPacketFirst, ArrivesNow, TableType, SessionPlaces
    <2>5. QED
        BY <2>2, <2>3, <2>4 DEF TableType
<1>3. ASSUME NEW s \in Sessions, NEW from, NEW to \in SessionPlaces, Goto(s, from, to), UNCHANGED tableVars
      PROVE  TableType'
    BY <1>0, <1>3 DEF TableType, tableVars, Goto
<1>4. ASSUME NEW s \in Sessions,
             \/ SessionReject(s) \/ SessionPasses(s) \/ SessionRegister(s) \/ SessionDialFails(s) \/ SessionDials(s)
             \/ SessionStartsWriter(s) \/ SessionReadFails(s) \/ SessionWriteBackFails(s)
             \/ SessionUnregister(s) \/ SessionCloseConn(s)
      PROVE  TableType'
    BY <1>3, <1>4
       DEF SessionReject, SessionPasses, SessionRegister, SessionDialFails, SessionDials, SessionStartsWriter,
           SessionReadFails, SessionWriteBackFails, SessionUnregister, SessionCloseConn, SessionPlaces
<1>5. ASSUME NEW s \in Sessions, SessionCloseQueue(s)
      PROVE  TableType'
    BY <1>3, <1>5 DEF SessionCloseQueue, SessionPlaces
<1>6. ASSUME NEW s \in Sessions, SessionDelete(s)
      PROVE  TableType'
    <2>1. udpTable' \in [Sources -> 0..MaxSessions]
        BY <1>0, <1>6, CapAssumption DEF SessionDelete, TableType
    <2>2. pc' \in [Sessions -> SessionPlaces]
        BY <1>0, <1>6 DEF SessionDelete, Goto, TableType, SessionPlaces
    <2>3. QED
        BY <1>0, <1>6, <2>1, <2>2 DEF SessionDelete, TableType
<1>7. QED
    BY <1>1, <1>2, <1>4, <1>5, <1>6
       DEF Next, NewPacketStep, SessionStep, WriterStep, TunClose, vars, sessionVars,
           ArrivesNow, NewPacketLoaded, NewPacketBlocked, NewPacketAllowed, NewPacketQueue, NewPacketClosed,
           WriterTake, WriterWrites, WriterFails, WriterSeesClosed, WriterDrain,
           SetUidDumper, SetBlockedUIDs, SessionPanics,
           TunCloseDevice, TunDeviceClosed, TunCancel, ConnFails

LEMMA QueueTypeInductive ==
    ASSUME TypeOK, HandInv, [Next]_vars
    PROVE  QueueType'
<1>0. QueueType /\ CallerType
    BY TypeSplit
<1>1. CASE UNCHANGED <<queue, inHand, written>>
    BY <1>0, <1>1 DEF QueueType
<1>2. ASSUME NEW c \in Callers, NewPacketQueue(c)
      PROVE  QueueType'
    <2> DEFINE s == caller[c].session
               i == caller[c].packet
    <2>1. s \in Sessions /\ i \in Packets /\ queue[s] \in Seq(Packets)
        BY <1>0, <1>2 DEF NewPacketQueue, CallerType, QueueType
    <2>2. Append(queue[s], i) \in Seq(Packets) /\ Len(Append(queue[s], i)) = Len(queue[s]) + 1
        BY <2>1, AppendFacts
    <2>3. Len(queue[s]) \in Nat /\ Len(queue[s]) < QueueCap
        BY <1>2, <2>1, LenProperties DEF NewPacketQueue
    <2>4. queue' = [queue EXCEPT ![s] = Append(queue[s], i)] /\ UNCHANGED <<inHand, written>>
        BY <1>2 DEF NewPacketQueue, writerVars
    <2> HIDE DEF s, i
    <2>5. queue' \in [Sessions -> Seq(Packets)]
        BY <1>0, <2>1, <2>2, <2>4 DEF QueueType
    <2>6. \A t \in Sessions : Len(queue'[t]) <= QueueCap
        BY <1>0, <2>1, <2>2, <2>3, <2>4, CapAssumption DEF QueueType
    <2>7. QED
        BY <1>0, <2>4, <2>5, <2>6 DEF QueueType
<1>3. ASSUME NEW s \in Sessions, WriterTake(s) \/ WriterDrain(s)
      PROVE  QueueType'
    <2>1. queue[s] \in Seq(Packets) /\ queue[s] # <<>>
        BY <1>0, <1>3 DEF WriterTake, WriterDrain, QueueType
    <2>2. /\ Head(queue[s]) \in Packets /\ Tail(queue[s]) \in Seq(Packets)
          /\ Len(Tail(queue[s])) = Len(queue[s]) - 1 /\ Len(queue[s]) \in Nat
        BY <2>1, TailFacts
    <2>3. queue' = [queue EXCEPT ![s] = Tail(queue[s])] /\ UNCHANGED written
        BY <1>3 DEF WriterTake, WriterDrain, writerVars
    <2>4. inHand' \in [Sessions -> 0..MaxPackets]
        <3>1. CASE inHand' = [inHand EXCEPT ![s] = Head(queue[s])]
            BY <1>0, <2>2, <3>1, CapAssumption DEF QueueType, Packets
        <3>2. CASE UNCHANGED inHand
            BY <1>0, <3>2 DEF QueueType
        <3>3. QED
            BY <1>3, <3>1, <3>2 DEF WriterTake, WriterDrain, writerVars
    <2>5. queue' \in [Sessions -> Seq(Packets)]
        BY <1>0, <2>2, <2>3 DEF QueueType
    <2>6. \A t \in Sessions : Len(queue'[t]) <= QueueCap
        BY <1>0, <2>2, <2>3, CapAssumption DEF QueueType
    <2>7. QED
        BY <1>0, <2>3, <2>4, <2>5, <2>6 DEF QueueType
<1>4. ASSUME NEW s \in Sessions, WriterWrites(s)
      PROVE  QueueType'
    <2>1. inHand[s] \in Packets /\ written[s] \in Seq(Packets)
        BY <1>0, <1>4, CapAssumption DEF QueueType, Packets, HandInv, WriterWrites
    <2>2. Append(written[s], inHand[s]) \in Seq(Packets)
        BY <2>1, AppendFacts
    <2>3. written' \in [Sessions -> Seq(Packets)]
        BY <1>0, <1>4, <2>2 DEF WriterWrites, QueueType
    <2>4. inHand' \in [Sessions -> 0..MaxPackets]
        BY <1>0, <1>4, CapAssumption DEF WriterWrites, QueueType
    <2>5. QED
        BY <1>0, <1>4, <2>3, <2>4 DEF WriterWrites, QueueType, queueVars
<1>5. ASSUME NEW s \in Sessions, WriterFails(s)
      PROVE  QueueType'
    BY <1>0, <1>5, CapAssumption DEF WriterFails, QueueType, queueVars
<1>6. QED
    BY <1>1, <1>2, <1>3, <1>4, <1>5
       DEF Next, NewPacketStep, SessionStep, WriterStep, TunClose, vars, queueVars, writerVars,
           ArrivesNow, NewPacketLoaded, NewPacketFirst, NewPacketBlocked, NewPacketAllowed, NewPacketClosed,
           SessionReject, SessionPasses, SessionRegister, SessionDialFails, SessionDials, SessionStartsWriter,
           SessionReadFails, SessionWriteBackFails, SessionDelete, SessionCloseQueue,
           SessionUnregister, SessionCloseConn, WriterSeesClosed,
           SetUidDumper, SetBlockedUIDs, SessionPanics,
           TunCloseDevice, TunDeviceClosed, TunCancel, ConnFails

LEMMA StateTypeInductive ==
    ASSUME TypeOK, [Next]_vars
    PROVE  StateType'
<1>0. StateType
    BY TypeSplit
<1> USE DEF StateType
<1>1. CASE UNCHANGED <<qclosed, connVars, failedDial, writer, listVars>>
    BY <1>0, <1>1 DEF connVars, listVars
<1>2. ASSUME NEW s \in Sessions, SessionRegister(s) \/ SessionUnregister(s)
      PROVE  StateType'
    BY <1>0, <1>2
       DEF SessionRegister, SessionUnregister, queueVars, connVars, writerVars
<1>3. ASSUME NEW s \in Sessions, UNCHANGED <<qclosed, failedDial, cancelled, writer, listVars>>,
             NEW to \in {"open", "failed"}, conn' = [conn EXCEPT ![s] = to]
      PROVE  StateType'
    BY <1>0, <1>3 DEF listVars
<1>4. ASSUME NEW s \in Sessions, SessionDials(s) \/ SessionCloseConn(s) \/ ConnFails(s)
      PROVE  StateType'
    BY <1>3, <1>4 DEF SessionDials, SessionCloseConn, ConnFails, sessionVars, queueVars, writerVars
<1>5. ASSUME NEW s \in Sessions, UNCHANGED <<qclosed, connVars, failedDial, listVars>>,
             NEW to \in {"select", "write", "drain", "ended"}, writer' = [writer EXCEPT ![s] = to]
      PROVE  StateType'
    BY <1>0, <1>5 DEF connVars, listVars
<1>6. ASSUME NEW s \in Sessions,
             SessionStartsWriter(s) \/ WriterTake(s) \/ WriterWrites(s) \/ WriterSeesClosed(s)
      PROVE  StateType'
    BY <1>5, <1>6
       DEF SessionStartsWriter, WriterTake, WriterWrites, WriterSeesClosed, sessionVars, queueVars
<1>7. ASSUME NEW s \in Sessions, WriterFails(s)
      PROVE  StateType'
    <2>1. /\ conn' \in [Sessions -> {"none", "open", "failed"}]
          /\ writer' \in [Sessions -> {"none", "select", "write", "drain", "ended"}]
        BY <1>0, <1>7 DEF WriterFails
    <2>2. UNCHANGED <<qclosed, failedDial, cancelled, listVars>>
        BY <1>7 DEF WriterFails, sessionVars, queueVars
    <2>3. QED
        BY <1>0, <2>1, <2>2 DEF listVars
<1>8. ASSUME NEW s \in Sessions, SessionDialFails(s)
      PROVE  StateType'
    BY <1>0, <1>8 DEF SessionDialFails, queueVars, connVars, writerVars, listVars
<1>9. ASSUME NEW s \in Sessions, SessionCloseQueue(s)
      PROVE  StateType'
    BY <1>0, <1>9 DEF SessionCloseQueue, connVars, writerVars, listVars
<1>10. CASE TunCloseDevice \/ TunDeviceClosed
    BY <1>0, <1>10 DEF TunCloseDevice, TunDeviceClosed, sessionVars, queueVars, connVars, writerVars
<1>11. CASE TunCancel
    BY <1>0, <1>11 DEF TunCancel, sessionVars, queueVars, writerVars
<1>12. QED
    BY <1>1, <1>2, <1>4, <1>6, <1>7, <1>8, <1>9, <1>10, <1>11
       DEF Next, NewPacketStep, SessionStep, WriterStep, TunClose, vars,
           sessionVars, queueVars, writerVars, connVars, listVars,
           ArrivesNow, NewPacketLoaded, NewPacketFirst, NewPacketBlocked, NewPacketAllowed, NewPacketQueue,
           NewPacketClosed, SessionReject, SessionPasses, SessionReadFails, SessionWriteBackFails, SessionDelete,
           WriterDrain, SetUidDumper, SetBlockedUIDs, SessionPanics

LEMMA CallerTypeInductive ==
    ASSUME TypeOK, HandInv, [Next]_vars
    PROVE  CallerType'
<1>0. CallerType /\ TableType /\ QueueType
    BY TypeSplit
<1> DEFINE CallerRecord ==
               [pc : {"idle", "check", "send"}, packet : 0..MaxPackets, session : 0..MaxSessions]
<1>1. CASE UNCHANGED <<callerVars, bufVars>>
    BY <1>0, <1>1 DEF CallerType, callerVars, bufVars
<1>2. ASSUME NEW c \in Callers, UNCHANGED <<arrived, class>>,
             released' \subseteq Packets, reused' \in BOOLEAN,
             NEW r \in CallerRecord, caller' = [caller EXCEPT ![c] = r],
             r.pc # "idle" => r.packet \in Packets /\ r.session \in Sessions
      PROVE  CallerType'
    BY <1>0, <1>2 DEF CallerType
<1>3. ASSUME NEW c \in Callers, NEW r \in CallerRecord, caller' = [caller EXCEPT ![c] = r],
             r.packet \in Packets /\ r.session \in Sessions, arrived' \in 0..MaxPackets,
             NEW cl \in Classes, class' = [class EXCEPT ![arrived + 1] = cl], UNCHANGED bufVars
      PROVE  CallerType'
    BY <1>0, <1>3 DEF CallerType, bufVars
<1>4. ASSUME NEW c \in Callers, NEW k \in Sources, NEW cl \in Classes,
             NewPacketLoaded(c, k, cl) \/ NewPacketFirst(c, k, cl)
      PROVE  CallerType'
    <2>1. arrived + 1 \in Packets /\ arrived + 1 \in 0..MaxPackets
        BY <1>4, NextNumbers DEF NewPacketLoaded, ArrivesNow, NewPacketFirst, Packets
    <2>2. CASE NewPacketLoaded(c, k, cl)
        <3> DEFINE r == [pc |-> "check", packet |-> arrived + 1, session |-> udpTable[k]]
        <3>1. udpTable[k] \in Sessions /\ udpTable[k] \in 0..MaxSessions
            BY <1>0, <2>2, CapAssumption DEF TableType, NewPacketLoaded, Sessions
        <3>2. r \in CallerRecord /\ r.packet \in Packets /\ r.session \in Sessions
            BY <2>1, <3>1
        <3> HIDE DEF r
        <3>3. caller' = [caller EXCEPT ![c] = r] /\ arrived' \in 0..MaxPackets
            BY <2>1, <2>2 DEF NewPacketLoaded, ArrivesNow, r
        <3>4. class' = [class EXCEPT ![arrived + 1] = cl] /\ UNCHANGED bufVars
            BY <2>2 DEF NewPacketLoaded, ArrivesNow
        <3>5. QED
            BY <1>3, <3>2, <3>3, <3>4
    <2>3. CASE NewPacketFirst(c, k, cl)
        <3> DEFINE r == [pc |-> "send", packet |-> arrived + 1, session |-> started + 1]
        <3>1. started + 1 \in Sessions /\ started + 1 \in 0..MaxSessions
            BY <2>3, NextNumbers DEF NewPacketFirst, ArrivesNow, Sessions
        <3>2. r \in CallerRecord /\ r.packet \in Packets /\ r.session \in Sessions
            BY <2>1, <3>1
        <3> HIDE DEF r
        <3>3. caller' = [caller EXCEPT ![c] = r] /\ arrived' \in 0..MaxPackets
            BY <2>1, <2>3 DEF NewPacketFirst, ArrivesNow, r
        <3>4. class' = [class EXCEPT ![arrived + 1] = cl] /\ UNCHANGED bufVars
            BY <2>3 DEF NewPacketFirst, ArrivesNow
        <3>5. QED
            BY <1>3, <3>2, <3>3, <3>4
    <2>4. QED
        BY <1>4, <2>2, <2>3
<1>5. Away \in CallerRecord /\ Away.pc = "idle"
    BY CapAssumption DEF Away
<1>6. ASSUME NEW i \in Packets, Release(i)
      PROVE  released' \subseteq Packets /\ reused' \in BOOLEAN
    BY <1>0, <1>6 DEF Release, CallerType
<1>7. ASSUME NEW c \in Callers, NewPacketBlocked(c) \/ NewPacketClosed(c)
      PROVE  CallerType'
    <2>1. caller[c].packet \in Packets /\ Release(caller[c].packet)
        BY <1>0, <1>7 DEF NewPacketBlocked, NewPacketClosed, CallerType
    <2>2. released' \subseteq Packets /\ reused' \in BOOLEAN
        BY <1>6, <2>1
    <2>3. caller' = [caller EXCEPT ![c] = Away] /\ UNCHANGED <<arrived, class>>
        BY <1>7 DEF NewPacketBlocked, NewPacketClosed
    <2>4. QED
        BY <1>2, <1>5, <2>2, <2>3
<1>8. ASSUME NEW c \in Callers, NewPacketQueue(c)
      PROVE  CallerType'
    <2>1. caller' = [caller EXCEPT ![c] = Away] /\ UNCHANGED <<arrived, class, bufVars>>
        BY <1>8 DEF NewPacketQueue
    <2>2. QED
        BY <1>0, <1>2, <1>5, <2>1 DEF bufVars, CallerType
<1>9. ASSUME NEW c \in Callers, NewPacketAllowed(c)
      PROVE  CallerType'
    <2> DEFINE r == [caller[c] EXCEPT !.pc = "send"]
    <2>1. r \in CallerRecord /\ r.packet \in Packets /\ r.session \in Sessions
        BY <1>0, <1>9 DEF NewPacketAllowed, CallerType
    <2>2. caller' = [caller EXCEPT ![c] = r] /\ UNCHANGED <<arrived, class, bufVars>>
        BY <1>9 DEF NewPacketAllowed
    <2> HIDE DEF r
    <2>3. QED
        BY <1>0, <1>2, <2>1, <2>2 DEF bufVars, CallerType
<1>10. ASSUME NEW s \in Sessions, WriterWrites(s) \/ WriterFails(s) \/ WriterDrain(s)
       PROVE  CallerType'
    <2>1. PICK i \in Packets : Release(i)
        <3>1. CASE WriterWrites(s) \/ WriterFails(s)
            <4>1. inHand[s] \in Packets
                BY <1>0, <3>1, CapAssumption DEF WriterWrites, WriterFails, HandInv, QueueType, Packets
            <4>2. QED
                BY <3>1, <4>1 DEF WriterWrites, WriterFails
        <3>2. CASE WriterDrain(s)
            <4>1. Head(queue[s]) \in Packets
                BY <1>0, <3>2, TailFacts DEF WriterDrain, QueueType
            <4>2. QED
                BY <3>2, <4>1 DEF WriterDrain
        <3>3. QED
            BY <1>10, <3>1, <3>2
    <2>2. UNCHANGED callerVars
        BY <1>10 DEF WriterWrites, WriterFails, WriterDrain
    <2>3. QED
        BY <1>0, <1>6, <2>1, <2>2 DEF callerVars, CallerType
<1>11. QED
    BY <1>1, <1>4, <1>7, <1>8, <1>9, <1>10
       DEF Next, NewPacketStep, SessionStep, WriterStep, TunClose, vars,
           SessionReject, SessionPasses, SessionRegister, SessionDialFails, SessionDials, SessionStartsWriter,
           SessionReadFails, SessionWriteBackFails, SessionDelete, SessionCloseQueue,
           SessionUnregister, SessionCloseConn, WriterTake, WriterSeesClosed,
           SetUidDumper, SetBlockedUIDs, SessionPanics,
           TunCloseDevice, TunDeviceClosed, TunCancel, ConnFails

LEMMA SetupTypeInductive ==
    ASSUME TypeOK, [Next]_vars
    PROVE  SetupType'
<1>0. SetupType
    BY TypeSplit
<1>1. CASE UNCHANGED setupVars
    BY <1>0, <1>1 DEF SetupType, setupVars
<1>2. ASSUME NEW c \in Callers, NEW k \in Sources, NEW cl \in Classes,
             NewPacketLoaded(c, k, cl) \/ NewPacketFirst(c, k, cl)
      PROVE  SetupType'
    <2>1. arrived + 1 \in Packets
        BY <1>2, NextNumbers DEF NewPacketLoaded, NewPacketFirst
    <2>2. late' \subseteq late \cup {arrived + 1} /\ UNCHANGED <<setup, crashed>>
        BY <1>2 DEF NewPacketLoaded, NewPacketFirst, ArrivesNow
    <2>3. QED
        BY <1>0, <2>1, <2>2 DEF SetupType
<1>3. CASE SetUidDumper \/ SetBlockedUIDs
    BY <1>0, <1>3 DEF SetupType, SetUidDumper, SetBlockedUIDs
<1>4. ASSUME NEW s \in Sessions, SessionPanics(s)
      PROVE  SetupType'
    BY <1>0, <1>4 DEF SetupType, SessionPanics
<1>5. QED
    BY <1>1, <1>2, <1>3, <1>4
       DEF Next, NewPacketStep, SessionStep, WriterStep, TunClose, vars,
           NewPacketBlocked, NewPacketAllowed, NewPacketQueue,
           NewPacketClosed, SessionReject, SessionPasses, SessionRegister, SessionDialFails,
           SessionDials, SessionStartsWriter, SessionReadFails, SessionWriteBackFails, SessionDelete,
           SessionCloseQueue, SessionUnregister, SessionCloseConn, WriterTake, WriterWrites,
           WriterFails, WriterSeesClosed, WriterDrain,
           TunCloseDevice, TunDeviceClosed, TunCancel, ConnFails

LEMMA TypeInductive ==
    ASSUME TypeOK, HandInv, [Next]_vars
    PROVE  TypeOK'
<1>1. SetupType' /\ TableType' /\ QueueType' /\ StateType' /\ CallerType'
    BY SetupTypeInductive, TableTypeInductive, QueueTypeInductive, StateTypeInductive, CallerTypeInductive
<1>2. QED
    BY <1>1 DEF TypeOK, SetupType, TableType, QueueType, StateType, CallerType

-----------------------------------------------------------------------------
(* Sessions: which exist, and which of them udpTable and connections hold.  *)

(* A session's own steps are those of one that has been started. *)
LEMMA StepPlaces ==
    ASSUME NEW s \in Sessions, SessionStep(s) \/ SessionStartsWriter(s) \/ SessionWriteBackFails(s)
    PROVE  pc[s] \in SessionPlaces \ {"none", "done"}
BY DEF SessionStep, SessionReject, SessionPasses, SessionRegister, SessionDialFails, SessionDials,
       SessionStartsWriter, SessionReadFails, SessionWriteBackFails, SessionDelete, SessionCloseQueue,
       SessionUnregister, SessionCloseConn, SessionPlaces, Goto

LEMMA HandInductive ==
    ASSUME TypeOK, HandInv, [Next]_vars
    PROVE  HandInv'
<1>0. QueueType /\ StateType
    BY TypeSplit
<1> USE DEF HandInv
<1>1. CASE UNCHANGED <<writer, inHand>>
    BY <1>1
<1>2. ASSUME NEW s \in Sessions, SessionStartsWriter(s) \/ WriterSeesClosed(s)
      PROVE  HandInv'
    BY <1>0, <1>2 DEF SessionStartsWriter, WriterSeesClosed, StateType
<1>3. ASSUME NEW s \in Sessions, WriterTake(s)
      PROVE  HandInv'
    <2>1. Head(queue[s]) # 0
        BY <1>0, <1>3, TailFacts DEF WriterTake, QueueType, Packets
    <2>2. QED
        BY <1>0, <1>3, <2>1 DEF WriterTake, StateType, QueueType
<1>4. ASSUME NEW s \in Sessions, WriterWrites(s) \/ WriterFails(s)
      PROVE  HandInv'
    BY <1>0, <1>4 DEF WriterWrites, WriterFails, StateType, QueueType
<1>5. QED
    BY <1>1, <1>2, <1>3, <1>4
       DEF Next, NewPacketStep, SessionStep, WriterStep, TunClose, vars, writerVars,
           ArrivesNow, NewPacketLoaded, NewPacketFirst, NewPacketBlocked, NewPacketAllowed, NewPacketQueue,
           NewPacketClosed, SessionReject, SessionPasses, SessionRegister, SessionDialFails, SessionDials,
           SessionReadFails, SessionWriteBackFails, SessionDelete, SessionCloseQueue,
           SessionUnregister, SessionCloseConn, WriterDrain,
           SetUidDumper, SetBlockedUIDs, SessionPanics,
           TunCloseDevice, TunDeviceClosed, TunCancel, ConnFails

LEMMA StartedInductive ==
    ASSUME TypeOK, StartedInv, TableInv, [Next]_vars
    PROVE  StartedInv'
<1>0. TableType /\ QueueType /\ StateType /\ CallerType
    BY TypeSplit
<1> USE DEF StartedInv
<1>1. CASE UNCHANGED <<tableVars, pc, queue, inHand, writer, written, caller>>
    BY <1>1 DEF tableVars
<1>2. ASSUME NEW c \in Callers, NEW k \in Sources, NEW cl \in Classes, NewPacketLoaded(c, k, cl)
      PROVE  StartedInv'
    <2>1. udpTable[k] \in Sessions /\ pc[udpTable[k]] # "none"
        BY <1>2 DEF NewPacketLoaded, ArrivesNow, TableInv, Serving
    <2>2. udpTable[k] <= started
        BY <2>1
    <2>3. UNCHANGED <<started, pc, queue, inHand, writer, written>>
        BY <1>2 DEF NewPacketLoaded, ArrivesNow, tableVars, sessionVars, queueVars, writerVars
    <2>4. \A d \in Callers : caller'[d].pc # "idle" => caller'[d].session <= started
        BY <1>0, <1>2, <2>2 DEF NewPacketLoaded, ArrivesNow, CallerType
    <2>5. QED
        BY <2>3, <2>4
<1>3. ASSUME NEW c \in Callers, NEW k \in Sources, NEW cl \in Classes, NewPacketFirst(c, k, cl)
      PROVE  StartedInv'
    <2>1. started \in Nat /\ started + 1 \in Sessions /\ Sessions \subseteq Nat
        BY <1>0, <1>3, NextNumbers DEF NewPacketFirst, ArrivesNow, TableType, Sessions
    <2>2. started' = started + 1 /\ UNCHANGED <<queue, inHand, writer, written>>
        BY <1>3 DEF NewPacketFirst, ArrivesNow, queueVars, writerVars
    <2>3. \A s \in Sessions : s <= started' <=> pc'[s] # "none"
        BY <1>0, <1>3, <2>1 DEF NewPacketFirst, ArrivesNow, TableType
    <2>4. ASSUME NEW s \in Sessions, s > started'
          PROVE  s > started
        <3>1. s \in Nat /\ s > started + 1
            BY <2>1, <2>2, <2>4
        <3>2. QED
            BY <2>1, <3>1
    <2>5. \A d \in Callers : caller'[d].pc # "idle" => caller'[d].session <= started'
        <3>1. \A d \in Callers : d # c => caller'[d] = caller[d]
            BY <1>0, <1>3 DEF NewPacketFirst, ArrivesNow, CallerType
        <3>2. caller'[c].session = started + 1
            BY <1>0, <1>3 DEF NewPacketFirst, ArrivesNow, CallerType
        <3>3. \A d \in Callers : caller[d].pc # "idle" => caller[d].session \in Nat
            BY <1>0, <2>1 DEF CallerType
        <3>4. QED
            BY <2>1, <2>2, <3>1, <3>2, <3>3
    <2>6. QED
        BY <2>2, <2>3, <2>4, <2>5
<1>4. ASSUME NEW c \in Callers, NewPacketBlocked(c) \/ NewPacketAllowed(c) \/ NewPacketClosed(c)
      PROVE  StartedInv'
    <2>1. UNCHANGED <<started, pc, queue, inHand, writer, written>>
        BY <1>4 DEF NewPacketBlocked, NewPacketAllowed, NewPacketClosed, tableVars, sessionVars,
                    queueVars, writerVars
    <2>2. ASSUME NEW d \in Callers, caller'[d].pc # "idle"
          PROVE  caller[d].pc # "idle" /\ caller'[d].session = caller[d].session
        <3>1. CASE caller' = [caller EXCEPT ![c] = Away]
            BY <1>0, <2>2, <3>1 DEF CallerType, Away
        <3>2. CASE caller' = [caller EXCEPT ![c].pc = "send"] /\ caller[c].pc = "check"
            BY <1>0, <2>2, <3>2 DEF CallerType
        <3>3. QED
            BY <1>4, <3>1, <3>2 DEF NewPacketBlocked, NewPacketAllowed, NewPacketClosed
    <2>3. QED
        BY <2>1, <2>2
<1>5. ASSUME NEW c \in Callers, NewPacketQueue(c)
      PROVE  StartedInv'
    <2> DEFINE t == caller[c].session
    <2>1. UNCHANGED <<started, pc, inHand, writer, written>>
        BY <1>5 DEF NewPacketQueue, tableVars, sessionVars, writerVars
    <2>2. \A d \in Callers : caller'[d].pc # "idle" => caller'[d] = caller[d]
        BY <1>0, <1>5 DEF NewPacketQueue, CallerType, Away
    <2>3. \A s \in Sessions : s # t => queue'[s] = queue[s]
        BY <1>0, <1>5 DEF NewPacketQueue, QueueType
    <2>4. t <= started /\ t \in Nat /\ started \in Nat
        BY <1>0, <1>5 DEF NewPacketQueue, CallerType, TableType, Sessions
    <2>5. QED
        BY <2>1, <2>2, <2>3, <2>4
<1>6. ASSUME NEW s \in Sessions, SessionStep(s) \/ SessionStartsWriter(s) \/ SessionWriteBackFails(s)
      PROVE  StartedInv'
    <2>1. pc[s] # "none" /\ s <= started
        BY <1>6, StepPlaces
    <2>2. PICK to \in SessionPlaces \ {"none"} : pc' = [pc EXCEPT ![s] = to]
        BY <1>6
           DEF SessionStep, SessionReject, SessionPasses, SessionRegister, SessionDialFails, SessionDials,
               SessionStartsWriter, SessionReadFails, SessionWriteBackFails, SessionDelete,
               SessionCloseQueue, SessionUnregister, SessionCloseConn, SessionPlaces, Goto
    <2>3. UNCHANGED <<started, queue, inHand, written, caller>> /\ (writer' = writer \/ writer' = [writer EXCEPT ![s] = "select"])
        BY <1>6
           DEF SessionStep, SessionReject, SessionPasses, SessionRegister, SessionDialFails, SessionDials,
               SessionStartsWriter, SessionReadFails, SessionWriteBackFails, SessionDelete,
               SessionCloseQueue, SessionUnregister, SessionCloseConn, tableVars, queueVars,
               writerVars, callerVars
    <2>4. \A t \in Sessions : t # s => pc'[t] = pc[t] /\ writer'[t] = writer[t]
        BY <1>0, <2>2, <2>3 DEF TableType, StateType
    <2>5. pc'[s] # "none"
        BY <1>0, <2>2 DEF TableType
    <2>6. ~(s > started)
        BY <1>0, <2>1 DEF TableType, Sessions
    <2>7. QED
        BY <2>1, <2>3, <2>4, <2>5, <2>6
<1>7. ASSUME NEW s \in Sessions, WriterStep(s)
      PROVE  StartedInv'
    <2>1. UNCHANGED <<started, pc, caller>>
        BY <1>7 DEF WriterStep, WriterTake, WriterWrites, WriterFails, WriterSeesClosed, WriterDrain,
                    tableVars, sessionVars, callerVars
    <2>2. writer[s] # "none" /\ ~(s > started)
        BY <1>7 DEF WriterStep, WriterTake, WriterWrites, WriterFails, WriterSeesClosed, WriterDrain
    <2>3. \A t \in Sessions : t # s =>
              queue'[t] = queue[t] /\ inHand'[t] = inHand[t] /\ writer'[t] = writer[t] /\ written'[t] = written[t]
        BY <1>0, <1>7 DEF WriterStep, WriterTake, WriterWrites, WriterFails, WriterSeesClosed, WriterDrain,
                          queueVars, writerVars, QueueType, StateType
    <2>4. QED
        BY <2>1, <2>2, <2>3
<1>8. QED
    BY <1>1, <1>2, <1>3, <1>4, <1>5, <1>6, <1>7
       DEF Next, NewPacketStep, TunClose, vars, tableVars, sessionVars, queueVars, writerVars, callerVars,
           SetUidDumper, SetBlockedUIDs, SessionPanics,
           TunCloseDevice, TunDeviceClosed, TunCancel, ConnFails

(* Only NewPacket's first datagram and delete(t.udpTable, natKey) change who *)
(* owns an entry; deleting, a session finds its own queue there.             *)
LEMMA TableInductive ==
    ASSUME TypeOK, StartedInv, TableInv, [Next]_vars
    PROVE  TableInv'
<1>0. TableType
    BY TypeSplit
<1> USE DEF TableInv
<1>1. CASE UNCHANGED <<udpTable, key, pc>>
    BY <1>1
<1>2. ASSUME NEW c \in Callers, NEW k \in Sources, NEW cl \in Classes, NewPacketFirst(c, k, cl)
      PROVE  TableInv'
    <2> DEFINE n == started + 1
    <2>1. n \in Sessions /\ n # 0 /\ pc[n] = "none"
        BY <1>0, <1>2, NextNumbers DEF NewPacketFirst, ArrivesNow, StartedInv, TableType, Sessions
    <2>2. /\ udpTable[k] = 0 /\ udpTable' = [udpTable EXCEPT ![k] = n] /\ key' = [key EXCEPT ![n] = k]
          /\ pc' = [pc EXCEPT ![n] = "start"]
        BY <1>2 DEF NewPacketFirst, ArrivesNow
    <2> HIDE DEF n
    <2>3. ASSUME NEW j \in Sources, udpTable'[j] # 0
          PROVE  udpTable'[j] \in Sessions /\ key'[udpTable'[j]] = j /\ pc'[udpTable'[j]] \in Serving
        <3>1. CASE j = k
            BY <1>0, <2>1, <2>2, <3>1 DEF TableType, Serving
        <3>2. CASE j # k
            <4>1. udpTable'[j] = udpTable[j] /\ udpTable[j] \in Sessions /\ pc[udpTable[j]] \in Serving
                BY <1>0, <2>2, <2>3, <3>2 DEF TableType
            <4>2. udpTable[j] # n
                BY <2>1, <4>1 DEF Serving
            <4>3. QED
                BY <1>0, <2>2, <2>3, <4>1, <4>2 DEF TableType
        <3>3. QED
            BY <3>1, <3>2
    <2>4. ASSUME NEW s \in Sessions, pc'[s] \in Serving
          PROVE  udpTable'[key'[s]] = s
        <3>1. CASE s = n
            BY <1>0, <2>2, <3>1 DEF TableType
        <3>2. CASE s # n
            <4>1. key'[s] = key[s] /\ pc[s] \in Serving /\ key[s] \in Sources
                BY <1>0, <2>2, <2>4, <3>2 DEF TableType
            <4>2. udpTable[key[s]] = s /\ s # 0
                BY <4>1 DEF Sessions
            <4>3. key[s] # k
                BY <2>2, <4>2
            <4>4. QED
                BY <1>0, <2>2, <4>1, <4>2, <4>3 DEF TableType
        <3>3. QED
            BY <3>1, <3>2
    <2>5. QED
        BY <2>3, <2>4
<1>3. ASSUME NEW s \in Sessions, UNCHANGED tableVars, NEW to, pc' = [pc EXCEPT ![s] = to],
             to \in Serving <=> pc[s] \in Serving
      PROVE  TableInv'
    BY <1>0, <1>3 DEF tableVars, TableType
<1>4. ASSUME NEW s \in Sessions,
             \/ SessionReject(s) \/ SessionPasses(s) \/ SessionRegister(s) \/ SessionDialFails(s) \/ SessionDials(s)
             \/ SessionStartsWriter(s) \/ SessionReadFails(s) \/ SessionWriteBackFails(s)
      PROVE  TableInv'
    BY <1>3, <1>4
       DEF SessionReject, SessionPasses, SessionRegister, SessionDialFails, SessionDials, SessionStartsWriter,
           SessionReadFails, SessionWriteBackFails, Serving, Goto
<1>5. ASSUME NEW s \in Sessions, SessionCloseQueue(s) \/ SessionUnregister(s) \/ SessionCloseConn(s)
      PROVE  TableInv'
    BY <1>3, <1>5 DEF SessionCloseQueue, SessionUnregister, SessionCloseConn, Serving, Goto
<1>6. ASSUME NEW s \in Sessions, SessionDelete(s)
      PROVE  TableInv'
    <2>1. /\ pc[s] = "delete" /\ pc' = [pc EXCEPT ![s] = "closeQueue"]
          /\ udpTable' = [udpTable EXCEPT ![key[s]] = 0] /\ key' = key
        BY <1>6 DEF SessionDelete, Goto
    <2>2. udpTable[key[s]] = s /\ key[s] \in Sources /\ s # 0
        BY <1>0, <2>1 DEF Serving, TableType, Sessions
    <2>3. ASSUME NEW j \in Sources, udpTable'[j] # 0
          PROVE  udpTable'[j] \in Sessions /\ key'[udpTable'[j]] = j /\ pc'[udpTable'[j]] \in Serving
        <3>1. j # key[s] /\ udpTable'[j] = udpTable[j]
            BY <1>0, <2>1, <2>3 DEF TableType
        <3>2. udpTable[j] # s
            BY <2>2, <2>3, <3>1
        <3>3. QED
            BY <1>0, <2>1, <2>3, <3>1, <3>2 DEF TableType
    <2>4. ASSUME NEW t \in Sessions, pc'[t] \in Serving
          PROVE  udpTable'[key'[t]] = t
        <3>1. t # s /\ pc[t] \in Serving
            BY <1>0, <2>1, <2>4 DEF TableType, Serving
        <3>2. udpTable[key[t]] = t /\ key[t] # key[s] /\ key[t] \in Sources
            BY <1>0, <2>2, <3>1 DEF TableType
        <3>3. QED
            BY <1>0, <2>1, <3>2 DEF TableType
    <2>5. QED
        BY <2>3, <2>4
<1>7. QED
    BY <1>1, <1>2, <1>4, <1>5, <1>6
       DEF Next, NewPacketStep, SessionStep, WriterStep, TunClose, vars, tableVars, sessionVars,
           ArrivesNow, NewPacketLoaded, NewPacketBlocked, NewPacketAllowed, NewPacketQueue, NewPacketClosed,
           WriterTake, WriterWrites, WriterFails, WriterSeesClosed, WriterDrain,
           SetUidDumper, SetBlockedUIDs, SessionPanics,
           TunCloseDevice, TunDeviceClosed, TunCancel, ConnFails

LEMMA ListInductive ==
    ASSUME TypeOK, StartedInv, ListInv, [Next]_vars
    PROVE  ListInv'
<1>0. TableType /\ StateType
    BY TypeSplit
<1> USE DEF ListInv
<1>1. CASE UNCHANGED <<pc, conn, connections, failedDial>>
    BY <1>1
<1>2. ASSUME NEW c \in Callers, NEW k \in Sources, NEW cl \in Classes, NewPacketFirst(c, k, cl)
      PROVE  ListInv'
    <2>1. started + 1 \in Sessions /\ pc[started + 1] = "none"
        BY <1>0, <1>2, NextNumbers DEF NewPacketFirst, ArrivesNow, StartedInv, TableType, Sessions
    <2>2. started + 1 \notin connections
        BY <2>1
    <2>3. QED
        BY <1>0, <1>2, <2>1, <2>2 DEF NewPacketFirst, ArrivesNow, connVars, listVars, TableType
<1>3. ASSUME NEW s \in Sessions, SessionReject(s) \/ SessionPasses(s) \/ SessionReadFails(s) \/ SessionWriteBackFails(s) \/ SessionDelete(s)
      PROVE  ListInv'
    BY <1>0, <1>3
       DEF SessionReject, SessionPasses, SessionReadFails, SessionWriteBackFails, SessionDelete, Goto, connVars,
           listVars, TableType
<1>4. ASSUME NEW s \in Sessions, SessionRegister(s)
      PROVE  ListInv'
    BY <1>0, <1>4 DEF SessionRegister, Goto, connVars, TableType
<1>5. ASSUME NEW s \in Sessions, SessionDialFails(s)
      PROVE  ListInv'
    BY <1>0, <1>5 DEF SessionDialFails, Goto, connVars, listVars, TableType, StateType
<1>6. ASSUME NEW s \in Sessions, SessionDials(s)
      PROVE  ListInv'
    BY <1>0, <1>6 DEF SessionDials, Goto, listVars, TableType, StateType
<1>7. ASSUME NEW s \in Sessions, SessionStartsWriter(s)
      PROVE  ListInv'
    BY <1>0, <1>7 DEF SessionStartsWriter, Goto, connVars, listVars, TableType
<1>8. ASSUME NEW s \in Sessions, SessionCloseQueue(s)
      PROVE  ListInv'
    BY <1>0, <1>8 DEF SessionCloseQueue, Goto, connVars, listVars, TableType
<1>9. ASSUME NEW s \in Sessions, SessionUnregister(s)
      PROVE  ListInv'
    BY <1>0, <1>9 DEF SessionUnregister, Goto, connVars, TableType
<1>10. ASSUME NEW s \in Sessions, SessionCloseConn(s)
      PROVE  ListInv'
    BY <1>0, <1>10 DEF SessionCloseConn, Goto, listVars, TableType, StateType
<1>11. ASSUME NEW s \in Sessions, WriterFails(s) \/ ConnFails(s)
      PROVE  ListInv'
    BY <1>0, <1>11 DEF WriterFails, ConnFails, sessionVars, listVars, TableType, StateType
<1>12. QED
    BY <1>1, <1>2, <1>3, <1>4, <1>5, <1>6, <1>7, <1>8, <1>9, <1>10, <1>11
       DEF Next, NewPacketStep, SessionStep, WriterStep, TunClose, vars, sessionVars, connVars, listVars,
           ArrivesNow, NewPacketLoaded, NewPacketBlocked, NewPacketAllowed, NewPacketQueue, NewPacketClosed,
           WriterTake, WriterWrites, WriterSeesClosed, WriterDrain,
           SetUidDumper, SetBlockedUIDs, SessionPanics,
           TunCloseDevice, TunDeviceClosed, TunCancel

-----------------------------------------------------------------------------
(* Datagrams: one lemma per step that moves one.                            *)

DatagramInv == SeenInv /\ BlockedInv /\ OnceInv /\ (OneCaller => OrderInv)

(* The numbers that datagrams, and what is known of them, are compared by. *)
LEMMA Numbers ==
    ASSUME TypeOK, SeenInv
    PROVE  /\ arrived \in Nat
           /\ \A s \in Sessions :
                 /\ queue[s] \in Seq(Packets) /\ written[s] \in Seq(Packets) /\ inHand[s] \in Nat
                 /\ Range(queue[s]) \subseteq 1..arrived /\ Range(written[s]) \subseteq 1..arrived
                 /\ inHand[s] # 0 => inHand[s] \in 1..arrived
           /\ \A c \in Callers : caller[c].pc # "idle" => caller[c].packet \in 1..arrived
<1>1. QueueType /\ CallerType
    BY TypeSplit
<1>2. arrived \in Nat /\ \A s \in Sessions : inHand[s] \in Nat
    BY <1>1, CapAssumption DEF QueueType, CallerType
<1>3. \A c \in Callers : caller[c].pc # "idle" => caller[c].packet \in 1..arrived
    BY <1>1, <1>2 DEF CallerType, SeenInv, Packets
<1>4. QED
    BY <1>1, <1>2, <1>3 DEF QueueType, SeenInv

(* A datagram that arrives is newer than all others. *)
LEMMA ArrivalKeeps ==
    ASSUME TypeOK, StartedInv, TableInv, HandInv, DatagramInv,
           NEW c \in Callers, NEW k \in Sources, NEW cl \in Classes,
           NewPacketLoaded(c, k, cl) \/ NewPacketFirst(c, k, cl)
    PROVE  DatagramInv'
<1> DEFINE n == arrived + 1
<1>0. TableType /\ QueueType /\ StateType /\ CallerType
    BY TypeSplit
<1>1. /\ arrived \in Nat
      /\ \A s \in Sessions :
            /\ Range(queue[s]) \subseteq 1..arrived /\ Range(written[s]) \subseteq 1..arrived
            /\ inHand[s] \in Nat /\ (inHand[s] # 0 => inHand[s] \in 1..arrived)
      /\ \A d \in Callers : caller[d].pc # "idle" => caller[d].packet \in 1..arrived
    BY Numbers DEF DatagramInv
<1>2. n \in Packets /\ arrived' = n /\ UNCHANGED <<queue, inHand, written, writer, released, reused>>
    BY NextNumbers DEF NewPacketLoaded, ArrivesNow, NewPacketFirst, queueVars, writerVars, bufVars
<1>3. caller'[c].pc # "idle" /\ caller'[c].packet = n
    BY <1>0 DEF NewPacketLoaded, ArrivesNow, NewPacketFirst, CallerType
<1>4. \A d \in Callers : d # c => caller'[d] = caller[d]
    BY <1>0 DEF NewPacketLoaded, ArrivesNow, NewPacketFirst, CallerType
<1>5. \A i \in 1..arrived : class'[i] = class[i] /\ i < n
    <2>1. class' = [class EXCEPT ![n] = cl]
        BY DEF NewPacketLoaded, ArrivesNow, NewPacketFirst
    <2>2. \A i \in 1..arrived : i # n /\ i < n
        BY <1>1
    <2>3. 1..arrived \subseteq Packets
        BY <1>0, CapAssumption DEF CallerType, Packets
    <2>4. QED
        BY <1>0, <2>1, <2>2, <2>3 DEF CallerType
<1>6. n \notin 1..arrived /\ n # 0 /\ 1..arrived \subseteq 1..n /\ n \in 1..n /\ arrived <= n
    BY <1>1
<1>7. class'[n] = cl
    BY <1>0, <1>2 DEF NewPacketLoaded, ArrivesNow, NewPacketFirst, CallerType
<1>8. SeenInv'
    <2>1. \A s \in Sessions : inHand[s] <= n
        BY <1>1, <1>2 DEF DatagramInv, SeenInv
    <2>2. \A d \in Callers : caller'[d].pc # "idle" => caller'[d].packet <= n
        <3>1. \A d \in Callers : d # c /\ caller[d].pc # "idle" => caller[d].packet <= n
            BY <1>1, <1>6
        <3>2. n <= n
            BY <1>1
        <3>3. QED
            BY <1>3, <1>4, <3>1, <3>2
    <2>3. QED
        BY <1>1, <1>2, <1>6, <2>1, <2>2 DEF DatagramInv, SeenInv
<1>9. BlockedInv'
    <2>1. /\ late' \subseteq late \cup {n} /\ late \subseteq late' /\ UNCHANGED setup
          /\ n \in late' => cl = "blocked" /\ setup = "done"
        <3>1. n \notin late
            BY <1>6 DEF DatagramInv, BlockedInv
        <3>2. QED
            BY <3>1 DEF NewPacketLoaded, NewPacketFirst, ArrivesNow, IsBlocked
    <2>2. \A i \in late' : i \in 1..arrived' /\ class'[i] = "blocked" /\ setup' = "done"
        BY <1>2, <1>5, <1>6, <1>7, <2>1 DEF DatagramInv, BlockedInv
    <2>3. ASSUME NEW i, i # n
          PROVE  i \in late' <=> i \in late
        BY <2>1, <2>3
    <2>4. ASSUME NEW s \in Sessions, Rejected(s)
          PROVE  Rejected(s)'
        <3>1. CASE NewPacketLoaded(c, k, cl)
            BY <2>1, <2>4, <3>1 DEF Rejected, NewPacketLoaded, tableVars, sessionVars, writerVars
        <3>2. CASE NewPacketFirst(c, k, cl)
            <4>1. started + 1 \in Sessions /\ started + 1 > started
                BY <1>0, <3>2, NextNumbers DEF NewPacketFirst, TableType
            <4>2. pc[started + 1] = "none"
                BY <1>0, <4>1 DEF StartedInv, TableType
            <4>3. s # started + 1
                BY <2>4, <4>2 DEF Rejected
            <4>4. pc'[s] = pc[s] /\ first'[s] = first[s] /\ writer'[s] = writer[s]
                BY <1>0, <1>2, <3>2, <4>3 DEF NewPacketFirst, TableType
            <4>5. QED
                BY <2>1, <2>4, <4>4 DEF Rejected
        <3>3. QED
            BY <3>1, <3>2
    <2>5. ASSUME n \in late', caller'[c].pc = "send"
          PROVE  Rejected(caller[c].session)'
        <3>1. NewPacketFirst(c, k, cl)
            BY <1>0, <2>5 DEF NewPacketLoaded, CallerType
        <3> DEFINE m == started + 1
        <3>2. m \in Sessions /\ m > started
            BY <1>0, <3>1, NextNumbers DEF NewPacketFirst, TableType
        <3>3. writer[m] = "none" /\ caller'[c].session = m
            BY <1>0, <3>1, <3>2 DEF StartedInv, NewPacketFirst, CallerType
        <3>4. first'[m] = cl /\ pc'[m] = "start"
            BY <1>0, <3>1, <3>2 DEF NewPacketFirst, TableType
        <3>5. QED
            BY <1>2, <2>1, <2>5, <3>3, <3>4 DEF Rejected
    <2> HIDE DEF n
    <2>6. ASSUME NEW s \in Sessions
          PROVE  /\ \A i \in Range(queue'[s]) : i \in late' => Rejected(s)'
                 /\ inHand'[s] \notin late'
                 /\ Range(written'[s]) \cap late' = {}
        <3>1. n \notin Range(queue[s]) /\ n \notin Range(written[s]) /\ n # inHand[s]
            BY <1>1, <1>6
        <3>2. QED
            BY <1>2, <2>3, <2>4, <3>1 DEF DatagramInv, BlockedInv
    <2>7. ASSUME NEW d \in Callers, caller'[d].pc = "send", caller'[d].packet \in late'
          PROVE  Rejected(caller[d].session)'
        <3>1. CASE d = c
            BY <1>3, <2>5, <2>7, <3>1
        <3>2. CASE d # c
            <4>1. caller[d].pc = "send" /\ caller[d].packet # n /\ caller'[d] = caller[d]
                BY <1>1, <1>4, <1>6, <2>7, <3>2
            <4>2. Rejected(caller[d].session) /\ caller[d].session \in Sessions
                BY <1>0, <2>3, <2>7, <4>1 DEF DatagramInv, BlockedInv, CallerType
            <4>3. QED
                BY <2>4, <4>1, <4>2
        <3>3. QED
            BY <3>1, <3>2
    <2>8. QED
        BY <2>2, <2>6, <2>7 DEF BlockedInv
<1> HIDE DEF n
<1>10. OnceInv'
    <2>1. \A d \in Callers, s \in Sessions : caller'[d].pc # "idle" =>
             caller'[d].packet \notin Range(queue[s]) /\ caller'[d].packet # inHand[s]
        BY <1>1, <1>3, <1>4, <1>6 DEF DatagramInv, OnceInv
    <2>2. \A d, e \in Callers : d # e /\ caller'[d].pc # "idle" /\ caller'[e].pc # "idle" =>
             caller'[d].packet # caller'[e].packet
        BY <1>1, <1>3, <1>4, <1>6 DEF DatagramInv, OnceInv
    <2>3. \A d \in Callers : caller'[d].pc # "idle" => caller'[d].packet \notin released
        BY <1>1, <1>3, <1>4, <1>6 DEF DatagramInv, OnceInv, SeenInv
    <2>4. QED
        BY <1>2, <2>1, <2>2, <2>3 DEF DatagramInv, OnceInv
<1>11. ASSUME OneCaller
       PROVE  OrderInv'
    <2>1. \A d \in Callers : d = c
        BY <1>11 DEF OneCaller
    <2>2. \A s \in Sessions : inHand[s] < n /\ \A i \in Range(queue[s]) \cup Range(written[s]) : i < n
        BY <1>1, <1>5, <1>6 DEF n
    <2>3. QED
        BY <1>2, <1>3, <1>11, <2>1, <2>2 DEF DatagramInv, OrderInv
<1>12. QED
    BY <1>8, <1>9, <1>10, <1>11 DEF DatagramInv

(* A caller that goes on to the select, or returns with its datagram released. *)
LEMMA CheckKeeps ==
    ASSUME TypeOK, DatagramInv, NEW c \in Callers,
           NewPacketAllowed(c) \/ NewPacketBlocked(c) \/ NewPacketClosed(c)
    PROVE  DatagramInv'
<1>0. CallerType /\ QueueType
    BY TypeSplit
<1>1. UNCHANGED <<queue, inHand, written, writer, first, pc, arrived, class, setup, late>>
    BY DEF NewPacketAllowed, NewPacketBlocked, NewPacketClosed, queueVars, writerVars, tableVars, sessionVars,
           setupVars
<1>2. CASE NewPacketAllowed(c)
    <2>1. /\ caller'[c].packet = caller[c].packet /\ caller'[c].session = caller[c].session
          /\ caller[c].pc # "idle" /\ caller[c].packet \notin late
          /\ \A d \in Callers : d # c => caller'[d] = caller[d]
        BY <1>0, <1>2 DEF NewPacketAllowed, CallerType, IsBlocked, DatagramInv, BlockedInv
    <2>2. UNCHANGED <<released, reused>>
        BY <1>2 DEF NewPacketAllowed, bufVars
    <2>3. SeenInv'
        BY <1>1, <2>1, <2>2 DEF DatagramInv, SeenInv
    <2>4. BlockedInv'
        BY <1>1, <2>1 DEF DatagramInv, BlockedInv, Rejected
    <2>5. OnceInv'
        BY <1>1, <2>1, <2>2 DEF DatagramInv, OnceInv
    <2>6. OneCaller => OrderInv'
        BY <1>1, <2>1 DEF DatagramInv, OrderInv
    <2>7. QED
        BY <2>3, <2>4, <2>5, <2>6 DEF DatagramInv
<1>3. CASE NewPacketBlocked(c) \/ NewPacketClosed(c)
    <2> DEFINE i == caller[c].packet
    <2>1. /\ caller[c].pc # "idle" /\ caller'[c].pc = "idle"
          /\ \A d \in Callers : d # c => caller'[d] = caller[d]
        BY <1>0, <1>3 DEF NewPacketBlocked, NewPacketClosed, CallerType, Away
    <2>2. i \in 1..arrived
        BY <2>1, Numbers DEF DatagramInv
    <2>3. released' = released \cup {i} /\ ~reused'
        BY <1>3, <2>1 DEF NewPacketBlocked, NewPacketClosed, Release, DatagramInv, OnceInv
    <2>4. SeenInv'
        BY <1>1, <2>1, <2>2, <2>3 DEF DatagramInv, SeenInv
    <2>5. BlockedInv'
        BY <1>1, <2>1 DEF DatagramInv, BlockedInv, Rejected
    <2>6. OnceInv'
        BY <1>1, <2>1, <2>3 DEF DatagramInv, OnceInv
    <2>7. OneCaller => OrderInv'
        BY <1>1, <2>1 DEF DatagramInv, OrderInv
    <2>8. QED
        BY <2>4, <2>5, <2>6, <2>7 DEF DatagramInv
<1>4. QED
    BY <1>2, <1>3

(* A caller hands its datagram, the newest if it is the only one, to a queue. *)
LEMMA QueueKeeps ==
    ASSUME TypeOK, DatagramInv, NEW c \in Callers, NewPacketQueue(c)
    PROVE  DatagramInv'
<1> DEFINE i == caller[c].packet
           t == caller[c].session
<1>0. CallerType /\ QueueType
    BY TypeSplit
<1>1. caller[c].pc = "send" /\ i \in Packets /\ i \in 1..arrived /\ i # 0 /\ t \in Sessions
    BY <1>0, Numbers DEF NewPacketQueue, CallerType, DatagramInv, Packets
<1>2. UNCHANGED <<inHand, written, writer, first, pc, arrived, class, released, reused, setup, late>>
    BY DEF NewPacketQueue, writerVars, tableVars, sessionVars, bufVars, setupVars
<1>3. caller'[c].pc = "idle" /\ \A d \in Callers : d # c => caller'[d] = caller[d]
    BY <1>0 DEF NewPacketQueue, CallerType, Away
<1>4. queue'[t] = Append(queue[t], i) /\ \A s \in Sessions : s # t => queue'[s] = queue[s]
    BY <1>0, <1>1 DEF NewPacketQueue, QueueType
<1>5. /\ Range(queue'[t]) = Range(queue[t]) \cup {i}
      /\ Once(queue[t]) /\ i \notin Range(queue[t]) => Once(queue'[t])
      /\ Increasing(queue[t]) /\ (\A j \in Range(queue[t]) : j < i) => Increasing(queue'[t])
    BY <1>0, <1>1, <1>4, AppendFacts DEF QueueType
<1>6. \A s \in Sessions : \A j : j \in Range(queue'[s]) <=> j \in Range(queue[s]) \/ (s = t /\ j = i)
    BY <1>4, <1>5
<1>7. SeenInv'
    BY <1>1, <1>2, <1>3, <1>6 DEF DatagramInv, SeenInv
<1>8. BlockedInv'
    <2>1. i \in late => Rejected(t)
        BY <1>1 DEF DatagramInv, BlockedInv
    <2> HIDE DEF i, t
    <2>2. \A s \in Sessions : \A j \in Range(queue'[s]) : j \in late => Rejected(s)
        BY <1>6, <2>1 DEF DatagramInv, BlockedInv
    <2>3. \A d \in Callers : caller'[d].pc = "send" => caller[d].pc = "send" /\ caller'[d] = caller[d]
        BY <1>3
    <2>4. QED
        BY <1>2, <2>2, <2>3 DEF DatagramInv, BlockedInv, Rejected
<1>9. OnceInv'
    <2>1. /\ \A s \in Sessions : i \notin Range(queue[s]) /\ i # inHand[s]
          /\ \A d \in Callers : d # c /\ caller[d].pc # "idle" => caller[d].packet # i
          /\ i \notin released
        BY <1>1 DEF DatagramInv, OnceInv
    <2> HIDE DEF i, t
    <2>2. \A s \in Sessions : Once(queue'[s])
        BY <1>4, <1>5, <2>1 DEF DatagramInv, OnceInv
    <2>3. \A s, u \in Sessions :
              /\ inHand[s] \notin Range(queue'[u])
              /\ s # u => Range(queue'[s]) \cap Range(queue'[u]) = {}
        BY <1>6, <2>1 DEF DatagramInv, OnceInv
    <2>4. \A d \in Callers, s \in Sessions : caller'[d].pc # "idle" => caller'[d].packet \notin Range(queue'[s])
        BY <1>3, <1>6, <2>1 DEF DatagramInv, OnceInv
    <2>5. \A s \in Sessions : released \cap Range(queue'[s]) = {}
        BY <1>6, <2>1 DEF DatagramInv, OnceInv
    <2>6. QED
        BY <1>2, <1>3, <2>2, <2>3, <2>4, <2>5 DEF DatagramInv, OnceInv
<1>10. ASSUME OneCaller
      PROVE  OrderInv'
    <2>1. \A s \in Sessions : inHand[s] < i /\ \A j \in Range(queue[s]) \cup Range(written[s]) : j < i
        BY <1>1, <1>10 DEF DatagramInv, OrderInv
    <2>2. \A d \in Callers : caller'[d].pc = "idle"
        BY <1>3, <1>10 DEF OneCaller
    <2> HIDE DEF i, t
    <2>3. QED
        BY <1>2, <1>4, <1>5, <1>10, <2>1, <2>2 DEF DatagramInv, OrderInv
<1>11. QED
    BY <1>7, <1>8, <1>9, <1>10 DEF DatagramInv

(* The writer takes the oldest datagram of its queue, to write it or to drop it. *)
LEMMA TakeKeeps ==
    ASSUME TypeOK, DatagramInv, NEW s \in Sessions, WriterTake(s) \/ WriterDrain(s)
    PROVE  DatagramInv'
<1> DEFINE i == Head(queue[s])
<1>0. QueueType /\ StateType
    BY TypeSplit
<1>1. /\ i \in Packets /\ i # 0
      /\ Range(queue[s]) = {i} \cup Range(Tail(queue[s]))
      /\ Once(queue[s]) => Once(Tail(queue[s])) /\ i \notin Range(Tail(queue[s]))
      /\ Increasing(queue[s]) =>
            Increasing(Tail(queue[s])) /\ \A j \in Range(Tail(queue[s])) : i < j
    BY <1>0, TailFacts DEF WriterTake, WriterDrain, QueueType, Packets
<1>2. UNCHANGED <<caller, written, first, pc, arrived, class, setup, late>>
    BY DEF WriterTake, WriterDrain, writerVars, tableVars, sessionVars, callerVars, setupVars
<1>3. queue'[s] = Tail(queue[s]) /\ \A t \in Sessions : t # s => queue'[t] = queue[t]
    BY <1>0 DEF WriterTake, WriterDrain, QueueType
<1>4. i \in 1..arrived
    BY <1>1 DEF DatagramInv, SeenInv
<1>5. CASE WriterTake(s)
    <2>1. inHand'[s] = i /\ \A t \in Sessions : t # s => inHand'[t] = inHand[t]
        BY <1>0, <1>5 DEF WriterTake, QueueType
    <2>2. /\ writer[s] = "select" /\ UNCHANGED <<released, reused>>
          /\ \A t \in Sessions : t # s => writer'[t] = writer[t]
        BY <1>0, <1>5 DEF WriterTake, StateType, bufVars
    <2>3. SeenInv'
        BY <1>1, <1>2, <1>3, <1>4, <2>1, <2>2 DEF DatagramInv, SeenInv
    <2>4. BlockedInv'
        <3>1. i \notin late /\ ~Rejected(s)
            BY <1>1, <2>2 DEF DatagramInv, BlockedInv, Rejected
        <3> HIDE DEF i
        <3>2. \A t \in Sessions : Rejected(t) => Rejected(t)'
            BY <1>2, <2>2, <3>1 DEF Rejected
        <3>3. \A t \in Sessions : Range(queue'[t]) \subseteq Range(queue[t])
            BY <1>1, <1>3
        <3>4. \A t \in Sessions : \A j \in Range(queue'[t]) : j \in late => Rejected(t)'
            BY <3>2, <3>3 DEF DatagramInv, BlockedInv
        <3>5. \A t \in Sessions : inHand'[t] \notin late
            BY <2>1, <3>1 DEF DatagramInv, BlockedInv
        <3>6. ASSUME NEW c \in Callers, caller[c].pc = "send", caller[c].packet \in late
              PROVE  Rejected(caller[c].session)'
            <4>1. caller[c].session \in Sessions
                BY <3>6, TypeSplit DEF CallerType
            <4>2. Rejected(caller[c].session)
                BY <3>6 DEF DatagramInv, BlockedInv
            <4>3. QED
                BY <1>2, <3>2, <4>1, <4>2
        <3>7. QED
            BY <1>2, <3>4, <3>5, <3>6 DEF DatagramInv, BlockedInv
    <2>5. OnceInv'
        <3>1. Once(queue[s])
            BY DEF DatagramInv, OnceInv
        <3>2. /\ \A t \in Sessions : inHand[t] # i /\ (t # s => i \notin Range(queue[t]))
              /\ \A c \in Callers : caller[c].pc # "idle" => caller[c].packet # i
              /\ i \notin released
            BY <1>1 DEF DatagramInv, OnceInv
        <3> HIDE DEF i
        <3>3. \A t \in Sessions : Once(queue'[t])
            BY <1>1, <1>3, <3>1 DEF DatagramInv, OnceInv
        <3>4. \A t \in Sessions : Range(queue'[t]) \subseteq Range(queue[t]) /\ i \notin Range(queue'[t])
            BY <1>1, <1>3, <3>1, <3>2
        <3>5. \A t, u \in Sessions :
                  /\ inHand'[t] \notin Range(queue'[u])
                  /\ t # u => Range(queue'[t]) \cap Range(queue'[u]) = {} /\ (inHand'[t] = inHand'[u] => inHand'[t] = 0)
            <4>1. \A t, u \in Sessions : inHand'[t] \notin Range(queue'[u])
                BY <2>1, <3>4 DEF DatagramInv, OnceInv
            <4>2. \A t, u \in Sessions : t # u => Range(queue'[t]) \cap Range(queue'[u]) = {}
                BY <3>4 DEF DatagramInv, OnceInv
            <4>3. \A t, u \in Sessions : t # u => (inHand'[t] = inHand'[u] => inHand'[t] = 0)
                BY <2>1, <3>2 DEF DatagramInv, OnceInv
            <4>4. QED
                BY <4>1, <4>2, <4>3
        <3>6. \A c \in Callers, t \in Sessions : caller[c].pc # "idle" =>
                  caller[c].packet \notin Range(queue'[t]) /\ caller[c].packet # inHand'[t]
            BY <2>1, <3>2, <3>4 DEF DatagramInv, OnceInv
        <3>7. \A t \in Sessions : released \cap Range(queue'[t]) = {} /\ inHand'[t] \notin released
            BY <2>1, <3>2, <3>4 DEF DatagramInv, OnceInv
        <3>8. QED
            BY <1>2, <2>2, <3>3, <3>5, <3>6, <3>7 DEF DatagramInv, OnceInv
    <2>6. ASSUME OneCaller
          PROVE  OrderInv'
        <3> HIDE DEF i
        <3>1. Increasing(Tail(queue[s])) /\ \A j \in Range(Tail(queue[s])) : i < j
            BY <1>1, <2>6 DEF DatagramInv, OrderInv
        <3>2. QED
            BY <1>1, <1>2, <1>3, <2>1, <2>6, <3>1 DEF DatagramInv, OrderInv
    <2>7. QED
        BY <2>3, <2>4, <2>5, <2>6 DEF DatagramInv
<1>6. CASE WriterDrain(s)
    <2>1. UNCHANGED <<inHand, writer>> /\ released' = released \cup {i}
        BY <1>6 DEF WriterDrain, Release, writerVars
    <2>2. ~reused'
        BY <1>1, <1>6 DEF WriterDrain, Release, DatagramInv, OnceInv
    <2> HIDE DEF i
    <2>3. SeenInv'
        BY <1>1, <1>2, <1>3, <1>4, <2>1 DEF DatagramInv, SeenInv
    <2>4. BlockedInv'
        BY <1>1, <1>2, <1>3, <2>1 DEF DatagramInv, BlockedInv, Rejected
    <2>5. OnceInv'
        <3>1. Once(queue[s])
            BY DEF DatagramInv, OnceInv
        <3>2. /\ \A t \in Sessions : inHand[t] # i /\ (t # s => i \notin Range(queue[t]))
              /\ \A c \in Callers : caller[c].pc # "idle" => caller[c].packet # i
            BY <1>1 DEF DatagramInv, OnceInv
        <3>3. \A t \in Sessions : Once(queue'[t])
            BY <1>1, <1>3, <3>1 DEF DatagramInv, OnceInv
        <3>4. \A t \in Sessions : Range(queue'[t]) \subseteq Range(queue[t]) /\ i \notin Range(queue'[t])
            BY <1>1, <1>3, <3>1, <3>2
        <3>5. \A t, u \in Sessions :
                  /\ inHand[t] \notin Range(queue'[u])
                  /\ t # u => Range(queue'[t]) \cap Range(queue'[u]) = {}
            BY <3>4 DEF DatagramInv, OnceInv
        <3>6. \A t \in Sessions : released' \cap Range(queue'[t]) = {} /\ inHand[t] \notin released'
            BY <2>1, <3>2, <3>4 DEF DatagramInv, OnceInv
        <3>7. \A c \in Callers : caller[c].pc # "idle" =>
                  caller[c].packet \notin released' /\ \A t \in Sessions : caller[c].packet \notin Range(queue'[t])
            BY <2>1, <3>2, <3>4 DEF DatagramInv, OnceInv
        <3>8. QED
            BY <1>2, <2>1, <2>2, <3>3, <3>5, <3>6, <3>7 DEF DatagramInv, OnceInv
    <2>6. ASSUME OneCaller
          PROVE  OrderInv'
        BY <1>1, <1>2, <1>3, <2>1, <2>6 DEF DatagramInv, OrderInv
    <2>7. QED
        BY <2>3, <2>4, <2>5, <2>6 DEF DatagramInv
<1>7. QED
    BY <1>5, <1>6

(* The writer writes what it holds, or fails to, and releases it. *)
LEMMA WriteKeeps ==
    ASSUME TypeOK, HandInv, DatagramInv, NEW s \in Sessions, WriterWrites(s) \/ WriterFails(s)
    PROVE  DatagramInv'
<1> DEFINE i == inHand[s]
<1>0. QueueType /\ StateType
    BY TypeSplit
<1>1. writer[s] = "write" /\ i # 0 /\ i \in 1..arrived /\ i \in Packets
    <2>1. writer[s] = "write" /\ i # 0
        BY DEF WriterWrites, WriterFails, HandInv
    <2>2. QED
        BY <1>0, <2>1, Numbers, CapAssumption DEF DatagramInv, QueueType, Packets
<1>2. UNCHANGED <<caller, queue, first, pc, arrived, class, setup, late>>
    BY DEF WriterWrites, WriterFails, queueVars, tableVars, sessionVars, callerVars, setupVars
<1>3. inHand'[s] = 0 /\ \A t \in Sessions : t # s => inHand'[t] = inHand[t]
    BY <1>0 DEF WriterWrites, WriterFails, QueueType
<1>4. released' = released \cup {i} /\ ~reused'
    BY <1>1 DEF WriterWrites, WriterFails, Release, DatagramInv, OnceInv
<1>5. /\ Range(written'[s]) \subseteq Range(written[s]) \cup {i}
      /\ \A t \in Sessions : t # s => written'[t] = written[t]
      /\ Increasing(written[s]) /\ (\A j \in Range(written[s]) : j < i) => Increasing(written'[s])
    <2>1. CASE WriterWrites(s)
        <3>1. written'[s] = Append(written[s], i) /\ \A t \in Sessions : t # s => written'[t] = written[t]
            BY <1>0, <2>1 DEF WriterWrites, QueueType
        <3>2. written[s] \in Seq(Packets)
            BY <1>0 DEF QueueType
        <3>3. /\ Range(Append(written[s], i)) = Range(written[s]) \cup {i}
              /\ Increasing(written[s]) /\ (\A j \in Range(written[s]) : j < i) =>
                    Increasing(Append(written[s], i))
            BY <1>1, <3>2, AppendFacts
        <3>4. QED
            BY <3>1, <3>3
    <2>2. CASE WriterFails(s)
        <3>1. UNCHANGED written
            BY <2>2 DEF WriterFails
        <3>2. QED
            BY <3>1
    <2>3. QED
        BY <2>1, <2>2
<1>6. \A t \in Sessions : Rejected(t) => writer'[t] = writer[t]
    BY <1>0, <1>1 DEF WriterWrites, WriterFails, StateType, Rejected
<1>7. SeenInv'
    <2>1. \A t \in Sessions : Range(written'[t]) \subseteq 1..arrived
        BY <1>1, <1>5 DEF DatagramInv, SeenInv
    <2>2. \A t \in Sessions : inHand'[t] <= arrived
        BY <1>3, Numbers DEF DatagramInv, SeenInv
    <2>3. QED
        BY <1>1, <1>2, <1>4, <2>1, <2>2 DEF DatagramInv, SeenInv
<1>8. BlockedInv'
    <2>1. i \notin late
        BY DEF DatagramInv, BlockedInv
    <2> HIDE DEF i
    <2>2. \A t \in Sessions : Range(written'[t]) \cap late = {}
        BY <1>5, <2>1 DEF DatagramInv, BlockedInv
    <2>3. \A t \in Sessions : Rejected(t) => Rejected(t)'
        BY <1>2, <1>6 DEF Rejected
    <2>4. \A c \in Callers : caller[c].pc = "send" => caller[c].session \in Sessions
        BY TypeSplit DEF CallerType
    <2>5. \A t \in Sessions : inHand'[t] \notin late
        <3>1. 0 \notin late
            BY Numbers DEF DatagramInv, BlockedInv
        <3>2. QED
            BY <1>3, <3>1 DEF DatagramInv, BlockedInv
    <2>6. QED
        BY <1>2, <2>2, <2>3, <2>4, <2>5 DEF DatagramInv, BlockedInv
<1>9. OnceInv'
    <2>1. /\ \A t \in Sessions : i \notin Range(queue[t]) /\ (t # s => inHand[t] # i)
          /\ \A c \in Callers : caller[c].pc # "idle" => caller[c].packet # i
        BY <1>1 DEF DatagramInv, OnceInv
    <2>2. 0 \notin 1..arrived /\ \A t \in Sessions : Range(queue[t]) \subseteq 1..arrived
        BY Numbers DEF DatagramInv
    <2>3. /\ 0 \notin released' /\ \A t \in Sessions : 0 \notin Range(queue[t])
          /\ \A c \in Callers : caller[c].pc # "idle" => caller[c].packet # 0
        BY <1>1, <1>4, <2>2, Numbers DEF DatagramInv, SeenInv
    <2> HIDE DEF i
    <2>4. \A t, u \in Sessions :
              /\ inHand'[t] \notin Range(queue[u])
              /\ t # u => (inHand'[t] = inHand'[u] => inHand'[t] = 0)
        BY <1>3, <2>3 DEF DatagramInv, OnceInv
    <2>5. \A c \in Callers, t \in Sessions : caller[c].pc # "idle" => caller[c].packet # inHand'[t]
        BY <1>3, <2>3 DEF DatagramInv, OnceInv
    <2>6. \A t \in Sessions : released' \cap Range(queue[t]) = {} /\ inHand'[t] \notin released'
        BY <1>3, <1>4, <2>1, <2>3 DEF DatagramInv, OnceInv
    <2>7. \A c \in Callers : caller[c].pc # "idle" => caller[c].packet \notin released'
        BY <1>4, <2>1 DEF DatagramInv, OnceInv
    <2>8. QED
        BY <1>2, <1>4, <2>4, <2>5, <2>6, <2>7 DEF DatagramInv, OnceInv
<1>10. ASSUME OneCaller
       PROVE  OrderInv'
    <2>1. /\ \A j \in Range(written[s]) : j < i
          /\ \A j \in Range(queue[s]) : i < j
          /\ \A c \in Callers : caller[c].pc # "idle" => i < caller[c].packet
        BY <1>1, <1>10 DEF DatagramInv, OrderInv
    <2>2. \A t \in Sessions : Range(queue[t]) \subseteq 1..arrived
        BY DEF DatagramInv, SeenInv
    <2>3. /\ \A t \in Sessions : \A j \in Range(queue[t]) : 0 < j
          /\ \A c \in Callers : caller[c].pc # "idle" => 0 < caller[c].packet
        <3>1. \A j \in 1..arrived : 0 < j
            BY Numbers DEF DatagramInv
        <3>2. QED
            BY <2>2, <3>1, Numbers DEF DatagramInv
    <2> HIDE DEF i
    <2>4. ASSUME NEW t \in Sessions
          PROVE  /\ Increasing(written'[t]) /\ Increasing(queue[t])
                 /\ \A j \in Range(written'[t]) :
                       (inHand'[t] # 0 => j < inHand'[t]) /\ \A k \in Range(queue[t]) : j < k
                 /\ \A j \in Range(queue[t]) : inHand'[t] < j
                 /\ \A c \in Callers : caller[c].pc # "idle" =>
                       /\ inHand'[t] < caller[c].packet
                       /\ \A j \in Range(queue[t]) \cup Range(written'[t]) : j < caller[c].packet
        <3>1. CASE t = s
            BY <1>3, <1>5, <1>10, <2>1, <2>3, <3>1 DEF DatagramInv, OrderInv
        <3>2. CASE t # s
            BY <1>3, <1>5, <1>10, <3>2 DEF DatagramInv, OrderInv
        <3>3. QED
            BY <3>1, <3>2
    <2>5. QED
        BY <1>2, <2>4 DEF OrderInv
<1>11. QED
    BY <1>7, <1>8, <1>9, <1>10 DEF DatagramInv

(* A step of the session itself moves no datagram; only a session that was  *)
(* let through its checks dials and starts a writer.                        *)
LEMMA SessionKeeps ==
    ASSUME TypeOK, DatagramInv, NEW s \in Sessions,
           SessionStep(s) \/ SessionStartsWriter(s) \/ SessionWriteBackFails(s) \/ WriterSeesClosed(s)
    PROVE  DatagramInv'
<1>0. TableType /\ StateType
    BY TypeSplit
<1>1. UNCHANGED <<queue, inHand, written, caller, arrived, class, released, reused, first, setup, late>>
    BY DEF SessionStep, SessionReject, SessionPasses, SessionRegister, SessionDialFails, SessionDials,
           SessionStartsWriter, SessionReadFails, SessionWriteBackFails, SessionDelete,
           SessionCloseQueue, SessionUnregister, SessionCloseConn, WriterSeesClosed,
           tableVars, queueVars, writerVars, callerVars, bufVars, setupVars
<1>2. SeenInv' /\ OnceInv' /\ (OneCaller => OrderInv')
    BY <1>1 DEF DatagramInv, SeenInv, OnceInv, OrderInv
<1>3. \A t \in Sessions : t # s => pc'[t] = pc[t] /\ writer'[t] = writer[t]
    BY <1>0
       DEF SessionStep, SessionReject, SessionPasses, SessionRegister, SessionDialFails, SessionDials,
           SessionStartsWriter, SessionReadFails, SessionWriteBackFails, SessionDelete,
           SessionCloseQueue, SessionUnregister, SessionCloseConn, WriterSeesClosed, Goto,
           writerVars, sessionVars, TableType, StateType
<1>4. ASSUME Rejected(s)
      PROVE  Rejected(s)'
    <2>1. CASE SessionReject(s) \/ SessionDelete(s) \/ SessionCloseQueue(s) \/ SessionUnregister(s) \/ SessionCloseConn(s)
        <3>1. pc'[s] \in {"delete", "closeQueue", "unregister", "closeConn", "done"} /\ UNCHANGED writer
            BY <1>0, <2>1
               DEF SessionReject, SessionDelete, SessionCloseQueue, SessionUnregister, SessionCloseConn,
                   Goto, TableType, writerVars
        <3>2. QED
            BY <1>1, <1>4, <3>1 DEF Rejected
    <2>2. CASE SessionPasses(s)
        BY <1>4, <2>2 DEF SessionPasses, IsBlocked, Rejected
    <2>3. CASE \/ SessionRegister(s) \/ SessionDialFails(s) \/ SessionDials(s) \/ SessionStartsWriter(s)
               \/ SessionReadFails(s) \/ SessionWriteBackFails(s) \/ WriterSeesClosed(s)
        BY <1>4, <2>3
           DEF SessionRegister, SessionDialFails, SessionDials, SessionStartsWriter, SessionReadFails,
               SessionWriteBackFails, WriterSeesClosed, Goto, Rejected
    <2>4. QED
        BY <2>1, <2>2, <2>3 DEF SessionStep
<1>5. BlockedInv'
    <2>1. \A t \in Sessions : Rejected(t) => Rejected(t)'
        BY <1>1, <1>3, <1>4 DEF Rejected
    <2>2. \A c \in Callers : caller[c].pc = "send" => caller[c].session \in Sessions
        BY TypeSplit DEF CallerType
    <2>3. QED
        BY <1>1, <2>1, <2>2 DEF DatagramInv, BlockedInv
<1>6. QED
    BY <1>2, <1>5 DEF DatagramInv

(* Setting uidDumper or blockedUIDs moves no datagram, and none of those     *)
(* that arrived earlier is in late.                                          *)
LEMMA SetupKeeps ==
    ASSUME TypeOK, DatagramInv, SetUidDumper \/ SetBlockedUIDs
    PROVE  DatagramInv'
<1>1. UNCHANGED <<queue, inHand, written, caller, arrived, class, released, reused, late>>
    BY DEF SetUidDumper, SetBlockedUIDs, queueVars, writerVars, callerVars, bufVars
<1>2. SeenInv' /\ OnceInv' /\ (OneCaller => OrderInv')
    BY <1>1 DEF DatagramInv, SeenInv, OnceInv, OrderInv
<1>3. late = {}
    BY DEF SetUidDumper, SetBlockedUIDs, DatagramInv, BlockedInv
<1>4. BlockedInv'
    BY <1>1, <1>3 DEF BlockedInv
<1>5. QED
    BY <1>2, <1>4 DEF DatagramInv

LEMMA DatagramInductive ==
    ASSUME TypeOK, StartedInv, TableInv, HandInv, DatagramInv, [Next]_vars
    PROVE  DatagramInv'
<1>1. CASE UNCHANGED <<queue, inHand, written, caller, arrived, class, released, reused, first, pc, writer,
                       setup, late>>
    BY <1>1 DEF DatagramInv, SeenInv, BlockedInv, Rejected, OnceInv, OrderInv
<1>2. ASSUME NEW c \in Callers, NEW k \in Sources, NEW cl \in Classes,
             NewPacketLoaded(c, k, cl) \/ NewPacketFirst(c, k, cl)
      PROVE  DatagramInv'
    BY <1>2, ArrivalKeeps
<1>3. ASSUME NEW c \in Callers, NewPacketStep(c)
      PROVE  DatagramInv'
    BY <1>3, CheckKeeps, QueueKeeps DEF NewPacketStep
<1>4. ASSUME NEW s \in Sessions, SessionStep(s) \/ SessionStartsWriter(s) \/ SessionWriteBackFails(s)
      PROVE  DatagramInv'
    BY <1>4, SessionKeeps
<1>5. ASSUME NEW s \in Sessions, WriterStep(s)
      PROVE  DatagramInv'
    BY <1>5, TakeKeeps, WriteKeeps, SessionKeeps DEF WriterStep
<1>6. CASE SetUidDumper \/ SetBlockedUIDs
    BY <1>6, SetupKeeps
<1>7. QED
    BY <1>1, <1>2, <1>3, <1>4, <1>5, <1>6
       DEF Next, TunClose, vars, setupVars, tableVars, sessionVars, queueVars, writerVars, callerVars,
           bufVars, SessionPanics,
           TunCloseDevice, TunDeviceClosed, TunCancel, ConnFails

-----------------------------------------------------------------------------
(* The theorems.                                                            *)

LEMMA InitIInv ==
    ASSUME Init
    PROVE  IInv
<1> USE CapAssumption, EmptyFacts DEF Init
<1>1. TableType
    <2> DEFINE k0 == CHOOSE k \in Sources : TRUE
    <2>1. k0 \in Sources /\ key = [s \in Sessions |-> k0]
        BY SourcesAssumption
    <2> HIDE DEF k0
    <2>2. key \in [Sessions -> Sources]
        BY <2>1
    <2>3. udpTable \in [Sources -> 0..MaxSessions] /\ started \in 0..MaxSessions
        BY CapAssumption DEF Init
    <2>4. first \in [Sessions -> Classes] /\ pc \in [Sessions -> SessionPlaces]
        BY DEF Init, SessionPlaces, Classes
    <2>5. QED
        BY <2>2, <2>3, <2>4 DEF TableType
<1>2. QueueType
    BY DEF QueueType
<1>3. StateType
    BY DEF StateType
<1>4. CallerType
    <2> DEFINE CallerRecord ==
                   [pc : {"idle", "check", "send"}, packet : 0..MaxPackets, session : 0..MaxSessions]
    <2>1. Away \in CallerRecord /\ Away.pc = "idle"
        BY DEF Away
    <2> HIDE DEF CallerRecord
    <2>2. caller \in [Callers -> CallerRecord] /\ \A c \in Callers : caller[c].pc = "idle"
        BY <2>1
    <2>3. class \in [Packets -> Classes] /\ arrived \in 0..MaxPackets
        BY DEF Classes
    <2>4. released \subseteq Packets /\ reused \in BOOLEAN
        OBVIOUS
    <2>5. QED
        BY <2>2, <2>3, <2>4 DEF CallerType, CallerRecord
<1>5. TypeOK
    <2>1. SetupType
        BY DEF SetupType
    <2>2. QED
        BY <2>1, <1>1, <1>2, <1>3, <1>4, TypeSplit
<1>6. StartedInv
    BY DEF StartedInv, Away, Sessions
<1>7. TableInv /\ ListInv /\ HandInv
    BY DEF TableInv, ListInv, HandInv, Serving
<1>8. SeenInv
    BY DEF SeenInv, Away
<1>9. BlockedInv
    BY DEF BlockedInv, Away, Rejected
<1>10. OnceInv
    BY DEF OnceInv, Away
<1>11. OrderInv
    BY DEF OrderInv, Away
<1>12. QED
    BY <1>5, <1>6, <1>7, <1>8, <1>9, <1>10, <1>11 DEF IInv

LEMMA NextIInv ==
    ASSUME IInv, [Next]_vars
    PROVE  IInv'
<1>1. DatagramInv
    BY DEF IInv, DatagramInv
<1>2. TypeOK' /\ HandInv'
    BY TypeInductive, HandInductive DEF IInv
<1>3. StartedInv' /\ TableInv' /\ ListInv'
    BY StartedInductive, TableInductive, ListInductive DEF IInv
<1>4. DatagramInv'
    BY <1>1, DatagramInductive DEF IInv
<1>5. QED
    BY <1>2, <1>3, <1>4 DEF IInv, DatagramInv, OneCaller

LEMMA Invariance == Spec => []IInv
BY InitIInv, NextIInv, PTL DEF Spec

(* The variables have their types, and no queue holds more than its channel. *)
THEOREM TypeCorrect == Spec => []TypeOK
<1>1. IInv => TypeOK
    BY DEF IInv
<1>2. QED
    BY Invariance, <1>1, PTL

(* newPacket's unconditional delete(t.udpTable, natKey) only ever removes the *)
(* queue of the session that runs it; a source has at most one session that   *)
(* serves it, however many follow one another; and a session that has         *)
(* returned is in connections only if its dial failed.                        *)
THEOREM TableOwnedAlways == Spec => []TableOwned
<1>1. IInv => TableOwned
    <2> SUFFICES ASSUME IInv, NEW s \in Sessions
                 PROVE  /\ pc[s] \in Serving <=> udpTable[key[s]] = s /\ s <= started
                        /\ s \in connections /\ pc[s] = "done" => failedDial[s]
        BY DEF TableOwned
    <2>1. key[s] \in Sources /\ s # 0
        <3>1. TableType
            BY TypeSplit DEF IInv
        <3>2. QED
            BY <3>1 DEF TableType, Sessions
    <2>2. ASSUME pc[s] \in Serving
          PROVE  udpTable[key[s]] = s /\ s <= started
        BY <2>2 DEF IInv, TableInv, StartedInv, Serving
    <2>3. ASSUME udpTable[key[s]] = s
          PROVE  pc[s] \in Serving
        BY <2>1, <2>3 DEF IInv, TableInv
    <2>4. s \in connections /\ pc[s] = "done" => failedDial[s]
        BY DEF IInv, ListInv
    <2>5. QED
        BY <2>2, <2>3, <2>4
<1>2. QED
    BY Invariance, <1>1, PTL

(* A datagram of a blocked UID that arrives once NewTun2ray has set          *)
(* blockedUIDs may be queued before newPacket has checked the first one, or  *)
(* meet a session that a blocked app opened before, but no conn ever accepts *)
(* it.                                                                       *)
THEOREM BlockedNeverWrittenAlways == Spec => []BlockedNeverWritten
<1>1. IInv => BlockedNeverWritten
    <2> SUFFICES ASSUME IInv, NEW s \in Sessions, NEW i \in 1..Len(written[s])
                 PROVE  written[s][i] \notin late
        BY DEF BlockedNeverWritten
    <2>1. Range(written[s]) = {written[s][j] : j \in 1..Len(written[s])}
        BY RangeEquality DEF IInv, TypeOK
    <2>2. QED
        BY <2>1 DEF IInv, BlockedInv
<1>2. QED
    BY Invariance, <1>1, PTL

(* The buffer of a datagram is released at most once, and by then neither a  *)
(* caller, nor a queue, nor a writer holds it.                               *)
THEOREM BufferOwnedAlways == Spec => []BufferOwned
<1>1. IInv => BufferOwned
    <2> SUFFICES ASSUME IInv, NEW i \in released, Held(i)
                 PROVE  FALSE
        BY DEF BufferOwned, IInv, OnceInv
    <2>1. CASE \E c \in Callers : caller[c].pc # "idle" /\ caller[c].packet = i
        BY <2>1 DEF IInv, OnceInv
    <2>2. ASSUME NEW s \in Sessions, inHand[s] = i
          PROVE  FALSE
        BY <2>2 DEF IInv, OnceInv
    <2>3. ASSUME NEW s \in Sessions, NEW j \in 1..Len(queue[s]), queue[s][j] = i
          PROVE  FALSE
        <3>1. Range(queue[s]) = {queue[s][k] : k \in 1..Len(queue[s])}
            BY RangeEquality DEF IInv, TypeOK
        <3>2. QED
            BY <2>3, <3>1 DEF IInv, OnceInv
    <2>4. QED
        BY <2>1, <2>2, <2>3 DEF Held
<1>2. QED
    BY Invariance, <1>1, PTL

(* With the one device loop of a tun, a session's conn is given the app's    *)
(* datagrams in the order in which NewPacket got them, none twice.           *)
THEOREM WrittenInOrderAlways ==
    ASSUME OneCaller
    PROVE  Spec => []WrittenInOrder
<1>1. IInv => WrittenInOrder
    BY OneCaller DEF IInv, OrderInv, Increasing, WrittenInOrder
<1>2. QED
    BY Invariance, <1>1, PTL

=============================================================================
