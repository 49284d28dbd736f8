---------------------------- MODULE AppStatsProofs ----------------------------
(***************************************************************************)
(* Proofs about AppStats, for any number of connections, pollers, bytes    *)
(* and calls from the Android side: the types, that the counters of a      *)
(* record count its connections, that a record nobody uses any more is     *)
(* stamped, that no byte is lost between the counters, and that the        *)
(* process panics only after a ResetAppTraffics.                           *)
(*                                                                         *)
(* The inductive invariant adds that a handler has no record before it     *)
(* loads or makes one (RecInv); who is about to stamp a record that all    *)
(* have left (LastInv); and that without a reset the record is in appStats *)
(* when its maker wakes the others (EntryInv).                             *)
(***************************************************************************)
EXTENDS AppStats, FiniteSetTheorems, WellFoundedInduction, TLAPS

Acquiring == {"load", "lock", "store", "wait", "parked", "woken"}
Leaving == {"check", "stamp", "done"}

(* A handler that looks for its record has none; those left out of the cast *)
(* take no step.                                                            *)
RecInv ==
    \A h \in Handlers :
        /\ pc[h] \in Acquiring \cup {"panicked"} => rec[h] = None
        /\ pc[h] = "panicked" => crashed
        /\ h \notin cast.handlers => pc[h] = "done" /\ rec[h] = None

(* When all who used a record have decremented its counters, it is stamped, *)
(* or one of them is about to: to store the stamp, or to load the other     *)
(* counter having decremented its own to zero.                              *)
LastInv ==
    \A x \in Handlers :
        /\ \E h \in Handlers : rec[h] = x
        /\ \A h \in Handlers : rec[h] = x => pc[h] \in Leaving
        => \/ stamped[x]
           \/ \E h \in Handlers : rec[h] = x /\ (pc[h] = "stamp" \/ (pc[h] = "check" /\ seen[h] = 0))

(* Without a reset nobody deletes the record that its maker stored. *)
EntryInv ==
    resets = 0 =>
        /\ ~resetting /\ ~crashed
        /\ (\E h \in Handlers : pc[h] \in {"unlock", "broadcast", "woken"}) => entry # None

(* The panic of tun.go:303 and 523 needs a call of ResetAppTraffics. *)
PanicNeedsReset == crashed => resets > 0

IInv == TypeOK /\ RecInv /\ CountsMatchHolders /\ LastInv /\ EntryInv /\ TrafficConserved

-----------------------------------------------------------------------------
(* Types.                                                                   *)

(* Changing one counter of one record. *)
LEMMA CounterUpdate ==
    ASSUME NEW A, NEW B, NEW V, NEW f \in [A -> [B -> V]], NEW x \in A, NEW k \in B, NEW v \in V
    PROVE  /\ [f EXCEPT ![x][k] = v] \in [A -> [B -> V]]
           /\ \A y \in A, l \in B : [f EXCEPT ![x][k] = v][y][l] = IF y = x /\ l = k THEN v ELSE f[y][l]
OBVIOUS

RecordType ==
    /\ conn \in [Handlers -> [Kinds -> Int]]
    /\ connTotal \in [Handlers -> [Kinds -> Nat]]
    /\ cur \in [Handlers -> [Links -> Nat]]
    /\ total \in [Handlers -> [Links -> Nat]]
    /\ stamped \in [Handlers -> BOOLEAN]
    /\ sent \in [Handlers -> [Links -> Nat]]

HandlerType ==
    /\ entry \in Handlers \cup {None} /\ cond \in Handlers \cup {None}
    /\ pc \in [Handlers -> Places]
    /\ rec \in [Handlers -> Handlers \cup {None}]
    /\ waitOn \in [Handlers -> Handlers \cup {None}]
    /\ seen \in [Handlers -> Int]
    /\ crashed \in BOOLEAN /\ missed \subseteq Handlers

HasRecord ==
    \A h \in Handlers :
        h \in cast.handlers /\ pc[h] \in
              {"unlock", "broadcast", "count", "countTotal", "activate", "relay", "check", "stamp", "done"}
           => rec[h] \in Handlers

PollRecord == [pc : {"idle", "swap", "add"}, rec : Handlers \cup {None}, link : Links, n : Nat]

OuterType ==
    /\ poll \in [Pollers -> PollRecord]
    /\ \A r \in Pollers : poll[r].pc # "idle" => poll[r].rec \in Handlers
    /\ resetting \in BOOLEAN
    /\ cast \in Casts /\ polls \in 0..cast.polls /\ resets \in 0..cast.resets

LEMMA TypeSplit == TypeOK <=> RecordType /\ HandlerType /\ HasRecord /\ OuterType
BY DEF TypeOK, RecordType, HandlerType, HasRecord, OuterType, PollRecord

LEMMA CastType ==
    ASSUME OuterType
    PROVE  cast.polls \in Nat /\ cast.resets \in Nat
BY CastAssumption DEF OuterType

(* A handler that uses a record has one. *)
LEMMA UserHasRecord ==
    ASSUME TypeOK, RecInv, NEW h \in Handlers,
           pc[h] \in {"unlock", "broadcast", "count", "countTotal", "activate", "relay", "check", "stamp"}
    PROVE  rec[h] \in Handlers /\ h \in cast.handlers
BY TypeSplit DEF HasRecord, RecInv

LEMMA KindType == \A h : Kind(h) \in Kinds /\ Other(Kind(h)) \in Kinds /\ Other(Kind(h)) # Kind(h)
                                           /\ Kinds = {Kind(h), Other(Kind(h))}
BY DEF Kind, Other, Kinds

LEMMA RecordTypeInductive ==
    ASSUME TypeOK, RecInv, [Next]_vars
    PROVE  RecordType'
<1>0. RecordType /\ OuterType
    BY TypeSplit
<1>1. CASE UNCHANGED <<recordVars, sent>>
    BY <1>0, <1>1 DEF RecordType, recordVars
<1>2. ASSUME NEW h \in Handlers, AddConn(h) \/ AddConnTotal(h) \/ Uncount(h) \/ Activate(h) \/ Stamp(h)
      PROVE  RecordType'
    <2>1. rec[h] \in Handlers /\ Kind(h) \in Kinds
        BY <1>2, UserHasRecord, KindType DEF AddConn, AddConnTotal, Uncount, Activate, Stamp, Goto
    <2>2. conn[rec[h]][Kind(h)] \in Int /\ connTotal[rec[h]][Kind(h)] \in Nat
        BY <1>0, <2>1 DEF RecordType
    <2>3. /\ conn[rec[h]][Kind(h)] + 1 \in Int /\ conn[rec[h]][Kind(h)] - 1 \in Int
          /\ connTotal[rec[h]][Kind(h)] + 1 \in Nat
        BY <2>2
    <2>4. CASE AddConn(h)
        <3>1. conn' \in [Handlers -> [Kinds -> Int]]
            BY <1>0, <2>1, <2>3, <2>4, CounterUpdate DEF AddConn, RecordType
        <3>2. QED
            BY <1>0, <2>4, <3>1 DEF AddConn, RecordType
    <2>5. CASE AddConnTotal(h)
        <3>1. connTotal' \in [Handlers -> [Kinds -> Nat]]
            BY <1>0, <2>1, <2>3, <2>5, CounterUpdate DEF AddConnTotal, RecordType
        <3>2. QED
            BY <1>0, <2>5, <3>1 DEF AddConnTotal, RecordType
    <2>6. CASE Uncount(h)
        <3>1. conn' \in [Handlers -> [Kinds -> Int]]
            BY <1>0, <2>1, <2>3, <2>6, CounterUpdate DEF Uncount, RecordType
        <3>2. QED
            BY <1>0, <2>6, <3>1 DEF Uncount, RecordType
    <2>7. CASE Activate(h) \/ Stamp(h)
        <3>1. stamped' \in [Handlers -> BOOLEAN]
            BY <1>0, <2>1, <2>7 DEF Activate, Stamp, RecordType
        <3>2. QED
            BY <1>0, <2>7, <3>1 DEF Activate, Stamp, RecordType
    <2>8. QED
        BY <1>2, <2>4, <2>5, <2>6, <2>7
<1>3. ASSUME NEW h \in Handlers, NEW l \in Links, Traffic(h, l)
      PROVE  RecordType'
    <2>1. rec[h] \in Handlers
        BY <1>3, UserHasRecord DEF Traffic
    <2>2. cur[rec[h]][l] + 1 \in Nat /\ sent[rec[h]][l] + 1 \in Nat
        BY <1>0, <2>1 DEF RecordType
    <2>3. cur' \in [Handlers -> [Links -> Nat]] /\ sent' \in [Handlers -> [Links -> Nat]]
        BY <1>0, <1>3, <2>1, <2>2, CounterUpdate DEF Traffic, RecordType
    <2>4. QED
        BY <1>0, <1>3, <2>3 DEF Traffic, RecordType
<1>4. ASSUME NEW r \in Pollers, PollSwap(r) \/ PollAdd(r)
      PROVE  RecordType'
    <2>1. poll[r].rec \in Handlers /\ poll[r].link \in Links /\ poll[r].n \in Nat
        BY <1>0, <1>4 DEF PollSwap, PollAdd, OuterType, PollRecord
    <2>2. CASE PollSwap(r)
        <3>1. cur' \in [Handlers -> [Links -> Nat]]
            BY <1>0, <2>1, <2>2, CounterUpdate DEF PollSwap, RecordType
        <3>2. QED
            BY <1>0, <2>2, <3>1 DEF PollSwap, RecordType
    <2>3. CASE PollAdd(r)
        <3>1. total[poll[r].rec][poll[r].link] + poll[r].n \in Nat
            BY <1>0, <2>1 DEF RecordType
        <3>2. total' \in [Handlers -> [Links -> Nat]]
            BY <1>0, <2>1, <2>3, <3>1, CounterUpdate DEF PollAdd, RecordType
        <3>3. QED
            BY <1>0, <2>3, <3>2 DEF PollAdd, RecordType
    <2>4. QED
        BY <1>4, <2>2, <2>3
<1>5. QED
    BY <1>1, <1>2, <1>3, <1>4
       DEF Next, Acquire, Use, vars, recordVars, LoadHit, LoadMiss, LockLoaded, LockStored, StoreRecord,
           DeleteLock, Broadcast, Wait, SyncRead, CheckLast, PollStart, ResetCollect, ResetDelete

(* What a step changes of the handlers: one goes from a place to another,   *)
(* and some that are parked are woken.                                      *)
LEMMA HandlerTypeInductive ==
    ASSUME TypeOK, RecInv, [Next]_vars
    PROVE  HandlerType'
<1>0. RecordType /\ HandlerType /\ OuterType
    BY TypeSplit
<1>1. CASE UNCHANGED <<mapVars, handlerVars, crashed, missed>>
    BY <1>0, <1>1 DEF HandlerType, mapVars, handlerVars
<1>2. ASSUME NEW h \in Handlers, NEW from, NEW to \in Places, Goto(h, from, to)
      PROVE  pc' \in [Handlers -> Places]
    BY <1>0, <1>2 DEF Goto, HandlerType
<1>3. ASSUME NEW h \in Handlers, LoadHit(h) \/ LoadMiss(h) \/ StoreRecord(h) \/ SyncRead(h)
      PROVE  HandlerType'
    <2>1. pc' \in [Handlers -> Places]
        BY <1>2, <1>3 DEF LoadHit, LoadMiss, StoreRecord, SyncRead, Places
    <2>2. rec' \in [Handlers -> Handlers \cup {None}] /\ entry' \in Handlers \cup {None}
        BY <1>0, <1>3 DEF LoadHit, LoadMiss, StoreRecord, SyncRead, HandlerType, mapVars
    <2>3. UNCHANGED <<cond, waitOn, seen, missed>> /\ crashed' \in BOOLEAN
        BY <1>0, <1>3 DEF LoadHit, LoadMiss, StoreRecord, SyncRead, HandlerType, mapVars
    <2>4. QED
        BY <1>0, <2>1, <2>2, <2>3 DEF HandlerType
<1>4. ASSUME NEW h \in Handlers, LockLoaded(h) \/ LockStored(h) \/ DeleteLock(h)
      PROVE  HandlerType'
    <2>1. pc' \in [Handlers -> Places]
        BY <1>2, <1>4 DEF LockLoaded, LockStored, DeleteLock, Places
    <2>2. waitOn' \in [Handlers -> Handlers \cup {None}] /\ cond' \in Handlers \cup {None}
        BY <1>0, <1>4 DEF LockLoaded, LockStored, DeleteLock, HandlerType, mapVars
    <2>3. UNCHANGED <<entry, rec, seen, missed, crashed>>
        BY <1>4 DEF LockLoaded, LockStored, DeleteLock, mapVars
    <2>4. QED
        BY <1>0, <2>1, <2>2, <2>3 DEF HandlerType
<1>5. ASSUME NEW h \in Handlers, Broadcast(h)
      PROVE  HandlerType'
    <2>1. pc' \in [Handlers -> Places]
        BY <1>0, <1>5 DEF Broadcast, HandlerType, Places
    <2>2. missed' \subseteq Handlers
        BY <1>0, <1>5 DEF Broadcast, HandlerType
    <2>3. QED
        BY <1>0, <1>5, <2>1, <2>2 DEF Broadcast, HandlerType, mapVars
<1>6. ASSUME NEW h \in Handlers,
             Wait(h) \/ AddConn(h) \/ AddConnTotal(h) \/ Activate(h) \/ CheckLast(h) \/ Stamp(h)
      PROVE  HandlerType'
    <2>1. pc' \in [Handlers -> Places]
        BY <1>2, <1>6 DEF Wait, AddConn, AddConnTotal, Activate, CheckLast, Stamp, Places
    <2>2. UNCHANGED <<mapVars, rec, waitOn, seen, missed, crashed>>
        BY <1>6 DEF Wait, AddConn, AddConnTotal, Activate, CheckLast, Stamp
    <2>3. QED
        BY <1>0, <2>1, <2>2 DEF HandlerType, mapVars
<1>7. ASSUME NEW h \in Handlers, Uncount(h)
      PROVE  HandlerType'
    <2>1. pc' \in [Handlers -> Places]
        BY <1>2, <1>7 DEF Uncount, Places
    <2>2. rec[h] \in Handlers /\ Kind(h) \in Kinds
        BY <1>7, UserHasRecord, KindType DEF Uncount, Goto
    <2>3. conn[rec[h]][Kind(h)] - 1 \in Int
        BY <1>0, <2>2 DEF RecordType
    <2>4. seen' \in [Handlers -> Int]
        BY <1>0, <1>7, <2>3 DEF Uncount, HandlerType
    <2>5. QED
        BY <1>0, <1>7, <2>1, <2>4 DEF Uncount, HandlerType, mapVars
<1>8. CASE ResetDelete
    BY <1>0, <1>8 DEF ResetDelete, HandlerType, handlerVars
<1>9. QED
    BY <1>1, <1>3, <1>4, <1>5, <1>6, <1>7, <1>8
       DEF Next, Acquire, Use, vars, Traffic, PollStart, PollSwap, PollAdd, ResetCollect

(* A handler's record is that of appStats when it loads it, or its own, and *)
(* does not change later.                                                   *)
LEMMA RecInductive ==
    ASSUME TypeOK, RecInv, [Next]_vars
    PROVE  RecInv' /\ HasRecord'
<1>0. HandlerType /\ HasRecord
    BY TypeSplit
<1>1. None \notin Handlers
    BY HandlerAssumption
<1>2. cast' = cast
    BY DEF Next, Acquire, Use, vars, outerVars, LoadHit, LoadMiss, LockLoaded, LockStored, StoreRecord,
           DeleteLock, Broadcast, Wait, SyncRead, AddConn, AddConnTotal, Activate, Traffic, Uncount,
           CheckLast, Stamp, PollStart, PollSwap, PollAdd, ResetCollect, ResetDelete
<1> DEFINE Holding == {"unlock", "broadcast", "count", "countTotal", "activate", "relay", "check", "stamp", "done"}
           Good(h) ==
               /\ pc'[h] \in Acquiring \cup {"panicked"} => rec'[h] = None
               /\ pc'[h] = "panicked" => crashed'
               /\ h \notin cast.handlers => pc'[h] = "done" /\ rec'[h] = None
               /\ h \in cast.handlers /\ pc'[h] \in Holding => rec'[h] \in Handlers
<1>3. SUFFICES \A h \in Handlers : Good(h)
    BY <1>2 DEF RecInv, HasRecord
<1>4. ASSUME NEW h \in Handlers, pc'[h] = pc[h], rec'[h] = rec[h], crashed => crashed'
      PROVE  Good(h)
    BY <1>0, <1>4 DEF RecInv, HasRecord
<1>5. CASE UNCHANGED <<pc, rec, crashed>>
    BY <1>4, <1>5
<1>6. ASSUME NEW h \in Handlers, ~crashed, Good(h),
             \A g \in Handlers : g # h => pc'[g] = pc[g] /\ rec'[g] = rec[g]
      PROVE  \A g \in Handlers : Good(g)
    <2> HIDE DEF Good
    <2>1. QED
        BY <1>4, <1>6
<1>8. ASSUME NEW h \in Handlers, pc[h] # "done"
      PROVE  h \in cast.handlers
    BY <1>8 DEF RecInv
<1> HIDE DEF Good
<1>9. ASSUME NEW h \in Handlers, LoadHit(h) \/ StoreRecord(h) \/ SyncRead(h)
      PROVE  \A g \in Handlers : Good(g)
    <2>1. pc[h] \in {"load", "store", "woken"} /\ h \in cast.handlers /\ ~crashed
        BY <1>8, <1>9 DEF LoadHit, StoreRecord, SyncRead, Goto
    <2>2. \A g \in Handlers : g # h => pc'[g] = pc[g] /\ rec'[g] = rec[g]
        BY <1>0, <1>9 DEF LoadHit, StoreRecord, SyncRead, Goto, HandlerType
    <2>3. CASE LoadHit(h)
        <3>1. pc'[h] = "count" /\ rec'[h] \in Handlers
            BY <1>0, <2>3 DEF LoadHit, Goto, HandlerType
        <3>2. Good(h)
            BY <2>1, <3>1 DEF Good, Acquiring
        <3>3. QED
            BY <1>6, <2>1, <2>2, <3>2
    <2>4. CASE StoreRecord(h)
        <3>1. pc'[h] = "unlock" /\ rec'[h] \in Handlers
            BY <1>0, <2>4 DEF StoreRecord, Goto, HandlerType
        <3>2. Good(h)
            BY <2>1, <3>1 DEF Good, Acquiring
        <3>3. QED
            BY <1>6, <2>1, <2>2, <3>2
    <2>5. CASE SyncRead(h)
        <3>1. /\ rec'[h] = entry /\ crashed' = (entry = None)
              /\ pc'[h] = IF entry = None THEN "panicked" ELSE "count"
            BY <1>0, <2>5 DEF SyncRead, Goto, HandlerType
        <3>2. entry = None \/ entry \in Handlers
            BY <1>0 DEF HandlerType
        <3>3. Good(h)
            BY <2>1, <3>1, <3>2 DEF Good, Acquiring
        <3>4. QED
            BY <1>6, <2>1, <2>2, <3>3
    <2>6. QED
        BY <1>9, <2>3, <2>4, <2>5
<1>11. ASSUME NEW h \in Handlers, LoadMiss(h) \/ LockLoaded(h) \/ LockStored(h) \/ Wait(h)
       PROVE  \A g \in Handlers : Good(g)
    <2>1. pc[h] \in Acquiring /\ pc[h] # "done" /\ ~crashed
        BY <1>11 DEF LoadMiss, LockLoaded, LockStored, Wait, Goto, Acquiring
    <2>2. rec[h] = None /\ h \in cast.handlers
        BY <1>8, <2>1 DEF RecInv
    <2>3. UNCHANGED rec /\ \A g \in Handlers : g # h => pc'[g] = pc[g]
        BY <1>0, <1>11 DEF LoadMiss, LockLoaded, LockStored, Wait, Goto, HandlerType
    <2>4. pc'[h] \in Acquiring
        BY <1>0, <1>11 DEF LoadMiss, LockLoaded, LockStored, Wait, Goto, HandlerType, Acquiring
    <2>5. Good(h)
        BY <2>2, <2>3, <2>4 DEF Good, Acquiring
    <2>6. \A g \in Handlers : g # h => pc'[g] = pc[g] /\ rec'[g] = rec[g]
        BY <2>3
    <2>7. QED
        BY <1>6, <2>1, <2>5, <2>6
<1>12. ASSUME NEW h \in Handlers,
              \/ DeleteLock(h) \/ AddConn(h) \/ AddConnTotal(h) \/ Activate(h) \/ Uncount(h)
              \/ CheckLast(h) \/ Stamp(h)
       PROVE  \A g \in Handlers : Good(g)
    <2>1. rec[h] \in Handlers /\ h \in cast.handlers /\ ~crashed
        BY <1>12, UserHasRecord DEF DeleteLock, AddConn, AddConnTotal, Activate, Uncount, CheckLast, Stamp, Goto
    <2>2. UNCHANGED rec /\ \A g \in Handlers : g # h => pc'[g] = pc[g]
        BY <1>0, <1>12
           DEF DeleteLock, AddConn, AddConnTotal, Activate, Uncount, CheckLast, Stamp, Goto, HandlerType
    <2>3. pc'[h] \notin Acquiring \cup {"panicked"}
        BY <1>0, <1>12
           DEF DeleteLock, AddConn, AddConnTotal, Activate, Uncount, CheckLast, Stamp, Goto, HandlerType, Acquiring
    <2>4. Good(h)
        BY <2>1, <2>2, <2>3 DEF Good
    <2>5. QED
        BY <1>6, <2>1, <2>2, <2>4
<1>13. ASSUME NEW h \in Handlers, Broadcast(h)
       PROVE  \A g \in Handlers : Good(g)
    <2> SUFFICES ASSUME NEW g \in Handlers PROVE Good(g)
        OBVIOUS
    <2>1. UNCHANGED <<rec, crashed>>
        BY <1>13 DEF Broadcast
    <2>2. CASE g = h
        <3>1. pc'[g] = "count" /\ rec[h] \in Handlers /\ h \in cast.handlers
            BY <1>13, <2>2, UserHasRecord DEF Broadcast
        <3>2. QED
            BY <2>1, <2>2, <3>1 DEF Good, Acquiring
    <2>3. CASE g # h /\ pc'[g] # pc[g]
        <3>1. pc[g] = "parked" /\ pc'[g] = "woken"
            BY <1>13, <2>3 DEF Broadcast
        <3>2. rec[g] = None /\ g \in cast.handlers
            BY <1>8, <3>1 DEF RecInv, Acquiring
        <3>3. QED
            BY <2>1, <3>1, <3>2 DEF Good
    <2>4. CASE pc'[g] = pc[g]
        BY <1>4, <2>1, <2>4
    <2>5. QED
        BY <2>2, <2>3, <2>4
<1>14. QED
    BY <1>5, <1>9, <1>11, <1>12, <1>13
       DEF Next, Acquire, Use, vars, handlerVars, Traffic, PollStart, PollSwap, PollAdd, ResetCollect, ResetDelete

LEMMA OuterTypeInductive ==
    ASSUME TypeOK, RecInv, [Next]_vars
    PROVE  OuterType'
<1>0. HandlerType /\ OuterType /\ RecordType
    BY TypeSplit
<1>1. cast.polls \in Nat /\ cast.resets \in Nat
    BY <1>0, CastType
<1>2. CASE UNCHANGED outerVars
    BY <1>0, <1>2 DEF OuterType, outerVars
<1>3. ASSUME NEW r \in Pollers, PollStart(r)
      PROVE  OuterType'
    <2>1. entry \in Handlers
        BY <1>0, <1>3 DEF PollStart, HandlerType
    <2> DEFINE s == [NoPoll EXCEPT !.pc = "swap", !.rec = entry]
    <2>2. NoPoll \in PollRecord
        BY DEF NoPoll, PollRecord, Links
    <2>3. s \in PollRecord /\ s.rec = entry /\ poll' = [poll EXCEPT ![r] = s]
        BY <1>3, <2>1, <2>2 DEF PollStart, PollRecord
    <2> HIDE DEF s
    <2>4. poll' \in [Pollers -> PollRecord] /\ \A q \in Pollers : poll'[q].pc # "idle" => poll'[q].rec \in Handlers
        BY <1>0, <2>1, <2>3 DEF OuterType
    <2>5. polls' \in 0..cast.polls
        BY <1>0, <1>1, <1>3 DEF PollStart, OuterType
    <2>6. QED
        BY <1>0, <1>3, <2>4, <2>5 DEF PollStart, OuterType
<1>4. ASSUME NEW r \in Pollers, PollSwap(r)
      PROVE  OuterType'
    <2>1. /\ poll[r].rec \in Handlers /\ poll[r].link \in Links
          /\ cur[poll[r].rec][poll[r].link] \in Nat
        BY <1>0, <1>4 DEF PollSwap, OuterType, PollRecord, RecordType
    <2>2. poll' = [poll EXCEPT ![r].pc = "add", ![r].n = cur[poll[r].rec][poll[r].link]]
        BY <1>4 DEF PollSwap
    <2>3. poll' \in [Pollers -> PollRecord]
        BY <1>0, <2>1, <2>2 DEF OuterType, PollRecord
    <2>4. \A s \in Pollers : poll'[s].pc # "idle" => poll'[s].rec \in Handlers
        BY <1>0, <2>1, <2>2 DEF OuterType, PollRecord
    <2>5. QED
        BY <1>0, <1>4, <2>3, <2>4 DEF PollSwap, OuterType
<1>5. ASSUME NEW r \in Pollers, PollAdd(r)
      PROVE  OuterType'
    <2>1. poll[r] \in PollRecord /\ poll[r].rec \in Handlers
        BY <1>0, <1>5 DEF PollAdd, OuterType
    <2>2. PICK s : /\ s \in PollRecord /\ (s.pc # "idle" => s.rec \in Handlers)
                   /\ poll' = [poll EXCEPT ![r] = s]
        <3>1. poll' = [poll EXCEPT ![r] = IF poll[r].link = "up"
                                          THEN [poll[r] EXCEPT !.pc = "swap", !.link = "down", !.n = 0]
                                          ELSE NoPoll]
            BY <1>5 DEF PollAdd
        <3> DEFINE s == [poll[r] EXCEPT !.pc = "swap", !.link = "down", !.n = 0]
        <3>2. s \in PollRecord /\ s.rec = poll[r].rec
            BY <2>1 DEF PollRecord, Links
        <3>3. CASE poll[r].link = "up"
            <4>1. poll' = [poll EXCEPT ![r] = s]
                BY <3>1, <3>3
            <4> HIDE DEF s
            <4>2. QED
                BY <2>1, <3>2, <4>1
        <3>4. CASE poll[r].link # "up"
            BY <2>1, <3>1, <3>4 DEF PollRecord, Links, NoPoll
        <3>5. QED
            BY <3>3, <3>4
    <2>3. poll' \in [Pollers -> PollRecord] /\ \A q \in Pollers : poll'[q].pc # "idle" => poll'[q].rec \in Handlers
        BY <1>0, <2>2 DEF OuterType
    <2>4. QED
        BY <1>0, <1>5, <2>3 DEF PollAdd, OuterType
<1>6. CASE ResetCollect
    BY <1>0, <1>1, <1>6 DEF ResetCollect, OuterType
<1>7. CASE ResetDelete
    BY <1>0, <1>7 DEF ResetDelete, OuterType
<1>8. ASSUME NEW h \in Handlers, Acquire(h) \/ Use(h)
      PROVE  UNCHANGED outerVars
    BY <1>8 DEF Acquire, Use, LoadHit, LoadMiss, LockLoaded, LockStored, StoreRecord,
           DeleteLock, Broadcast, Wait, SyncRead, AddConn, AddConnTotal, Activate, Traffic, Uncount,
           CheckLast, Stamp
<1>9. QED
    BY <1>2, <1>3, <1>4, <1>5, <1>6, <1>7, <1>8 DEF Next, vars

LEMMA TypeInductive ==
    ASSUME TypeOK, RecInv, [Next]_vars
    PROVE  TypeOK' /\ RecInv'
<1>1. RecordType' /\ HandlerType' /\ HasRecord' /\ OuterType' /\ RecInv'
    BY RecordTypeInductive, HandlerTypeInductive, RecInductive, OuterTypeInductive
<1>2. QED
    BY <1>1 DEF TypeOK, RecordType, HandlerType, HasRecord, OuterType, PollRecord

-----------------------------------------------------------------------------
(* The counters of a record.                                                *)

Holders(x, k) == {h \in Handlers : Kind(h) = k /\ rec[h] = x /\ pc[h] \in Counted}

LEMMA HoldersFinite == \A x, k : IsFiniteSet(Holders(x, k)) /\ IsFiniteSet(Holders(x, k)')
BY HandlerAssumption, FS_Subset DEF Holders

(* All steps but the two that change a counter leave its holders alone. *)
LEMMA OthersKeepHolders ==
    ASSUME TypeOK, RecInv, [Next]_vars, \A h \in Handlers : ~AddConn(h) /\ ~Uncount(h)
    PROVE  conn' = conn /\ \A x, k : Holders(x, k)' = Holders(x, k)
<1>0. HandlerType
    BY TypeSplit
<1>1. conn' = conn
    BY DEF Next, Acquire, Use, vars, recordVars, LoadHit, LoadMiss, LockLoaded, LockStored, StoreRecord,
           DeleteLock, Broadcast, Wait, SyncRead, AddConnTotal, Activate, Traffic, CheckLast, Stamp,
           PollStart, PollSwap, PollAdd, ResetCollect, ResetDelete
<1>2. SUFFICES \A h \in Handlers : /\ pc'[h] \in Counted <=> pc[h] \in Counted
                                   /\ pc[h] \in Counted => rec'[h] = rec[h]
    BY <1>1 DEF Holders
<1>3. CASE UNCHANGED <<pc, rec>>
    BY <1>3
<1>4. ASSUME NEW h \in Handlers,
             LoadHit(h) \/ LoadMiss(h) \/ LockLoaded(h) \/ LockStored(h) \/ StoreRecord(h) \/ SyncRead(h)
      PROVE  \A g \in Handlers : /\ pc'[g] \in Counted <=> pc[g] \in Counted
                                 /\ pc[g] \in Counted => rec'[g] = rec[g]
    BY <1>0, <1>4 DEF LoadHit, LoadMiss, LockLoaded, LockStored, StoreRecord, SyncRead, Goto, HandlerType, Counted
<1>5. ASSUME NEW h \in Handlers,
             \/ DeleteLock(h) \/ Wait(h) \/ AddConnTotal(h) \/ Activate(h) \/ CheckLast(h) \/ Stamp(h)
      PROVE  \A g \in Handlers : /\ pc'[g] \in Counted <=> pc[g] \in Counted
                                 /\ pc[g] \in Counted => rec'[g] = rec[g]
    BY <1>0, <1>5 DEF DeleteLock, Wait, AddConnTotal, Activate, CheckLast, Stamp, Goto, HandlerType, Counted
<1>6. ASSUME NEW h \in Handlers, Broadcast(h)
      PROVE  \A g \in Handlers : /\ pc'[g] \in Counted <=> pc[g] \in Counted
                                 /\ pc[g] \in Counted => rec'[g] = rec[g]
    BY <1>0, <1>6 DEF Broadcast, Counted
<1>7. QED
    BY <1>3, <1>4, <1>5, <1>6
       DEF Next, Acquire, Use, vars, handlerVars, Traffic, PollStart, PollSwap, PollAdd, ResetCollect, ResetDelete

LEMMA AddConnHolders ==
    ASSUME TypeOK, RecInv, NEW h \in Handlers, AddConn(h), NEW x, NEW k
    PROVE  Holders(x, k)' = IF x = rec[h] /\ k = Kind(h) THEN Holders(x, k) \cup {h} ELSE Holders(x, k)
<1>1. /\ pc[h] = "count" /\ UNCHANGED rec
      /\ \A g \in Handlers : pc'[g] = IF g = h THEN "countTotal" ELSE pc[g]
    BY TypeSplit DEF AddConn, Goto, HandlerType
<1>2. \A g \in Handlers : pc'[g] \in Counted <=> g = h \/ pc[g] \in Counted
    BY <1>1 DEF Counted
<1>3. QED
    BY <1>1, <1>2 DEF Holders

LEMMA UncountHolders ==
    ASSUME TypeOK, RecInv, NEW h \in Handlers, Uncount(h), NEW x, NEW k
    PROVE  Holders(x, k)' = IF x = rec[h] /\ k = Kind(h) THEN Holders(x, k) \ {h} ELSE Holders(x, k)
<1>1. /\ pc[h] = "relay" /\ UNCHANGED rec
      /\ \A g \in Handlers : pc'[g] = IF g = h THEN "check" ELSE pc[g]
    BY TypeSplit DEF Uncount, Goto, HandlerType
<1>2. \A g \in Handlers : pc'[g] \in Counted <=> g # h /\ pc[g] \in Counted
    BY <1>1 DEF Counted
<1>3. QED
    BY <1>1, <1>2 DEF Holders

(* Whoever adds one to a counter becomes a holder, whoever takes one off    *)
(* stops being one, and nothing else changes either.                        *)
LEMMA CountsInductive ==
    ASSUME TypeOK, RecInv, CountsMatchHolders, [Next]_vars
    PROVE  CountsMatchHolders'
<1>0. RecordType
    BY TypeSplit
<1>1. \A x \in Handlers, k \in Kinds : conn[x][k] = Cardinality(Holders(x, k))
    BY DEF CountsMatchHolders, Holders
<1>2. SUFFICES ASSUME NEW x \in Handlers, NEW k \in Kinds
               PROVE  conn'[x][k] = Cardinality(Holders(x, k)')
    BY DEF CountsMatchHolders, Holders
<1>3. conn[x][k] \in Int
    BY <1>0 DEF RecordType
<1>4. ASSUME NEW h \in Handlers, AddConn(h)
      PROVE  conn'[x][k] = Cardinality(Holders(x, k)')
    <2>1. rec[h] \in Handlers /\ Kind(h) \in Kinds
        BY <1>4, UserHasRecord, KindType DEF AddConn, Goto
    <2>2. conn[rec[h]][Kind(h)] + 1 \in Int
        BY <1>0, <2>1 DEF RecordType
    <2>3. conn'[x][k] = IF x = rec[h] /\ k = Kind(h) THEN conn[x][k] + 1 ELSE conn[x][k]
        <3>1. conn' = [conn EXCEPT ![rec[h]][Kind(h)] = conn[rec[h]][Kind(h)] + 1]
            BY <1>4 DEF AddConn
        <3>2. QED
            BY <1>0, <2>1, <2>2, <3>1 DEF RecordType
    <2>4. h \notin Holders(x, k)
        BY <1>4 DEF Holders, AddConn, Goto, Counted
    <2>5. Cardinality(Holders(x, k) \cup {h}) = Cardinality(Holders(x, k)) + 1
        BY <2>4, HoldersFinite, FS_AddElement
    <2>6. QED
        BY <1>1, <1>4, <2>3, <2>5, AddConnHolders
<1>5. ASSUME NEW h \in Handlers, Uncount(h)
      PROVE  conn'[x][k] = Cardinality(Holders(x, k)')
    <2>1. rec[h] \in Handlers /\ Kind(h) \in Kinds
        BY <1>5, UserHasRecord, KindType DEF Uncount, Goto
    <2>2. conn[rec[h]][Kind(h)] - 1 \in Int
        BY <1>0, <2>1 DEF RecordType
    <2>3. conn'[x][k] = IF x = rec[h] /\ k = Kind(h) THEN conn[x][k] - 1 ELSE conn[x][k]
        <3>1. conn' = [conn EXCEPT ![rec[h]][Kind(h)] = conn[rec[h]][Kind(h)] - 1]
            BY <1>5 DEF Uncount
        <3>2. QED
            BY <1>0, <2>1, <2>2, <3>1 DEF RecordType
    <2>4. CASE x = rec[h] /\ k = Kind(h)
        <3>1. h \in Holders(x, k)
            BY <1>5, <2>4 DEF Holders, Uncount, Goto, Counted
        <3>2. Cardinality(Holders(x, k) \ {h}) = Cardinality(Holders(x, k)) - 1
            BY <3>1, HoldersFinite, FS_RemoveElement
        <3>3. QED
            BY <1>1, <1>5, <2>3, <2>4, <3>2, UncountHolders
    <2>5. CASE ~(x = rec[h] /\ k = Kind(h))
        BY <1>1, <1>5, <2>3, <2>5, UncountHolders
    <2>6. QED
        BY <2>4, <2>5
<1>6. CASE \A h \in Handlers : ~AddConn(h) /\ ~Uncount(h)
    BY <1>1, <1>6, OthersKeepHolders
<1>7. QED
    BY <1>4, <1>5, <1>6

-----------------------------------------------------------------------------
(* The stamp.                                                               *)

Left(x) ==
    /\ \E h \in Handlers : rec[h] = x
    /\ \A h \in Handlers : rec[h] = x => pc[h] \in Leaving

Attended(x) ==
    \/ stamped[x]
    \/ \E h \in Handlers : rec[h] = x /\ (pc[h] = "stamp" \/ (pc[h] = "check" /\ seen[h] = 0))

(* A handler that takes or uses a record stands between it and being left;  *)
(* one that leaves it leaves the record to those who are attending to it.   *)
LEMMA AttentionKept ==
    ASSUME TypeOK, LastInv, NEW x \in Handlers, UNCHANGED <<stamped, seen>>,
           \A h \in Handlers :
               \/ rec'[h] = rec[h] /\ (pc'[h] = pc[h] \/ (pc[h] \notin Leaving /\ pc'[h] \notin Leaving))
               \/ rec[h] = None /\ pc'[h] \notin Leaving
               \/ rec[h] # x /\ rec'[h] # x
    PROVE  Left(x)' => Attended(x)'
<1>1. SUFFICES ASSUME Left(x)' PROVE Attended(x)'
    OBVIOUS
<1>2. x # None
    BY HandlerAssumption
<1>3. \A h \in Handlers : rec'[h] = x => rec[h] = x
    BY <1>1 DEF Left
<1>4. \A h \in Handlers : rec[h] = x => rec'[h] = x /\ pc'[h] = pc[h]
    BY <1>1, <1>2 DEF Left
<1>5. Left(x)
    BY <1>1, <1>3, <1>4 DEF Left
<1>6. Attended(x)
    BY <1>5 DEF LastInv, Left, Attended
<1>7. QED
    BY <1>4, <1>6 DEF Attended

LEMMA UncountAttends ==
    ASSUME TypeOK, RecInv, NEW h \in Handlers, Uncount(h), CountsMatchHolders',
           NEW x, x = rec[h], Left(x)'
    PROVE  Attended(x)'
<1>0. RecordType /\ HandlerType
    BY TypeSplit
<1>1. rec[h] \in Handlers /\ Kind(h) \in Kinds
    BY UserHasRecord, KindType DEF Uncount, Goto
<1>2. rec' = rec /\ pc'[h] = "check" /\ seen'[h] = conn[rec[h]][Kind(h)] - 1
    BY <1>0 DEF Uncount, Goto, HandlerType
<1>3. conn'[rec[h]][Kind(h)] = conn[rec[h]][Kind(h)] - 1
    <2>1. conn[rec[h]][Kind(h)] - 1 \in Int
        BY <1>0, <1>1 DEF RecordType
    <2>2. conn' = [conn EXCEPT ![rec[h]][Kind(h)] = conn[rec[h]][Kind(h)] - 1]
        BY DEF Uncount
    <2>3. QED
        BY <1>0, <1>1, <2>1, <2>2, CounterUpdate DEF RecordType
<1>4. {g \in Handlers : Kind(g) = Kind(h) /\ rec'[g] = rec[h] /\ pc'[g] \in Counted} = {}
    BY <1>2 DEF Left, Leaving, Counted
<1>5. conn'[rec[h]][Kind(h)] = 0
    BY <1>1, <1>2, <1>4, FS_EmptySet DEF CountsMatchHolders
<1>6. QED
    BY <1>2, <1>3, <1>5 DEF Attended

LEMMA CheckLastAttends ==
    ASSUME TypeOK, RecInv, CountsMatchHolders, LastInv, NEW h \in Handlers, CheckLast(h),
           NEW x, x = rec[h], Left(x)'
    PROVE  Attended(x)'
<1>0. RecordType /\ HandlerType
    BY TypeSplit
<1>1. rec[h] \in Handlers /\ Other(Kind(h)) \in Kinds
    BY UserHasRecord, KindType DEF CheckLast, Goto
<1>2. /\ pc[h] = "check" /\ UNCHANGED <<rec, seen, stamped>>
      /\ pc'[h] = IF seen[h] + conn[rec[h]][Other(Kind(h))] = 0 THEN "stamp" ELSE "done"
      /\ \A g \in Handlers : g # h => pc'[g] = pc[g]
    BY <1>0 DEF CheckLast, Goto, HandlerType, recordVars
<1>3. \A g \in Handlers : rec[g] = rec[h] => pc[g] \in Leaving
    BY <1>2 DEF Left, Leaving
<1>4. Attended(x)
    BY <1>1, <1>3 DEF LastInv, Attended
<1>5. CASE seen[h] = 0
    <2>1. {g \in Handlers : Kind(g) = Other(Kind(h)) /\ rec[g] = rec[h] /\ pc[g] \in Counted} = {}
        BY <1>3 DEF Leaving, Counted
    <2>2. conn[rec[h]][Other(Kind(h))] = 0
        BY <1>1, <2>1, FS_EmptySet DEF CountsMatchHolders
    <2>3. pc'[h] = "stamp"
        BY <1>2, <1>5, <2>2
    <2>4. QED
        BY <1>2, <2>3 DEF Attended
<1>6. CASE seen[h] # 0
    BY <1>2, <1>4, <1>6 DEF Attended
<1>7. QED
    BY <1>5, <1>6

LEMMA LastInductive ==
    ASSUME TypeOK, RecInv, CountsMatchHolders, LastInv, [Next]_vars, CountsMatchHolders'
    PROVE  LastInv'
<1>0. HandlerType /\ RecordType
    BY TypeSplit
<1>1. SUFFICES ASSUME NEW x \in Handlers PROVE Left(x)' => Attended(x)'
    BY DEF LastInv, Left, Attended
<1>2. CASE UNCHANGED <<pc, rec, seen, stamped>>
    BY <1>2, AttentionKept
<1>3. ASSUME NEW h \in Handlers, LoadHit(h) \/ StoreRecord(h) \/ SyncRead(h)
      PROVE  Left(x)' => Attended(x)'
    <2>1. rec[h] = None
        BY <1>3 DEF LoadHit, StoreRecord, SyncRead, Goto, RecInv, Acquiring
    <2>2. UNCHANGED <<stamped, seen>> /\ pc'[h] \notin Leaving
        BY <1>0, <1>3 DEF LoadHit, StoreRecord, SyncRead, Goto, recordVars, HandlerType, Leaving
    <2>3. \A g \in Handlers : g # h => pc'[g] = pc[g] /\ rec'[g] = rec[g]
        BY <1>0, <1>3 DEF LoadHit, StoreRecord, SyncRead, Goto, HandlerType
    <2>4. QED
        BY <2>1, <2>2, <2>3, AttentionKept
<1>4. ASSUME NEW h \in Handlers,
             \/ LoadMiss(h) \/ LockLoaded(h) \/ LockStored(h) \/ Wait(h)
             \/ DeleteLock(h) \/ AddConn(h) \/ AddConnTotal(h)
      PROVE  Left(x)' => Attended(x)'
    <2>1. UNCHANGED <<rec, stamped, seen>> /\ pc[h] \notin Leaving /\ pc'[h] \notin Leaving
        BY <1>0, <1>4
           DEF LoadMiss, LockLoaded, LockStored, Wait, DeleteLock, AddConn, AddConnTotal, Goto, recordVars,
               HandlerType, Leaving
    <2>2. \A g \in Handlers : g # h => pc'[g] = pc[g]
        BY <1>0, <1>4
           DEF LoadMiss, LockLoaded, LockStored, Wait, DeleteLock, AddConn, AddConnTotal, Goto, HandlerType
    <2>3. QED
        BY <2>1, <2>2, AttentionKept
<1>5. ASSUME NEW h \in Handlers, Broadcast(h)
      PROVE  Left(x)' => Attended(x)'
    <2>1. UNCHANGED <<rec, stamped, seen>>
        BY <1>5 DEF Broadcast, recordVars
    <2>2. \A g \in Handlers : pc'[g] = pc[g] \/ (pc[g] \notin Leaving /\ pc'[g] \notin Leaving)
        BY <1>5 DEF Broadcast, Leaving
    <2>3. QED
        BY <2>1, <2>2, AttentionKept
<1>6. ASSUME NEW h \in Handlers, Activate(h) \/ Stamp(h) \/ CheckLast(h) \/ Uncount(h), x # rec[h]
      PROVE  Left(x)' => Attended(x)'
    <2>1. UNCHANGED rec /\ stamped'[x] = stamped[x] /\ \A g \in Handlers : g # h => pc'[g] = pc[g] /\ seen'[g] = seen[g]
        BY <1>0, <1>6 DEF Activate, Stamp, CheckLast, Uncount, Goto, HandlerType, RecordType, recordVars
    <2>2. Left(x)' => Left(x)
        BY <1>6, <2>1 DEF Left
    <2>3. Left(x) => Attended(x)
        BY DEF LastInv, Left, Attended
    <2>4. Attended(x) => Attended(x)'
        BY <1>6, <2>1 DEF Attended
    <2>5. QED
        BY <2>2, <2>3, <2>4
<1>7. ASSUME NEW h \in Handlers, Activate(h) \/ Stamp(h) \/ CheckLast(h) \/ Uncount(h), x = rec[h]
      PROVE  Left(x)' => Attended(x)'
    <2>1. CASE Activate(h)
        BY <1>0, <1>7, <2>1 DEF Activate, Goto, HandlerType, Left, Leaving
    <2>2. CASE Stamp(h)
        <3>1. stamped'[x]
            BY <1>0, <1>7, <2>2 DEF Stamp, RecordType
        <3>2. QED
            BY <3>1 DEF Attended
    <2>4. CASE CheckLast(h)
        BY <1>7, <2>4, CheckLastAttends
    <2>5. CASE Uncount(h)
        BY <1>7, <2>5, UncountAttends
    <2>6. QED
        BY <1>7, <2>1, <2>2, <2>4, <2>5
<1>8. QED
    BY <1>2, <1>3, <1>4, <1>5, <1>6, <1>7
       DEF Next, Acquire, Use, vars, handlerVars, recordVars, Traffic, PollStart, PollSwap, PollAdd,
           ResetCollect, ResetDelete

-----------------------------------------------------------------------------
(* Resets.                                                                  *)

LEMMA EntryInductive ==
    ASSUME TypeOK, RecInv, EntryInv, [Next]_vars
    PROVE  EntryInv'
<1>0. HandlerType /\ OuterType /\ None \notin Handlers
    BY TypeSplit, HandlerAssumption
<1>1. resets \in Nat
    BY <1>0, CastType DEF OuterType
<1> DEFINE Making == {"unlock", "broadcast", "woken"}
<1>2. CASE UNCHANGED <<entry, pc, resets, resetting, crashed>>
    BY <1>2 DEF EntryInv
<1>3. CASE ResetCollect
    BY <1>1, <1>3 DEF ResetCollect, EntryInv
<1>4. CASE ResetDelete
    BY <1>4 DEF ResetDelete, EntryInv
<1>5. ASSUME NEW h \in Handlers, StoreRecord(h)
      PROVE  EntryInv'
    <2>1. UNCHANGED <<resets, resetting, crashed>> /\ entry' # None
        BY <1>0, <1>5 DEF StoreRecord, outerVars
    <2>2. QED
        BY <2>1 DEF EntryInv
<1>6. ASSUME NEW h \in Handlers, DeleteLock(h) \/ Broadcast(h) \/ SyncRead(h)
      PROVE  EntryInv'
    <2>1. UNCHANGED <<entry, resets, resetting>> /\ (crashed' => crashed \/ entry = None)
        <3>1. CASE DeleteLock(h) \/ Broadcast(h)
            BY <3>1 DEF DeleteLock, Broadcast, mapVars, outerVars
        <3>2. CASE SyncRead(h)
            <4>1. UNCHANGED <<entry, resets, resetting>>
                BY <3>2 DEF SyncRead, mapVars, outerVars
            <4>2. crashed' = (entry = None)
                BY <3>2 DEF SyncRead
            <4>3. QED
                BY <4>1, <4>2
        <3>3. QED
            BY <1>6, <3>1, <3>2
    <2>2. pc[h] \in Making
        BY <1>6 DEF DeleteLock, Broadcast, SyncRead, Goto
    <2>3. QED
        BY <2>1, <2>2 DEF EntryInv
<1>7. ASSUME NEW h \in Handlers, pc'[h] \notin Making,
             \A g \in Handlers : g # h => pc'[g] = pc[g],
             UNCHANGED <<entry, resets, resetting, crashed>>
      PROVE  EntryInv'
    BY <1>7 DEF EntryInv
<1>8. ASSUME NEW h \in Handlers,
             \/ LoadHit(h) \/ LoadMiss(h) \/ LockLoaded(h) \/ LockStored(h) \/ Wait(h)
      PROVE  EntryInv'
    <2>1. UNCHANGED <<entry, resets, resetting, crashed>>
        BY <1>8 DEF LoadHit, LoadMiss, LockLoaded, LockStored, Wait, mapVars, outerVars
    <2>2. pc'[h] \notin Making /\ \A g \in Handlers : g # h => pc'[g] = pc[g]
        BY <1>0, <1>8 DEF LoadHit, LoadMiss, LockLoaded, LockStored, Wait, Goto, HandlerType
    <2>3. QED
        BY <1>7, <2>1, <2>2
<1>9. ASSUME NEW h \in Handlers,
             AddConn(h) \/ AddConnTotal(h) \/ Activate(h) \/ Uncount(h) \/ CheckLast(h) \/ Stamp(h)
      PROVE  EntryInv'
    <2>1. UNCHANGED <<entry, resets, resetting, crashed>>
        BY <1>9 DEF AddConn, AddConnTotal, Activate, Uncount, CheckLast, Stamp, mapVars, outerVars
    <2>2. pc'[h] \notin Making /\ \A g \in Handlers : g # h => pc'[g] = pc[g]
        BY <1>0, <1>9 DEF AddConn, AddConnTotal, Activate, Uncount, CheckLast, Stamp, Goto, HandlerType
    <2>3. QED
        BY <1>7, <2>1, <2>2
<1>10. QED
    BY <1>2, <1>3, <1>4, <1>5, <1>6, <1>8, <1>9
       DEF Next, Acquire, Use, vars, mapVars, handlerVars, outerVars, Traffic, PollStart, PollSwap, PollAdd

-----------------------------------------------------------------------------
(* Sums over finite sets.  Strict inclusion is well founded on the finite   *)
(* sets, so a set of subsets that is not all of them leaves out a smallest  *)
(* one: this is induction with a set in the place of a predicate.           *)

LEMMA SubsetInduction ==
    ASSUME NEW S, IsFiniteSet(S), NEW G, {} \in G,
           \A s \in SUBSET S : s # {} /\ (\A x \in s : s \ {x} \in G) => s \in G
    PROVE  \A s \in SUBSET S : s \in G
<1> DEFINE Bad == {s \in SUBSET S : s \notin G}
<1>1. SUFFICES ASSUME Bad # {} PROVE FALSE
    OBVIOUS
<1>2. Bad \subseteq FiniteSubsetsOf(S)
    BY FS_Subset DEF FiniteSubsetsOf
<1>3. PICK s \in Bad : \A t \in Bad : <<t, s>> \notin StrictSubsetOrdering(S)
    <2> HIDE DEF Bad
    <2>1. QED
        BY <1>1, <1>2, WFMin, FS_StrictSubsetOrderingWellFounded
<1>4. s # {} /\ s \in SUBSET S /\ s \notin G
    OBVIOUS
<1>5. ASSUME NEW x \in s
      PROVE  s \ {x} \in G
    <2>1. s \ {x} \in SUBSET S /\ s \ {x} # s
        BY <1>4, <1>5
    <2>2. <<s \ {x}, s>> \in StrictSubsetOrdering(S)
        BY <1>4, <2>1 DEF StrictSubsetOrdering
    <2>3. QED
        BY <1>3, <2>1, <2>2
<1>6. QED
    BY <1>4, <1>5

PickOne(s) == CHOOSE x \in s : TRUE

SumStep(f, g, s) == IF s = {} THEN 0 ELSE f[PickOne(s)] + g[s \ {PickOne(s)}]

(* g gives every subset of S the sum of f over it. *)
IsSumOn(f, S, g) == g = [s \in SUBSET S |-> SumStep(f, g, s)]

SumOver(f, S) == MapThenSumSet(LAMBDA x : f[x], S)

LEMMA PickOneIn == \A s : s # {} => PickOne(s) \in s
BY DEF PickOne

LEMMA SumOverUnfolds ==
    ASSUME NEW f, NEW S
    PROVE  SumOver(f, S) = (CHOOSE g : IsSumOn(f, S, g))[S]
BY DEF SumOver, MapThenSumSet, MapThenFoldSet, IsSumOn, SumStep, PickOne

UpTo(S, n) == {s \in SUBSET S : Cardinality(s) <= n}

(* The recursion that defines a sum has a solution. *)
LEMMA SumExists ==
    ASSUME NEW S, IsFiniteSet(S), NEW f
    PROVE  \E g : IsSumOn(f, S, g)
<1> DEFINE Solvable(n) == \E g : g = [s \in UpTo(S, n) |-> SumStep(f, g, s)]
           G == {t \in SUBSET S : Solvable(Cardinality(t))}
<1>1. \A s \in SUBSET S : IsFiniteSet(s) /\ Cardinality(s) \in Nat /\ Cardinality(s) <= Cardinality(S)
    BY FS_Subset, FS_CardinalityType
<1>2. {} \in G
    <2> DEFINE g == [s \in UpTo(S, 0) |-> 0]
    <2>1. \A s \in UpTo(S, 0) : s = {}
        <3> SUFFICES ASSUME NEW s \in UpTo(S, 0) PROVE s = {}
            OBVIOUS
        <3>1. IsFiniteSet(s) /\ Cardinality(s) \in Nat /\ Cardinality(s) <= 0
            BY <1>1 DEF UpTo
        <3>2. QED
            BY <3>1, FS_EmptySet
    <2>2. g = [s \in UpTo(S, 0) |-> SumStep(f, g, s)]
        BY <2>1 DEF SumStep
    <2>3. QED
        BY <2>2, FS_EmptySet
<1>3. ASSUME NEW t \in SUBSET S, t # {}, \A x \in t : t \ {x} \in G
      PROVE  t \in G
    <2> DEFINE n == Cardinality(t \ {PickOne(t)})
    <2>1. PickOne(t) \in t /\ t \ {PickOne(t)} \in SUBSET S
        BY <1>3, PickOneIn
    <2>2. n \in Nat /\ Cardinality(t) = n + 1
        BY <1>1, <2>1, FS_RemoveElement
    <2>3. Solvable(n)
        BY <1>3, <2>1
    <2> HIDE DEF n
    <2>4. PICK g : g = [s \in UpTo(S, n) |-> SumStep(f, g, s)]
        BY <2>3
    <2> DEFINE h == [s \in UpTo(S, n + 1) |-> SumStep(f, g, s)]
    <2>5. ASSUME NEW s \in UpTo(S, n + 1), s # {}
          PROVE  s \ {PickOne(s)} \in UpTo(S, n)
        <3>1. PickOne(s) \in s /\ s \in SUBSET S /\ Cardinality(s) <= n + 1
            BY <2>5, PickOneIn DEF UpTo
        <3>2. Cardinality(s \ {PickOne(s)}) = Cardinality(s) - 1
            BY <1>1, <3>1, FS_RemoveElement
        <3>3. QED
            BY <1>1, <2>2, <3>1, <3>2 DEF UpTo
    <2>6. \A s \in UpTo(S, n) : s \in UpTo(S, n + 1)
        BY <1>1, <2>2 DEF UpTo
    <2>7. \A s \in UpTo(S, n) : h[s] = g[s]
        BY <2>4, <2>6
    <2>8. \A s \in UpTo(S, n + 1) : SumStep(f, g, s) = SumStep(f, h, s)
        BY <2>5, <2>7 DEF SumStep
    <2>9. h = [s \in UpTo(S, n + 1) |-> SumStep(f, h, s)]
        BY <2>8
    <2> HIDE DEF h
    <2>10. QED
        BY <2>2, <2>9
<1>4. S \in G
    <2> HIDE DEF G, Solvable
    <2>1. \A s \in SUBSET S : s # {} /\ (\A x \in s : s \ {x} \in G) => s \in G
        BY <1>3
    <2>2. \A s \in SUBSET S : s \in G
        BY <1>2, <2>1, SubsetInduction
    <2>3. QED
        BY <2>2
<1>5. PICK g : g = [s \in UpTo(S, Cardinality(S)) |-> SumStep(f, g, s)]
    BY <1>4
<1>6. UpTo(S, Cardinality(S)) = SUBSET S
    BY <1>1 DEF UpTo
<1>7. IsSumOn(f, S, g)
    BY <1>5, <1>6 DEF IsSumOn
<1>8. QED
    BY <1>7

(* It has only one, and it depends only on the values over the set. *)
LEMMA SumUnique ==
    ASSUME NEW S, IsFiniteSet(S), NEW T, NEW f, NEW e, NEW g, NEW h, IsSumOn(f, S, g), IsSumOn(e, T, h),
           NEW U \in SUBSET S, U \in SUBSET T, \A x \in U : e[x] = f[x]
    PROVE  g[U] = h[U]
<1> DEFINE G == {s \in SUBSET U : g[s] = h[s]}
<1>1. IsFiniteSet(U)
    BY FS_Subset
<1>2. {} \in G
    BY DEF IsSumOn, SumStep
<1>3. ASSUME NEW s \in SUBSET U, s # {}, \A x \in s : s \ {x} \in G
      PROVE  s \in G
    <2>1. PickOne(s) \in s
        BY <1>3, PickOneIn
    <2>2. g[s \ {PickOne(s)}] = h[s \ {PickOne(s)}] /\ e[PickOne(s)] = f[PickOne(s)]
        BY <1>3, <2>1
    <2>3. g[s] = f[PickOne(s)] + g[s \ {PickOne(s)}]
        BY <1>3 DEF IsSumOn, SumStep
    <2>4. h[s] = e[PickOne(s)] + h[s \ {PickOne(s)}]
        BY <1>3 DEF IsSumOn, SumStep
    <2>5. QED
        BY <2>2, <2>3, <2>4
<1>4. U \in G
    <2> HIDE DEF G
    <2>1. QED
        BY <1>1, <1>2, <1>3, SubsetInduction
<1>5. QED
    BY <1>4

LEMMA SumOverIs ==
    ASSUME NEW S, IsFiniteSet(S), NEW T, NEW f, NEW e, NEW g, IsSumOn(e, T, g), S \in SUBSET T,
           \A x \in S : e[x] = f[x]
    PROVE  SumOver(f, S) = g[S]
<1> DEFINE h == CHOOSE h : IsSumOn(f, S, h)
<1>1. IsSumOn(f, S, h)
    BY SumExists
<1>2. SumOver(f, S) = h[S]
    BY SumOverUnfolds
<1> HIDE DEF h
<1>3. QED
    BY <1>1, <1>2, SumUnique

LEMMA SumOverSame ==
    ASSUME NEW S, IsFiniteSet(S), NEW f, NEW e, \A x \in S : e[x] = f[x]
    PROVE  SumOver(f, S) = SumOver(e, S)
<1>1. PICK g : IsSumOn(e, S, g)
    BY SumExists
<1>2. SumOver(f, S) = g[S] /\ SumOver(e, S) = g[S]
    BY <1>1, SumOverIs
<1>3. QED
    BY <1>2

LEMMA SumOverPick ==
    ASSUME NEW S, IsFiniteSet(S), NEW f
    PROVE  SumOver(f, S) = IF S = {} THEN 0 ELSE f[PickOne(S)] + SumOver(f, S \ {PickOne(S)})
<1>1. PICK g : IsSumOn(f, S, g)
    BY SumExists
<1>2. SumOver(f, S) = g[S]
    BY <1>1, SumOverIs
<1>3. SumOver(f, S \ {PickOne(S)}) = g[S \ {PickOne(S)}]
    <2>1. IsFiniteSet(S \ {PickOne(S)}) /\ S \ {PickOne(S)} \in SUBSET S
        BY FS_Subset
    <2>2. QED
        BY <1>1, <2>1, SumOverIs
<1>4. QED
    BY <1>1, <1>2, <1>3 DEF IsSumOn, SumStep

LEMMA SumOverType ==
    ASSUME NEW S, IsFiniteSet(S), NEW f, \A x \in S : f[x] \in Nat
    PROVE  \A s \in SUBSET S : IsFiniteSet(s) /\ SumOver(f, s) \in Nat
<1> DEFINE G == {s \in SUBSET S : SumOver(f, s) \in Nat}
<1>1. \A s \in SUBSET S : IsFiniteSet(s)
    BY FS_Subset
<1>2. {} \in G
    <2>1. IsFiniteSet({}) /\ SumOver(f, {}) = 0
        BY <1>1, SumOverPick
    <2>2. QED
        BY <2>1
<1>3. ASSUME NEW s \in SUBSET S, s # {}, \A x \in s : s \ {x} \in G
      PROVE  s \in G
    <2>1. PickOne(s) \in s
        BY <1>3, PickOneIn
    <2>2. SumOver(f, s \ {PickOne(s)}) \in Nat /\ f[PickOne(s)] \in Nat
        BY <1>3, <2>1
    <2>3. SumOver(f, s) = f[PickOne(s)] + SumOver(f, s \ {PickOne(s)})
        BY <1>1, <1>3, SumOverPick
    <2>4. QED
        BY <2>2, <2>3
<1>4. \A s \in SUBSET S : s \in G
    <2> HIDE DEF G
    <2>1. QED
        BY <1>2, <1>3, SubsetInduction
<1>5. QED
    BY <1>1, <1>4

(* Whatever element is taken out, the sum is its value and the rest. *)
LEMMA SumOverRemove ==
    ASSUME NEW S, IsFiniteSet(S), NEW f, \A x \in S : f[x] \in Nat
    PROVE  \A x \in S : SumOver(f, S) = SumOver(f, S \ {x}) + f[x]
<1> DEFINE Splits(s) == \A x \in s : SumOver(f, s) = SumOver(f, s \ {x}) + f[x]
           G == {s \in SUBSET S : Splits(s)}
<1>1. \A s \in SUBSET S : IsFiniteSet(s) /\ SumOver(f, s) \in Nat
    BY SumOverType
<1>2. {} \in G
    OBVIOUS
<1>3. ASSUME NEW s \in SUBSET S, s # {}, \A x \in s : s \ {x} \in G
      PROVE  s \in G
    <2> DEFINE c == PickOne(s)
    <2>1. c \in s
        BY <1>3, PickOneIn
    <2>2. SumOver(f, s) = f[c] + SumOver(f, s \ {c})
        BY <1>1, <1>3, SumOverPick
    <2> HIDE DEF c
    <2>3. ASSUME NEW x \in s
          PROVE  SumOver(f, s) = SumOver(f, s \ {x}) + f[x]
        <3>1. CASE c = x
            BY <1>1, <2>2, <3>1
        <3>2. CASE c # x
            <4>1. x \in s \ {c} /\ c \in s \ {x} /\ (s \ {x}) \ {c} = (s \ {c}) \ {x}
                BY <2>1, <3>2
            <4>2. SumOver(f, s \ {c}) = SumOver(f, (s \ {c}) \ {x}) + f[x]
                BY <1>3, <2>1, <4>1
            <4>3. SumOver(f, s \ {x}) = SumOver(f, (s \ {c}) \ {x}) + f[c]
                BY <1>3, <4>1
            <4>4. SumOver(f, (s \ {c}) \ {x}) \in Nat /\ f[x] \in Nat /\ f[c] \in Nat
                BY <1>1, <2>1
            <4>5. QED
                BY <2>2, <4>2, <4>3, <4>4
        <3>3. QED
            BY <3>1, <3>2
    <2>4. QED
        BY <2>3
<1>4. S \in G
    <2> HIDE DEF G, Splits
    <2>1. \A s \in SUBSET S : s # {} /\ (\A x \in s : s \ {x} \in G) => s \in G
        BY <1>3
    <2>2. \A s \in SUBSET S : s \in G
        BY <1>2, <2>1, SubsetInduction
    <2>3. QED
        BY <2>2
<1>5. QED
    BY <1>4

-----------------------------------------------------------------------------
(* The bytes.                                                               *)

(* The pollers that have taken bytes off x's uplink or downlink and not yet *)
(* added them to its total, and what each of them has in hand.              *)
Adding(x, l) == {r \in Pollers : poll[r].pc = "add" /\ poll[r].rec = x /\ poll[r].link = l}
InHand == [r \in Pollers |-> poll[r].n]

FieldSum(p, S) == MapThenSumSet(LAMBDA r : p[r].n, S)

LEMMA FieldSumIsSum ==
    ASSUME NEW p, NEW S \in SUBSET Pollers
    PROVE  FieldSum(p, S) = SumOver([r \in Pollers |-> p[r].n], S)
<1> DEFINE e == [r \in Pollers |-> p[r].n]
           P(g) == g = [s \in SUBSET S |-> IF s = {} THEN 0 ELSE p[PickOne(s)].n + g[s \ {PickOne(s)}]]
           h == CHOOSE g : P(g)
<1>1. FieldSum(p, S) = h[S]
    BY DEF FieldSum, MapThenSumSet, MapThenFoldSet, PickOne
<1>2. IsFiniteSet(S)
    BY PollerAssumption, FS_Subset
<1>3. ASSUME NEW g PROVE P(g) <=> IsSumOn(e, S, g)
    <2>1. \A s \in SUBSET S : s # {} => e[PickOne(s)] = p[PickOne(s)].n
        BY PickOneIn
    <2> HIDE DEF e
    <2>2. \A s \in SUBSET S : SumStep(e, g, s) = IF s = {} THEN 0 ELSE p[PickOne(s)].n + g[s \ {PickOne(s)}]
        BY <2>1 DEF SumStep
    <2>3. QED
        BY <2>2 DEF IsSumOn
<1>4. \E g : P(g)
    <2> HIDE DEF P, e
    <2>1. QED
        BY <1>2, <1>3, SumExists
<1>5. P(h)
    BY <1>4
<1>6. IsSumOn(e, S, h)
    <2> HIDE DEF P, e, h
    <2>1. QED
        BY <1>3, <1>5
<1>7. SumOver(e, S) = h[S]
    <2> HIDE DEF e, h
    <2>1. QED
        BY <1>2, <1>6, SumOverIs
<1>8. QED
    BY <1>1, <1>7

LEMMA InFlightIsSum ==
    ASSUME NEW x, NEW l
    PROVE  /\ InFlight(x, l) = SumOver(InHand, Adding(x, l))
           /\ InFlight(x, l)' = SumOver(InHand', Adding(x, l)')
<1>1. InFlight(x, l) = FieldSum(poll, Adding(x, l))
    BY DEF InFlight, FieldSum, Adding
<1>2. InFlight(x, l)' = FieldSum(poll', Adding(x, l)')
    BY DEF InFlight, FieldSum, Adding, MapThenSumSet, MapThenFoldSet
<1>3. Adding(x, l) \in SUBSET Pollers /\ Adding(x, l)' \in SUBSET Pollers
    BY DEF Adding
<1>4. QED
    BY <1>1, <1>2, <1>3, FieldSumIsSum DEF InHand

(* What one poller does changes the bytes in flight by what it takes into   *)
(* its hand or puts down.                                                   *)
LEMMA InFlightChange ==
    ASSUME OuterType, OuterType', NEW r \in Pollers, \A q \in Pollers : q # r => poll'[q] = poll[q],
           NEW x, NEW l
    PROVE  \E rest \in Nat :
              /\ InFlight(x, l) = rest + (IF r \in Adding(x, l) THEN poll[r].n ELSE 0)
              /\ InFlight(x, l)' = rest + (IF r \in Adding(x, l)' THEN poll'[r].n ELSE 0)
<1> DEFINE A == Adding(x, l)
           B == Adding(x, l)'
           e == InHand
           f == InHand'
<1>1. IsFiniteSet(A) /\ IsFiniteSet(B) /\ A \subseteq Pollers /\ B \subseteq Pollers
    BY PollerAssumption, FS_Subset DEF Adding
<1>2. \A q \in Pollers : e[q] \in Nat /\ f[q] \in Nat
    BY DEF InHand, OuterType, PollRecord
<1>3. A \ {r} = B \ {r}
    BY DEF Adding
<1>4. \A q \in A \ {r} : e[q] = f[q]
    BY <1>1 DEF InHand
<1>5. e[r] = poll[r].n /\ f[r] = poll'[r].n
    BY DEF InHand
<1>6. InFlight(x, l) = SumOver(e, A) /\ InFlight(x, l)' = SumOver(f, B)
    BY InFlightIsSum
<1> HIDE DEF A, B, e, f
<1>7. \A q \in A : e[q] \in Nat
    BY <1>1, <1>2
<1>8. \A q \in B : f[q] \in Nat
    BY <1>1, <1>2
<1>9. SumOver(e, A) = SumOver(e, A \ {r}) + (IF r \in A THEN e[r] ELSE 0)
    <2>1. SumOver(e, A) \in Nat
        BY <1>1, <1>7, SumOverType
    <2>2. CASE r \in A
        BY <1>1, <1>7, <2>2, SumOverRemove
    <2>3. CASE r \notin A
        <3>1. A \ {r} = A
            BY <2>3
        <3>2. QED
            BY <2>1, <2>3, <3>1
    <2>4. QED
        BY <2>2, <2>3
<1>10. SumOver(f, B) = SumOver(f, B \ {r}) + (IF r \in B THEN f[r] ELSE 0)
    <2>1. SumOver(f, B) \in Nat
        BY <1>1, <1>8, SumOverType
    <2>2. CASE r \in B
        BY <1>1, <1>8, <2>2, SumOverRemove
    <2>3. CASE r \notin B
        <3>1. B \ {r} = B
            BY <2>3
        <3>2. QED
            BY <2>1, <2>3, <3>1
    <2>4. QED
        BY <2>2, <2>3
<1>11. SumOver(e, A \ {r}) \in Nat
    BY <1>1, <1>7, SumOverType
<1>12. SumOver(e, A \ {r}) = SumOver(f, A \ {r})
    <2>1. IsFiniteSet(A \ {r})
        BY <1>1, FS_Subset
    <2>2. QED
        BY <1>4, <2>1, SumOverSame
<1>13. QED
    BY <1>3, <1>5, <1>6, <1>9, <1>10, <1>11, <1>12 DEF A, B

LEMMA TrafficInductive ==
    ASSUME TypeOK, RecInv, TrafficConserved, [Next]_vars
    PROVE  TrafficConserved'
<1>0. RecordType /\ OuterType /\ RecordType' /\ OuterType'
    BY TypeSplit, RecordTypeInductive, OuterTypeInductive
<1>1. SUFFICES ASSUME NEW x \in Handlers, NEW l \in Links
               PROVE  cur'[x][l] + total'[x][l] + InFlight(x, l)' = sent'[x][l]
    BY DEF TrafficConserved
<1>2. cur[x][l] + total[x][l] + InFlight(x, l) = sent[x][l]
    BY DEF TrafficConserved
<1>3. /\ cur[x][l] \in Nat /\ total[x][l] \in Nat /\ sent[x][l] \in Nat
    BY <1>0 DEF RecordType
<1>4. InFlight(x, l) \in Nat
    <2>1. IsFiniteSet(Adding(x, l)) /\ \A r \in Adding(x, l) : InHand[r] \in Nat
        BY <1>0, PollerAssumption, FS_Subset DEF Adding, InHand, OuterType, PollRecord
    <2>2. QED
        BY <2>1, SumOverType, InFlightIsSum
<1>5. ASSUME UNCHANGED poll
      PROVE  InFlight(x, l)' = InFlight(x, l)
    <2>1. Adding(x, l)' = Adding(x, l) /\ InHand' = InHand
        BY <1>5 DEF Adding, InHand
    <2>2. QED
        BY <2>1, InFlightIsSum
<1>6. CASE UNCHANGED <<cur, total, sent, poll>>
    BY <1>2, <1>5, <1>6
<1>7. ASSUME NEW h \in Handlers, NEW k \in Links, Traffic(h, k)
      PROVE  cur'[x][l] + total'[x][l] + InFlight(x, l)' = sent'[x][l]
    <2>1. rec[h] \in Handlers
        BY <1>7, UserHasRecord DEF Traffic
    <2>2. cur[rec[h]][k] \in Nat /\ sent[rec[h]][k] \in Nat
        BY <1>0, <2>1 DEF RecordType
    <2>3. cur'[x][l] = IF x = rec[h] /\ l = k THEN cur[x][l] + 1 ELSE cur[x][l]
        <3>1. cur' = [cur EXCEPT ![rec[h]][k] = cur[rec[h]][k] + 1]
            BY <1>7 DEF Traffic
        <3>2. cur[rec[h]][k] + 1 \in Nat
            BY <2>2
        <3>3. QED
            BY <1>0, <2>1, <3>1, <3>2 DEF RecordType
    <2>4. sent'[x][l] = IF x = rec[h] /\ l = k THEN sent[x][l] + 1 ELSE sent[x][l]
        <3>1. sent' = [sent EXCEPT ![rec[h]][k] = sent[rec[h]][k] + 1]
            BY <1>7 DEF Traffic
        <3>2. sent[rec[h]][k] + 1 \in Nat
            BY <2>2
        <3>3. QED
            BY <1>0, <2>1, <3>1, <3>2 DEF RecordType
    <2>5. UNCHANGED <<total, poll>>
        BY <1>7 DEF Traffic, outerVars
    <2>6. QED
        BY <1>2, <1>3, <1>4, <1>5, <2>3, <2>4, <2>5
<1>8. ASSUME NEW r \in Pollers, PollStart(r)
      PROVE  cur'[x][l] + total'[x][l] + InFlight(x, l)' = sent'[x][l]
    <2>1. UNCHANGED <<cur, total, sent>> /\ \A q \in Pollers : q # r => poll'[q] = poll[q]
        BY <1>0, <1>8 DEF PollStart, recordVars, OuterType
    <2>2. r \notin Adding(x, l) /\ r \notin Adding(x, l)'
        BY <1>0, <1>8 DEF PollStart, Adding, NoPoll, OuterType
    <2>3. InFlight(x, l)' = InFlight(x, l)
        BY <1>0, <2>1, <2>2, InFlightChange
    <2>4. QED
        BY <1>2, <2>1, <2>3
<1>9. ASSUME NEW r \in Pollers, PollSwap(r)
      PROVE  cur'[x][l] + total'[x][l] + InFlight(x, l)' = sent'[x][l]
    <2>1. /\ poll[r].rec \in Handlers /\ poll[r].link \in Links
          /\ poll' = [poll EXCEPT ![r].pc = "add", ![r].n = cur[poll[r].rec][poll[r].link]]
          /\ cur' = [cur EXCEPT ![poll[r].rec][poll[r].link] = 0]
          /\ poll[r].pc = "swap" /\ UNCHANGED <<total, sent>>
        BY <1>0, <1>9 DEF PollSwap, OuterType, PollRecord
    <2>2. /\ \A q \in Pollers : q # r => poll'[q] = poll[q]
          /\ poll'[r].pc = "add" /\ poll'[r].rec = poll[r].rec /\ poll'[r].link = poll[r].link
          /\ poll'[r].n = cur[poll[r].rec][poll[r].link]
        BY <1>0, <2>1 DEF OuterType, PollRecord
    <2>3. r \notin Adding(x, l) /\ (r \in Adding(x, l)' <=> x = poll[r].rec /\ l = poll[r].link)
        BY <2>1, <2>2 DEF Adding
    <2>4. cur'[x][l] = IF x = poll[r].rec /\ l = poll[r].link THEN 0 ELSE cur[x][l]
        BY <1>0, <2>1, CounterUpdate DEF RecordType
    <2>5. InFlight(x, l)' = InFlight(x, l) + (IF x = poll[r].rec /\ l = poll[r].link THEN cur[x][l] ELSE 0)
        <3>1. PICK rest \in Nat :
                 /\ InFlight(x, l) = rest + (IF r \in Adding(x, l) THEN poll[r].n ELSE 0)
                 /\ InFlight(x, l)' = rest + (IF r \in Adding(x, l)' THEN poll'[r].n ELSE 0)
            BY <1>0, <2>2, InFlightChange
        <3>2. QED
            BY <2>2, <2>3, <3>1
    <2>6. QED
        BY <1>2, <1>3, <1>4, <2>1, <2>4, <2>5
<1>10. ASSUME NEW r \in Pollers, PollAdd(r)
       PROVE  cur'[x][l] + total'[x][l] + InFlight(x, l)' = sent'[x][l]
    <2>1. /\ poll[r] \in PollRecord /\ poll[r].rec \in Handlers /\ poll[r].pc = "add"
          /\ UNCHANGED <<cur, sent>>
          /\ total' = [total EXCEPT ![poll[r].rec][poll[r].link] = total[poll[r].rec][poll[r].link] + poll[r].n]
        BY <1>0, <1>10 DEF PollAdd, OuterType
    <2>2. poll[r].link \in Links /\ poll[r].n \in Nat /\ total[poll[r].rec][poll[r].link] + poll[r].n \in Nat
        BY <1>0, <2>1 DEF PollRecord, RecordType
    <2>3. (\A q \in Pollers : q # r => poll'[q] = poll[q]) /\ poll'[r].pc # "add"
        <3>1. poll' = [poll EXCEPT ![r] = IF poll[r].link = "up"
                                          THEN [poll[r] EXCEPT !.pc = "swap", !.link = "down", !.n = 0]
                                          ELSE NoPoll]
            BY <1>10 DEF PollAdd
        <3>2. /\ [poll[r] EXCEPT !.pc = "swap", !.link = "down", !.n = 0].pc = "swap"
              /\ NoPoll.pc = "idle"
            BY <2>1 DEF PollRecord, NoPoll
        <3>3. QED
            BY <1>0, <3>1, <3>2 DEF OuterType
    <2>4. r \notin Adding(x, l)' /\ (r \in Adding(x, l) <=> x = poll[r].rec /\ l = poll[r].link)
        BY <2>1, <2>3 DEF Adding
    <2>5. total'[x][l] = IF x = poll[r].rec /\ l = poll[r].link THEN total[x][l] + poll[r].n ELSE total[x][l]
        BY <1>0, <2>1, <2>2 DEF RecordType
    <2>6. PICK rest \in Nat :
             /\ InFlight(x, l) = rest + (IF r \in Adding(x, l) THEN poll[r].n ELSE 0)
             /\ InFlight(x, l)' = rest + (IF r \in Adding(x, l)' THEN poll'[r].n ELSE 0)
        BY <1>0, <2>3, InFlightChange
    <2>7. InFlight(x, l) = InFlight(x, l)' + (IF x = poll[r].rec /\ l = poll[r].link THEN poll[r].n ELSE 0)
          /\ InFlight(x, l)' \in Nat
        BY <2>2, <2>4, <2>6
    <2>8. QED
        BY <1>2, <1>3, <2>1, <2>2, <2>5, <2>7
<1>11. ASSUME NEW h \in Handlers, Acquire(h) \/ AddConn(h) \/ AddConnTotal(h) \/ Activate(h) \/ Uncount(h)
                                  \/ CheckLast(h) \/ Stamp(h)
       PROVE  UNCHANGED <<cur, total, sent, poll>>
    BY <1>11 DEF Acquire, LoadHit, LoadMiss, LockLoaded, LockStored, StoreRecord, DeleteLock, Broadcast, Wait,
           SyncRead, AddConn, AddConnTotal, Activate, Uncount, CheckLast, Stamp, recordVars, outerVars
<1>12. CASE ResetCollect \/ ResetDelete
    BY <1>6, <1>12 DEF ResetCollect, ResetDelete, recordVars
<1>13. QED
    BY <1>6, <1>7, <1>8, <1>9, <1>10, <1>11, <1>12 DEF Next, Use, vars, recordVars, outerVars

-----------------------------------------------------------------------------
(* The theorems.                                                            *)

LEMMA InitIInv == Init => IInv
<1> SUFFICES ASSUME Init PROVE IInv
    OBVIOUS
<1>1. PICK c \in Casts : cast = c /\ pc = [h \in Handlers |-> IF h \in c.handlers THEN "load" ELSE "done"]
    BY DEF Init
<1>2. c.polls \in Nat /\ c.resets \in Nat
    BY CastAssumption
<1>3. RecordType
    BY DEF Init, RecordType
<1>4. HandlerType
    <2>1. pc \in [Handlers -> Places]
        BY <1>1 DEF Places
    <2>2. /\ rec \in [Handlers -> Handlers \cup {None}] /\ waitOn \in [Handlers -> Handlers \cup {None}]
          /\ seen \in [Handlers -> Int]
        BY DEF Init
    <2>3. entry = None /\ cond = None /\ crashed \in BOOLEAN /\ missed = {}
        BY DEF Init
    <2>4. QED
        BY <2>1, <2>2, <2>3 DEF HandlerType
<1>5. HasRecord /\ RecInv
    BY <1>1 DEF Init, HasRecord, RecInv, Acquiring
<1>6. OuterType
    <2>1. NoPoll \in PollRecord /\ NoPoll.pc = "idle"
        BY DEF NoPoll, PollRecord, Links
    <2>2. polls \in 0..cast.polls /\ resets \in 0..cast.resets /\ cast \in Casts
        BY <1>1, <1>2 DEF Init
    <2>3. QED
        BY <2>1, <2>2 DEF Init, OuterType
<1>7. CountsMatchHolders
    <2> SUFFICES ASSUME NEW x \in Handlers, NEW k \in Kinds
                 PROVE  conn[x][k] = Cardinality({h \in Handlers : Kind(h) = k /\ rec[h] = x /\ pc[h] \in Counted})
        BY DEF CountsMatchHolders
    <2>1. {h \in Handlers : Kind(h) = k /\ rec[h] = x /\ pc[h] \in Counted} = {}
        BY <1>1 DEF Counted
    <2>2. QED
        BY <2>1, FS_EmptySet DEF Init
<1>8. LastInv
    BY HandlerAssumption DEF Init, LastInv
<1>9. EntryInv
    BY <1>1 DEF Init, EntryInv
<1>10. TrafficConserved
    <2> SUFFICES ASSUME NEW x \in Handlers, NEW l \in Links
                 PROVE  cur[x][l] + total[x][l] + InFlight(x, l) = sent[x][l]
        BY DEF TrafficConserved
    <2>1. Adding(x, l) = {}
        BY DEF Init, Adding, NoPoll
    <2>2. InFlight(x, l) = 0
        BY <2>1, InFlightIsSum, SumOverPick, FS_EmptySet
    <2>3. QED
        BY <2>2 DEF Init
<1>11. QED
    BY <1>3, <1>4, <1>5, <1>6, <1>7, <1>8, <1>9, <1>10, TypeSplit DEF IInv

LEMMA NextIInv == IInv /\ [Next]_vars => IInv'
<1> SUFFICES ASSUME IInv, [Next]_vars PROVE IInv'
    OBVIOUS
<1>1. TypeOK /\ RecInv /\ CountsMatchHolders /\ LastInv /\ EntryInv /\ TrafficConserved
    BY DEF IInv
<1>2. TypeOK' /\ RecInv'
    BY <1>1, TypeInductive
<1>3. CountsMatchHolders'
    BY <1>1, CountsInductive
<1>4. LastInv' /\ EntryInv'
    BY <1>1, <1>3, LastInductive, EntryInductive
<1>5. TrafficConserved'
    BY <1>1, TrafficInductive
<1>6. QED
    BY <1>2, <1>3, <1>4, <1>5 DEF IInv

LEMMA Invariance == Spec => []IInv
BY InitIInv, NextIInv, PTL DEF Spec

(* Every variable keeps its type; in particular a handler that counts,      *)
(* relays or stamps has a record (tun.go:308-320 never meets a nil stats).  *)
THEOREM TypeCorrect == Spec => []TypeOK
BY Invariance, PTL DEF IInv

(* tcpConn and udpConn of a record are the numbers of its TCP and UDP       *)
(* connections between AddInt32(1) and AddInt32(-1), also after a reset     *)
(* took the record out of appStats or another one replaced it.              *)
THEOREM CountsMatchHoldersAlways == Spec => []CountsMatchHolders
BY Invariance, PTL DEF IInv

(* A record that somebody used and all have left has its deactivateAt set,  *)
(* however the ends and the starts of its connections interleave.           *)
THEOREM QuietIsStampedAlways == Spec => []QuietIsStamped
<1>1. IInv => QuietIsStamped
    BY DEF IInv, LastInv, QuietIsStamped, Leaving
<1>2. QED
    BY <1>1, Invariance, PTL

(* "unexpected sync read failed" (tun.go:303, 523) is raised only after a   *)
(* call of ResetAppTraffics: no interleaving of connections alone gets there. *)
THEOREM PanicNeedsResetAlways == Spec => []PanicNeedsReset
<1>1. IInv => PanicNeedsReset
    <2> SUFFICES ASSUME IInv PROVE PanicNeedsReset
        OBVIOUS
    <2>1. resets \in Nat
        BY TypeSplit, CastType DEF IInv, OuterType
    <2>2. QED
        BY <2>1 DEF IInv, EntryInv, PanicNeedsReset
<1>2. QED
    BY <1>1, Invariance, PTL

(* Every byte a connection added to a record's uplink or downlink is there, *)
(* in the total, or in the hand of a ReadAppTraffics between its SwapUint64 *)
(* and its AddUint64, whatever number of polls and connections run at once. *)
THEOREM TrafficConservedAlways == Spec => []TrafficConserved
BY Invariance, PTL DEF IInv

=============================================================================
