------------------------------ MODULE AppStats ------------------------------
(***************************************************************************)
(* Per-app traffic statistics (stats.go, and the trafficStats blocks of    *)
(* NewConnection and newPacket in tun.go).                                 *)
(*                                                                         *)
(* Every relayed connection of an app (a handler goroutine) finds or makes *)
(* the app's appStats record, counts itself in it, adds its bytes to it    *)
(* and, at its end, stamps deactivateAt if it was the last one.  The       *)
(* record is made under a lock table: the first handler stores a sync.Cond *)
(* in lockTable, the others Wait on it.  Meanwhile the Android side calls  *)
(* ReadAppTraffics and ResetAppTraffics.  Every sync.Map or atomic call is *)
(* one step.                                                               *)
(*                                                                         *)
(* One uid is modelled: the maps are keyed by uid and no code relates two  *)
(* keys.  A record, and a Cond, is named by the handler that made it.      *)
(***************************************************************************)
EXTENDS Integers, FiniteSets, FiniteSetsExt

CONSTANTS
    TcpHandlers,  \* calls of NewConnection for the uid
    UdpHandlers,  \* calls of newPacket that open a session for the uid
    Pollers,      \* threads that call ReadAppTraffics
    None,         \* no map entry
    Casts         \* what may take part: the handlers, and bounds on the bytes a record
                  \* counts in one direction, on the calls of ReadAppTraffics and on
                  \* those of ResetAppTraffics

Handlers == TcpHandlers \cup UdpHandlers

ASSUME HandlerAssumption ==
    /\ IsFiniteSet(Handlers) /\ TcpHandlers \cap UdpHandlers = {} /\ None \notin Handlers
ASSUME PollerAssumption == IsFiniteSet(Pollers)
ASSUME CastAssumption ==
    Casts \subseteq [handlers : SUBSET Handlers, traffic : Nat, polls : Nat, resets : Nat]

Kinds == {"tcp", "udp"}
Links == {"up", "down"}
Kind(h) == IF h \in TcpHandlers THEN "tcp" ELSE "udp"
Other(k) == IF k = "tcp" THEN "udp" ELSE "tcp"

VARIABLES
    entry,      \* appStats[uid]: the record, or None
    cond,       \* lockTable[uid]: the Cond, or None
    conn,       \* record -> kind -> tcpConn / udpConn
    connTotal,  \* record -> kind -> tcpConnTotal / udpConnTotal
    cur,        \* record -> link -> uplink / downlink
    total,      \* record -> link -> uplinkTotal / downlinkTotal
    stamped,    \* record -> deactivateAt # 0
    pc,         \* handler -> where it is
    rec,        \* handler -> its variable stats
    waitOn,     \* handler -> its variable cond
    seen,       \* handler -> what AddInt32 returned at its end
    poll,       \* poller -> local state of ReadAppTraffics
    resetting,  \* ResetAppTraffics has put the uid in toDel
    crashed,    \* the panic of tun.go:303 / 523 ended the process
    cast,       \* the member of Casts that takes part
    polls,      \* calls of ReadAppTraffics so far
    resets,     \* calls of ResetAppTraffics so far
    missed,     \* history: handlers that were not yet in Wait when their Cond was broadcast
    sent        \* history: record -> link -> bytes added

mapVars == <<entry, cond>>
recordVars == <<conn, connTotal, cur, total, stamped>>
handlerVars == <<pc, rec, waitOn, seen>>
outerVars == <<poll, resetting, cast, polls, resets>>
vars == <<mapVars, recordVars, handlerVars, outerVars, crashed, missed, sent>>

NoPoll == [pc |-> "idle", rec |-> None, link |-> "up", n |-> 0]

Init ==
    /\ entry = None /\ cond = None
    /\ conn = [x \in Handlers |-> [k \in Kinds |-> 0]]
    /\ connTotal = [x \in Handlers |-> [k \in Kinds |-> 0]]
    /\ cur = [x \in Handlers |-> [l \in Links |-> 0]]
    /\ total = [x \in Handlers |-> [l \in Links |-> 0]]
    /\ stamped = [x \in Handlers |-> FALSE]
    /\ cast \in Casts
    /\ pc = [h \in Handlers |-> IF h \in cast.handlers THEN "load" ELSE "done"]
    /\ rec = [h \in Handlers |-> None]
    /\ waitOn = [h \in Handlers |-> None]
    /\ seen = [h \in Handlers |-> 0]
    /\ poll = [r \in Pollers |-> NoPoll]
    /\ resetting = FALSE
    /\ crashed = FALSE
    /\ polls = 0 /\ resets = 0
    /\ missed = {}
    /\ sent = [x \in Handlers |-> [l \in Links |-> 0]]

Goto(h, from, to) == ~crashed /\ pc[h] = from /\ pc' = [pc EXCEPT ![h] = to]

-----------------------------------------------------------------------------
(* Finding or making the record.                                            *)

LoadHit(h) ==
    /\ Goto(h, "load", "count")
    /\ entry # None
    /\ rec' = [rec EXCEPT ![h] = entry]
    /\ UNCHANGED <<mapVars, recordVars, waitOn, seen, outerVars, crashed, missed, sent>>

LoadMiss(h) ==
    /\ Goto(h, "load", "lock")
    /\ entry = None
    /\ UNCHANGED <<mapVars, recordVars, rec, waitOn, seen, outerVars, crashed, missed, sent>>

(* LoadOrStore(uid, NewCond) finds another handler's Cond, or stores ours. *)
LockLoaded(h) ==
    /\ Goto(h, "lock", "wait")
    /\ cond # None
    /\ waitOn' = [waitOn EXCEPT ![h] = cond]
    /\ UNCHANGED <<mapVars, recordVars, rec, seen, outerVars, crashed, missed, sent>>

LockStored(h) ==
    /\ Goto(h, "lock", "store")
    /\ cond = None
    /\ cond' = h
    /\ UNCHANGED <<entry, recordVars, rec, waitOn, seen, outerVars, crashed, missed, sent>>

(* appStats.Store: whatever record was there is replaced. *)
StoreRecord(h) ==
    /\ Goto(h, "store", "unlock")
    /\ entry' = h
    /\ rec' = [rec EXCEPT ![h] = h]
    /\ UNCHANGED <<cond, recordVars, waitOn, seen, outerVars, crashed, missed, sent>>

DeleteLock(h) ==
    /\ Goto(h, "unlock", "broadcast")
    /\ cond' = None
    /\ UNCHANGED <<entry, recordVars, rec, waitOn, seen, outerVars, crashed, missed, sent>>

(* Mutant: nobody is woken. *)
BroadcastForgotten(h) ==
    /\ Goto(h, "broadcast", "count")
    /\ missed' = missed \cup {g \in Handlers : pc[g] = "wait" /\ waitOn[g] = h}
    /\ UNCHANGED <<mapVars, recordVars, rec, waitOn, seen, outerVars, crashed, sent>>

(* Only handlers that are inside cond.Wait by now are woken. *)
Broadcast(h) ==
    /\ ~crashed /\ pc[h] = "broadcast"
    /\ pc' = [g \in Handlers |-> IF g = h THEN "count"
                                 ELSE IF pc[g] = "parked" /\ waitOn[g] = h THEN "woken"
                                 ELSE pc[g]]
    /\ missed' = missed \cup {g \in Handlers : pc[g] = "wait" /\ waitOn[g] = h}
    /\ UNCHANGED <<mapVars, recordVars, rec, waitOn, seen, outerVars, crashed, sent>>

(* cond.L.Lock(); cond.Wait() adds the caller to the Cond's notify list. *)
Wait(h) ==
    /\ Goto(h, "wait", "parked")
    /\ UNCHANGED <<mapVars, recordVars, rec, waitOn, seen, outerVars, crashed, missed, sent>>

(* The Load after Wait, and the panic if it finds nothing. *)
SyncRead(h) ==
    /\ Goto(h, "woken", IF entry = None THEN "panicked" ELSE "count")
    /\ rec' = [rec EXCEPT ![h] = entry]
    /\ crashed' = (entry = None)
    /\ UNCHANGED <<mapVars, recordVars, waitOn, seen, outerVars, missed, sent>>

-----------------------------------------------------------------------------
(* Using the record.                                                        *)

AddConn(h) ==
    /\ Goto(h, "count", "countTotal")
    /\ conn' = [conn EXCEPT ![rec[h]][Kind(h)] = @ + 1]
    /\ UNCHANGED <<mapVars, connTotal, cur, total, stamped, rec, waitOn, seen, outerVars, crashed, missed, sent>>

AddConnTotal(h) ==
    /\ Goto(h, "countTotal", "activate")
    /\ connTotal' = [connTotal EXCEPT ![rec[h]][Kind(h)] = @ + 1]
    /\ UNCHANGED <<mapVars, conn, cur, total, stamped, rec, waitOn, seen, outerVars, crashed, missed, sent>>

Activate(h) ==
    /\ Goto(h, "activate", "relay")
    /\ stamped' = [stamped EXCEPT ![rec[h]] = FALSE]
    /\ UNCHANGED <<mapVars, conn, connTotal, cur, total, rec, waitOn, seen, outerVars, crashed, missed, sent>>

(* statsConn.Read / Write, statsPacketConn.ReadFrom / WriteTo. *)
Traffic(h, l) ==
    /\ ~crashed /\ pc[h] = "relay"
    /\ sent[rec[h]][l] < cast.traffic
    /\ cur' = [cur EXCEPT ![rec[h]][l] = @ + 1]
    /\ sent' = [sent EXCEPT ![rec[h]][l] = @ + 1]
    /\ UNCHANGED <<mapVars, conn, connTotal, total, stamped, handlerVars, outerVars, crashed, missed>>

(* Mutant: the counter of the other kind is decremented. *)
UncountOtherKind(h) ==
    /\ Goto(h, "relay", "check")
    /\ conn' = [conn EXCEPT ![rec[h]][Other(Kind(h))] = @ - 1]
    /\ seen' = [seen EXCEPT ![h] = conn[rec[h]][Kind(h)] - 1]
    /\ UNCHANGED <<mapVars, connTotal, cur, total, stamped, rec, waitOn, outerVars, crashed, missed, sent>>

(* Mutant: the count before the decrement is compared. *)
UncountReturnsOld(h) ==
    /\ Goto(h, "relay", "check")
    /\ conn' = [conn EXCEPT ![rec[h]][Kind(h)] = @ - 1]
    /\ seen' = [seen EXCEPT ![h] = conn[rec[h]][Kind(h)]]
    /\ UNCHANGED <<mapVars, connTotal, cur, total, stamped, rec, waitOn, outerVars, crashed, missed, sent>>

(* The deferred function: AddInt32 on one counter, LoadInt32 of the other,  *)
(* and the stamp if both were 0, are three separate steps.                  *)
Uncount(h) ==
    /\ Goto(h, "relay", "check")
    /\ conn' = [conn EXCEPT ![rec[h]][Kind(h)] = @ - 1]
    /\ seen' = [seen EXCEPT ![h] = conn[rec[h]][Kind(h)] - 1]
    /\ UNCHANGED <<mapVars, connTotal, cur, total, stamped, rec, waitOn, outerVars, crashed, missed, sent>>

CheckLast(h) ==
    /\ Goto(h, "check", IF seen[h] + conn[rec[h]][Other(Kind(h))] = 0 THEN "stamp" ELSE "done")
    /\ UNCHANGED <<mapVars, recordVars, rec, waitOn, seen, outerVars, crashed, missed, sent>>

Stamp(h) ==
    /\ Goto(h, "stamp", "done")
    /\ stamped' = [stamped EXCEPT ![rec[h]] = TRUE]
    /\ UNCHANGED <<mapVars, conn, connTotal, cur, total, rec, waitOn, seen, outerVars, crashed, missed, sent>>

-----------------------------------------------------------------------------
(* ReadAppTraffics and ResetAppTraffics, called from outside.               *)

(* Range meets the record; then per direction SwapUint64 and AddUint64. *)
PollStart(r) ==
    /\ ~crashed /\ poll[r].pc = "idle"
    /\ entry # None
    /\ polls < cast.polls
    /\ polls' = polls + 1
    /\ poll' = [poll EXCEPT ![r] = [NoPoll EXCEPT !.pc = "swap", !.rec = entry]]
    /\ UNCHANGED <<mapVars, recordVars, handlerVars, resetting, cast, resets, crashed, missed, sent>>

(* Mutant: Load instead of Swap. *)
PollLoad(r) ==
    /\ ~crashed /\ poll[r].pc = "swap"
    /\ poll' = [poll EXCEPT ![r].pc = "add", ![r].n = cur[poll[r].rec][poll[r].link]]
    /\ UNCHANGED <<mapVars, recordVars, handlerVars, resetting, cast, polls, resets, crashed, missed, sent>>

PollSwap(r) ==
    /\ ~crashed /\ poll[r].pc = "swap"
    /\ LET x == poll[r].rec
           l == poll[r].link
       IN /\ poll' = [poll EXCEPT ![r].pc = "add", ![r].n = cur[x][l]]
          /\ cur' = [cur EXCEPT ![x][l] = 0]
    /\ UNCHANGED <<mapVars, conn, connTotal, total, stamped, handlerVars, resetting, cast, polls, resets, crashed, missed, sent>>

PollAdd(r) ==
    /\ ~crashed /\ poll[r].pc = "add"
    /\ LET x == poll[r].rec
           l == poll[r].link
       IN total' = [total EXCEPT ![x][l] = @ + poll[r].n]
    /\ poll' = [poll EXCEPT ![r] = IF @.link = "up" THEN [@ EXCEPT !.pc = "swap", !.link = "down", !.n = 0]
                                                    ELSE NoPoll]
    /\ UNCHANGED <<mapVars, conn, connTotal, cur, stamped, handlerVars, resetting, cast, polls, resets, crashed, missed, sent>>

(* Range collects the uid into toDel; the entry is deleted afterwards. *)
ResetCollect ==
    /\ ~crashed /\ ~resetting
    /\ entry # None
    /\ resets < cast.resets
    /\ resets' = resets + 1
    /\ resetting' = TRUE
    /\ UNCHANGED <<mapVars, recordVars, handlerVars, poll, cast, polls, crashed, missed, sent>>

ResetDelete ==
    /\ ~crashed /\ resetting
    /\ entry' = None
    /\ resetting' = FALSE
    /\ UNCHANGED <<cond, recordVars, handlerVars, poll, cast, polls, resets, crashed, missed, sent>>

Acquire(h) ==
    \/ LoadHit(h) \/ LoadMiss(h)
    \/ LockLoaded(h) \/ LockStored(h)
    \/ StoreRecord(h) \/ DeleteLock(h) \/ Broadcast(h)
    \/ Wait(h) \/ SyncRead(h)

Use(h) ==
    \/ AddConn(h) \/ AddConnTotal(h) \/ Activate(h)
    \/ \E l \in Links : Traffic(h, l)
    \/ Uncount(h) \/ CheckLast(h) \/ Stamp(h)

Next ==
    \/ \E h \in Handlers : Acquire(h) \/ Use(h)
    \/ \E r \in Pollers : PollStart(r) \/ PollSwap(r) \/ PollAdd(r)
    \/ ResetCollect
    \/ ResetDelete

(* A runnable goroutine eventually runs.  Nothing makes a connection end,   *)
(* and nothing makes the Android side poll or reset.                        *)
Fairness == \A h \in Handlers : WF_vars(Acquire(h))

Spec == Init /\ [][Next]_vars /\ Fairness

-----------------------------------------------------------------------------
(* Correctness.                                                             *)

Places == {"load", "lock", "store", "unlock", "broadcast", "wait", "parked", "woken", "panicked",
           "count", "countTotal", "activate", "relay", "check", "stamp", "done"}

(* Every variable has its type; in particular a handler that uses a record  *)
(* has one (tun.go:308-320 never meets a nil stats).                        *)
TypeOK ==
    /\ entry \in Handlers \cup {None} /\ cond \in Handlers \cup {None}
    /\ conn \in [Handlers -> [Kinds -> Int]]
    /\ connTotal \in [Handlers -> [Kinds -> Nat]]
    /\ cur \in [Handlers -> [Links -> Nat]]
    /\ total \in [Handlers -> [Links -> Nat]]
    /\ stamped \in [Handlers -> BOOLEAN]
    /\ pc \in [Handlers -> Places]
    /\ rec \in [Handlers -> Handlers \cup {None}]
    /\ \A h \in Handlers :
          h \in cast.handlers /\ pc[h] \in
                {"unlock", "broadcast", "count", "countTotal", "activate", "relay", "check", "stamp", "done"}
             => rec[h] \in Handlers
    /\ waitOn \in [Handlers -> Handlers \cup {None}]
    /\ seen \in [Handlers -> Int]
    /\ poll \in [Pollers -> [pc : {"idle", "swap", "add"}, rec : Handlers \cup {None}, link : Links, n : Nat]]
    /\ \A r \in Pollers : poll[r].pc # "idle" => poll[r].rec \in Handlers
    /\ resetting \in BOOLEAN /\ crashed \in BOOLEAN
    /\ cast \in Casts /\ polls \in 0..cast.polls /\ resets \in 0..cast.resets
    /\ missed \subseteq Handlers
    /\ sent \in [Handlers -> [Links -> Nat]]

(* The assertion as the code states it: the Load after Wait finds the       *)
(* record, whatever else runs.                                              *)
SyncReadNeverFails == ~crashed

Counted == {"countTotal", "activate", "relay"}

(* tcpConn and udpConn count the handlers that hold the record, also when   *)
(* it was replaced or deleted from appStats while they ran.                 *)
CountsMatchHolders ==
    \A x \in Handlers, k \in Kinds :
        conn[x][k] = Cardinality({h \in Handlers : Kind(h) = k /\ rec[h] = x /\ pc[h] \in Counted})

(* When the last handler of a record is gone, deactivateAt is set: the      *)
(* decrement, the load of the other counter and the store race with other   *)
(* ends and starts, and still no record is left marked active for ever.     *)
QuietIsStamped ==
    \A x \in Handlers :
        /\ \E h \in Handlers : rec[h] = x /\ pc[h] = "done"
        /\ \A h \in Handlers : rec[h] = x => pc[h] = "done"
        => stamped[x]

InFlight(x, l) ==
    MapThenSumSet(LAMBDA r : poll[r].n,
                  {r \in Pollers : poll[r].pc = "add" /\ poll[r].rec = x /\ poll[r].link = l})

(* No byte is lost or counted twice between uplink and uplinkTotal          *)
(* (downlink and downlinkTotal) however polls and traffic interleave.       *)
TrafficConserved ==
    \A x \in Handlers, l \in Links :
        cur[x][l] + total[x][l] + InFlight(x, l) = sent[x][l]

(* A handler that missed the Broadcast is lost for good: its Cond is no     *)
(* longer in lockTable, nothing wakes it, and its connection never relays.  *)
Lost(h) == h \in missed /\ pc[h] \in {"wait", "parked"} /\ cond # waitOn[h]

(* Every handler gets a record, unless it is lost because it was still      *)
(* before cond.Wait when its Cond was broadcast, or the process panicked,   *)
(* which it never does without a call of ResetAppTraffics: "unexpected sync *)
(* read failed" (tun.go:303, 523) is not raised by the handlers alone.      *)
RecordFound ==
    \A h \in Handlers :
        [](pc[h] = "load" => <>[](rec[h] # None \/ (crashed /\ resets > 0) \/ Lost(h)))
=============================================================================
