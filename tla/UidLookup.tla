------------------------------ MODULE UidLookup ------------------------------
(***************************************************************************)
(* procfs.go: which app does a connection belong to?  The tables under     *)
(* /proc/net are read row by row while apps open and close sockets.        *)
(*                                                                         *)
(* All sockets here use the port that is asked for.  The kernel is         *)
(* external: a row is at a fixed place of its table while it is there, and *)
(* none is passed over; sockets of several users may share a port (TCP     *)
(* connections to different destinations, datagram sockets that allow it), *)
(* but not a pair of addresses; a TCP connection that an app has closed    *)
(* leaves a row of user 0 for a while.                                     *)
(***************************************************************************)
EXTENDS Integers, Sequences

CONSTANTS
    Rows,     \* sequence of [table, local, remote, uid], in the order of the tables
    MaxCalls  \* bound on the lookups

Tables == {"4", "6"}
Unknown == -1   \* no app
Nobody == 0     \* the user of a row left behind

ASSUME SocketAssumption ==
    Rows \in Seq([table : Tables, local : {"source", "any"}, remote : {"dest", "other", "none"},
                  uid : Nat \ {Nobody}])

VARIABLES
    open,      \* sockets that are open
    left,      \* closed sockets that still have a row
    index,     \* netIndexOf...: "unset", "set", "failed"; once.Do has run unless "unset"
    call,      \* where the lookup is: "idle", "init", "open", "scan", "done"
    tcp,       \* ipProto of the lookups and of all sockets here
    v4,        \* both addresses of the lookup are IPv4
    table,     \* the table it reads
    next,      \* the row that ReadLine returns next
    best,      \* bestRank and uid
    calls,     \* lookups so far
    stable,    \* history: sockets open since the lookup began
    seen,      \* history: rows it might have met, [row, uid]
    blind      \* history: it could not open a table

kernelVars == <<open, left>>
uidVars == <<kernelVars, index, call, tcp, v4, table, next, best, calls, stable, seen, blind>>

NoMatch == [rank |-> 0, uid |-> Unknown]

UidInit ==
    /\ open = {} /\ left = {}
    /\ index = "unset"
    /\ call = "idle" /\ tcp \in BOOLEAN /\ v4 = TRUE
    /\ table = "4" /\ next = 1 /\ best = NoMatch /\ calls = 0
    /\ stable = {} /\ seen = {} /\ blind = FALSE

-----------------------------------------------------------------------------
(* The apps and the kernel (external).                                      *)

Bound(i) == Rows[i].local = "source"
Exact(i) == Bound(i) /\ Rows[i].remote = "dest"
UserOf(i) == IF i \in left THEN Nobody ELSE Rows[i].uid
Says(i, uid) == [row |-> i, uid |-> uid]

(* One connection has a pair of addresses, whichever table lists it. *)
AppOpens(i) ==
    /\ i \notin open \cup left
    /\ Exact(i) => \A j \in open \cup left : ~Exact(j)
    /\ open' = open \cup {i}
    /\ seen' = IF Bound(i) THEN seen \cup {Says(i, Rows[i].uid)} ELSE seen
    /\ UNCHANGED <<left, index, call, tcp, v4, table, next, best, calls, stable, blind>>

(* Only a TCP connection leaves a row. *)
AppCloses(i, leaves) ==
    /\ i \in open
    /\ leaves => Rows[i].remote # "none" /\ tcp
    /\ open' = open \ {i} /\ stable' = stable \ {i}
    /\ left' = IF leaves THEN left \cup {i} ELSE left
    /\ seen' = IF leaves /\ Bound(i) THEN seen \cup {Says(i, Nobody)} ELSE seen
    /\ UNCHANGED <<index, call, tcp, v4, table, next, best, calls, blind>>

RowExpires(i) ==
    /\ i \in left
    /\ left' = left \ {i}
    /\ UNCHANGED <<open, index, call, tcp, v4, table, next, best, calls, stable, seen, blind>>

-----------------------------------------------------------------------------
(* querySocketUidFromProcFs.                                                *)

UidGoto(from, to) == call = from /\ call' = to

Query(ip4) ==
    /\ calls < MaxCalls /\ call \in {"idle", "done"}
    /\ call' = "init" /\ calls' = calls + 1
    /\ v4' = ip4
    /\ best' = NoMatch /\ blind' = FALSE
    /\ stable' = {i \in open : Bound(i)}
    /\ seen' = {Says(i, UserOf(i)) : i \in {j \in open \cup left : Bound(j)}}
    /\ UNCHANGED <<kernelVars, index, tcp, table, next>>

(* once.Do(initOnce): whether it works is decided once.  Only for IPv4 is   *)
(* the IPv4 table read.                                                     *)
InitOnce ==
    /\ call = "init"
    /\ IF index = "unset" THEN index' \in {"set", "failed"} ELSE UNCHANGED index
    /\ call' = IF index' = "set" THEN "open" ELSE "done"
    /\ table' = IF v4 THEN "4" ELSE "6"
    /\ UNCHANGED <<kernelVars, tcp, v4, next, best, calls, stable, seen, blind>>

OpenTable ==
    /\ UidGoto("open", "scan")
    /\ next' = 1
    /\ UNCHANGED <<kernelVars, index, tcp, v4, table, best, calls, stable, seen, blind>>

(* Mutant: the IPv4 table is the last one. *)
FinishAtOnce == call' = "done" /\ UNCHANGED table

(* Nothing was found: the other table, if there is one. *)
Finish ==
    IF table = "4" /\ best.uid = Unknown THEN call' = "open" /\ table' = "6"
    ELSE call' = "done" /\ UNCHANGED table

OpenFails ==
    /\ call = "open"
    /\ Finish
    /\ blind' = TRUE
    /\ UNCHANGED <<kernelVars, index, tcp, v4, next, best, calls, stable, seen>>

(* The third case, rank 1, compares the source with the zero address, and   *)
(* not the row's local one: it holds for no packet of an app, so that a     *)
(* socket bound to the zero address is not found.                           *)
Rank(i) ==
    IF Exact(i) THEN 3 ELSE IF Bound(i) THEN 2 ELSE 0

(* Row `next` of the table is there; an exact match ends the search. *)
ReadRow ==
    /\ call = "scan" /\ next \in DOMAIN Rows
    /\ LET i == next IN
           /\ Rows[i].table = table /\ i \in open \cup left
           /\ best' = IF Rank(i) <= best.rank THEN best ELSE [rank |-> Rank(i), uid |-> UserOf(i)]
           /\ call' = IF Rank(i) = 3 THEN "done" ELSE "scan"
    /\ next' = next + 1
    /\ UNCHANGED <<kernelVars, index, tcp, v4, table, calls, stable, seen, blind>>

NoRow ==
    /\ call = "scan" /\ next \in DOMAIN Rows
    /\ Rows[next].table # table \/ next \notin open \cup left
    /\ next' = next + 1
    /\ UNCHANGED <<kernelVars, index, call, tcp, v4, table, best, calls, stable, seen, blind>>

TableEnds ==
    /\ call = "scan" /\ next \notin DOMAIN Rows
    /\ Finish
    /\ UNCHANGED <<kernelVars, index, tcp, v4, next, best, calls, stable, seen, blind>>

UidNext ==
    \/ \E i \in DOMAIN Rows :
          AppOpens(i) \/ RowExpires(i) \/ \E leaves \in BOOLEAN : AppCloses(i, leaves)
    \/ \E ip4 \in BOOLEAN : Query(ip4)
    \/ InitOnce \/ OpenTable \/ OpenFails \/ ReadRow \/ NoRow \/ TableEnds

-----------------------------------------------------------------------------
(* Correctness.                                                             *)

First == IF v4 THEN "4" ELSE "6"
Searched == IF v4 THEN Tables ELSE {"6"}

(* Row j can hide row i: it is in the table that is read first, or nearer   *)
(* to what is asked, or as near and before it.  Two exact rows are never    *)
(* there at a time.                                                         *)
Hides(j, i) ==
    /\ Rank(j) < 3 \/ Rank(i) < 3
    /\ IF Rows[j].table = Rows[i].table THEN Rank(j) > Rank(i) \/ (Rank(j) = Rank(i) /\ j < i)
       ELSE Rows[j].table = First

(* However sockets come and go during the lookup, its answer is the user of *)
(* a row that was bound to the source address.  It is the user of a socket  *)
(* that stayed bound to it, if the tables could be read, unless it is that  *)
(* of another row that hides its own.  So an exact match in the first table *)
(* is always named, and one in the IPv6 table only if nobody has an IPv4    *)
(* socket on the port; else the other user is, or user 0, if that was the   *)
(* row of a closed connection (procfs.go:44-63, 95-136).                    *)
OwnerFound ==
    call = "done" =>
        /\ best.uid = Unknown \/ \E e \in seen : e.uid = best.uid
        /\ index = "set" /\ ~blind =>
              \A i \in {i \in stable : Rows[i].table \in Searched} :
                  best.uid = Rows[i].uid \/ \E e \in seen : e.uid = best.uid /\ Hides(e.row, i)
=============================================================================
