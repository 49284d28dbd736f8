----------------------------- MODULE SsrShared -----------------------------
(***************************************************************************)
(* What the connections and UDP sessions of one shadowsocksr outbound      *)
(* share: the protocol instance p.p of clash/ssr.go.  Every connection     *)
(* takes its client and connection ids from the instance's authData        *)
(* (protocol/base.go, next), under a mutex.  Every datagram is encoded and *)
(* decoded on the instance itself, and auth_chain draws the length of its  *)
(* padding from a generator in it (randomClient, randomServer) that is     *)
(* seeded first, without a lock.                                           *)
(***************************************************************************)
EXTENDS Naturals, FiniteSets

CONSTANTS
    Handlers,     \* goroutines of the outbound
    Jobs,         \* connections and datagrams to handle
    Threshold,    \* a connection id above it renews the client id (0xff000000)
    Starts        \* connection ids drawn with a new client id (24 random bits)

ASSUME StartsAssumption == Starts \subseteq Nat

VARIABLES
    jobs,        \* jobs nobody has taken yet
    handlerPc, job,     \* where each handler is, and its job
    mutex,       \* the handlers that hold authData.mutex
    clientID, connectionID,  \* fields of the instance's authData
    issued,      \* <<clientID, connectionID>> of each connection made so far
    generator,   \* [use -> seed and draws since] of the instance's generators
    padded,      \* the datagrams handled, with the padding assumed
    overlapped   \* history: datagrams handled while another used the generator

sharedVars == <<jobs, handlerPc, job, mutex, clientID, connectionID, issued, generator, padded, overlapped>>

Uses == {"encode", "decode"}

SharedInit ==
    /\ jobs = Jobs
    /\ handlerPc = [h \in Handlers |-> "idle"] /\ job = [h \in Handlers |-> 0]
    /\ mutex = {}
    /\ clientID = 0 /\ connectionID = 0
    /\ issued = {}
    /\ generator = [u \in Uses |-> [seed |-> 0, drawn |-> 0]]
    /\ padded = {} /\ overlapped = {}

Goto(h, label) == handlerPc' = [handlerPc EXCEPT ![h] = label]

(* A handler takes a connection, or a datagram in one of the directions. *)
TakeJob(h) ==
    /\ handlerPc[h] = "idle"
    /\ \E j \in jobs, label \in {"lock"} \cup Uses :
           /\ jobs' = jobs \ {j}
           /\ job' = [job EXCEPT ![h] = j]
           /\ Goto(h, label)
    /\ UNCHANGED <<mutex, clientID, connectionID, issued, generator, padded, overlapped>>

-----------------------------------------------------------------------------
(* StreamConn: next() *)

AuthStep == UNCHANGED <<jobs, job, generator, padded, overlapped>>

(* Mutant: the mutex is not waited for. *)
LockAtOnce(h) ==
    /\ handlerPc[h] = "lock"
    /\ mutex' = {h}
    /\ Goto(h, "renew")
    /\ AuthStep
    /\ UNCHANGED <<clientID, connectionID, issued>>

Lock(h) ==
    /\ handlerPc[h] = "lock" /\ mutex = {}
    /\ mutex' = {h}
    /\ Goto(h, "renew")
    /\ AuthStep
    /\ UNCHANGED <<clientID, connectionID, issued>>

(* Client ids are drawn at random and taken to be new ones. *)
Renew(h) ==
    /\ handlerPc[h] = "renew"
    /\ IF connectionID > Threshold \/ connectionID = 0
       THEN clientID' = clientID + 1 /\ connectionID' \in Starts
       ELSE UNCHANGED <<clientID, connectionID>>
    /\ Goto(h, "increment")
    /\ AuthStep
    /\ UNCHANGED <<mutex, issued>>

Increment(h) ==
    /\ handlerPc[h] = "increment"
    /\ connectionID' = connectionID + 1
    /\ Goto(h, "copy")
    /\ AuthStep
    /\ UNCHANGED <<mutex, clientID, issued>>

(* What the connection's first frame will show the server: putAuthData or   *)
(* putEncryptedData.                                                        *)
Presented(h) == [conn |-> job[h], client |-> clientID, id |-> connectionID]

CopyIDs(h) ==
    /\ handlerPc[h] = "copy"
    /\ issued' = issued \cup {Presented(h)}
    /\ mutex' = {}
    /\ Goto(h, "idle")
    /\ AuthStep
    /\ UNCHANGED <<clientID, connectionID>>

-----------------------------------------------------------------------------
(* EncodePacket and DecodePacket of auth_chain: udpGetRandLength *)

Draw(u) == [u |-> u, label |-> IF u = "encode" THEN "drawEncode" ELSE "drawDecode"]

Users(u) == {h \in Handlers : handlerPc[h] = Draw(u).label}

DatagramStep == UNCHANGED <<jobs, job, mutex, clientID, connectionID, issued>>

(* Mutant: seeding leaves a part of the generator's state. *)
SeedPartly(h, u) ==
    /\ handlerPc[h] = u
    /\ generator' = [generator EXCEPT ![u].seed = job[h]]
    /\ overlapped' = overlapped \cup
           IF Users(u) = {} THEN {} ELSE {job[h]} \cup {job[i] : i \in Users(u)}
    /\ Goto(h, Draw(u).label)
    /\ DatagramStep
    /\ UNCHANGED padded

(* InitFromBin: the seed comes from the datagram itself. *)
Seed(h, u) ==
    /\ handlerPc[h] = u
    /\ generator' = [generator EXCEPT ![u] = [seed |-> job[h], drawn |-> 0]]
    /\ overlapped' = overlapped \cup
           IF Users(u) = {} THEN {} ELSE {job[h]} \cup {job[i] : i \in Users(u)}
    /\ Goto(h, Draw(u).label)
    /\ DatagramStep
    /\ UNCHANGED padded

(* Next: the first number after the seed is the one the server draws. *)
DrawLength(h, u) ==
    /\ handlerPc[h] = Draw(u).label
    /\ padded' = padded \cup {[packet |-> job[h], seed |-> generator[u].seed,
                               drawn |-> generator[u].drawn]}
    /\ generator' = [generator EXCEPT ![u].drawn = @ + 1]
    /\ Goto(h, "idle")
    /\ DatagramStep
    /\ UNCHANGED overlapped

SharedNext == \E h \in Handlers :
    \/ TakeJob(h)
    \/ Lock(h) \/ Renew(h) \/ Increment(h) \/ CopyIDs(h)
    \/ \E u \in Uses : Seed(h, u) \/ DrawLength(h, u)

SharedSpec == SharedInit /\ [][SharedNext]_sharedVars

-----------------------------------------------------------------------------
(* No two connections of an outbound present the same pair of ids to the    *)
(* server, across renewals of the client id and whatever calls overlap.     *)
IdsAreUnique ==
    \A a, b \in issued : a.client = b.client /\ a.id = b.id => a.conn = b.conn

(* A datagram carries the padding its own seed prescribes, so that both     *)
(* ends cut it off in the same place, unless another goroutine was between  *)
(* seeding and drawing in the same direction.                               *)
PaddingAgrees ==
    \A d \in padded :
        d.packet \in overlapped \/ (d.seed = d.packet /\ d.drawn = 0)
=============================================================================
