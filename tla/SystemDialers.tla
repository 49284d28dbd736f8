---------------------------- MODULE SystemDialers ----------------------------
(***************************************************************************)
(* WithLocalResolver and WithAlternativeSystemDialer (v2ray.go), by which  *)
(* a V2RayInstance sets what the whole process then uses: the functions of *)
(* localdns, and the dialer of internet.UseAlternativeSystemDialer.        *)
(*                                                                         *)
(* One dialer without and one with a protect path is made, under           *)
(* systemDialerMutex, for the first instance that asks, and kept.  Tuns    *)
(* replace the dialer in use (TunLifecycle).                               *)
(***************************************************************************)
EXTENDS Naturals

CONSTANTS
    Instances,
    Callers,       \* threads that call the methods
    Resolvers,     \* LocalResolvers
    Exchanging,    \* those with SupportExchange
    Nil,           \* a sentinel
    MaxHookCalls   \* bound on the calls

ASSUME ResolverAssumption == Exchanging \subseteq Resolvers /\ Nil \notin Resolvers \cup Callers

Paths == {"none", "protect"}   \* len(protectPath) == 0 or not

VARIABLES
    resolver,     \* instance -> its field resolver
    lookupFunc,   \* localdns: the resolver of its lookup function
    rawQueryFunc, \* and of its raw query function
    systemDialer, \* path -> systemDialer / systemDialerWithProtect
    hook,         \* the dialer in use
    mutex,        \* who holds systemDialerMutex
    method,       \* caller -> its call: what, where it is, and its arguments
    hookCalls,    \* calls so far
    overlap       \* history: two calls of WithLocalResolver overlapped, or one with another
                  \* call for its instance

localdnsVars == <<lookupFunc, rawQueryFunc>>
dialerVars == <<systemDialer, hook, mutex>>
hookVars == <<resolver, localdnsVars, dialerVars, method, hookCalls, overlap>>

Idle == [pc |-> "idle", instance |-> Nil, resolver |-> Nil, path |-> "none"]
TunsDialer == [path |-> "tun", resolver |-> Nil, maker |-> Nil]
NoDialerSet == [path |-> "nil", resolver |-> Nil, maker |-> Nil]

HookInit ==
    /\ resolver = [i \in Instances |-> Nil]
    /\ lookupFunc = Nil /\ rawQueryFunc = Nil
    /\ systemDialer = [path \in Paths |-> NoDialerSet] /\ hook = NoDialerSet
    /\ mutex = Nil
    /\ method = [c \in Callers |-> Idle]
    /\ hookCalls = 0 /\ overlap = FALSE

Resolving(c) == method[c].pc \in {"resolver", "lookup", "raw"}

Calls(c, new, clashes(_)) ==
    /\ method[c] = Idle /\ hookCalls < MaxHookCalls
    /\ method' = [method EXCEPT ![c] = new]
    /\ hookCalls' = hookCalls + 1
    /\ overlap' = (overlap \/ \E d \in Callers \ {c} : clashes(d))
    /\ UNCHANGED <<resolver, localdnsVars, dialerVars>>

At(c, from, to) == method[c].pc = from /\ method' = [method EXCEPT ![c].pc = to]
Leaves(c, from) == method[c].pc = from /\ method' = [method EXCEPT ![c] = Idle]

-----------------------------------------------------------------------------
(* WithLocalResolver, r = Nil included: three stores.                       *)

WithLocalResolver(c, i, r) ==
    Calls(c, [pc |-> "resolver", instance |-> i, resolver |-> r, path |-> "none"],
          LAMBDA d : Resolving(d) \/ method[d].instance = i)

SetResolver(c) ==
    /\ At(c, "resolver", "lookup")
    /\ resolver' = [resolver EXCEPT ![method[c].instance] = method[c].resolver]
    /\ UNCHANGED <<localdnsVars, dialerVars, hookCalls, overlap>>

SetLookupFunc(c) ==
    /\ At(c, "lookup", "raw")
    /\ lookupFunc' = method[c].resolver
    /\ UNCHANGED <<resolver, rawQueryFunc, dialerVars, hookCalls, overlap>>

(* A resolver that cannot exchange leaves the function of another one. *)
SetRawQueryFunc(c) ==
    /\ Leaves(c, "raw")
    /\ rawQueryFunc' = IF method[c].resolver \in Exchanging \cup {Nil} THEN method[c].resolver ELSE rawQueryFunc
    /\ UNCHANGED <<resolver, lookupFunc, dialerVars, hookCalls, overlap>>

-----------------------------------------------------------------------------
(* WithAlternativeSystemDialer; without a resolver it panics, which the     *)
(* callers never provoke.                                                   *)

WithAlternativeSystemDialer(c, i, path) ==
    /\ resolver[i] # Nil
    /\ Calls(c, [pc |-> "lock", instance |-> i, resolver |-> Nil, path |-> path],
             LAMBDA d : Resolving(d) /\ method[d].instance = i)

(* Mutant: the mutex is not waited for. *)
LockForgotten(c) ==
    /\ At(c, "lock", "make")
    /\ mutex' = c
    /\ UNCHANGED <<resolver, localdnsVars, systemDialer, hook, hookCalls, overlap>>

Lock(c) ==
    /\ At(c, "lock", "make")
    /\ mutex = Nil /\ mutex' = c
    /\ UNCHANGED <<resolver, localdnsVars, systemDialer, hook, hookCalls, overlap>>

(* Only the first dialer of a path is made; the field is read again here. *)
MakeDialer(c) ==
    /\ method[c].pc = "make"
    /\ IF systemDialer[method[c].path] = NoDialerSet THEN At(c, "make", "store") ELSE At(c, "make", "use")
    /\ UNCHANGED <<resolver, localdnsVars, dialerVars, hookCalls, overlap>>

StoreDialer(c) ==
    /\ At(c, "store", "use")
    /\ systemDialer' = [systemDialer EXCEPT ![method[c].path] =
                           [path |-> method[c].path, resolver |-> resolver[method[c].instance], maker |-> c]]
    /\ UNCHANGED <<resolver, localdnsVars, hook, mutex, hookCalls, overlap>>

UseDialer(c) ==
    /\ At(c, "use", "unlock")
    /\ hook' = systemDialer[method[c].path]
    /\ UNCHANGED <<resolver, localdnsVars, systemDialer, mutex, hookCalls, overlap>>

Unlock(c) ==
    /\ Leaves(c, "unlock")
    /\ mutex' = Nil
    /\ UNCHANGED <<resolver, localdnsVars, systemDialer, hook, hookCalls, overlap>>

(* NewTun2ray and Tun2ray.Close. *)
TunSetsDialer(dialer) ==
    /\ hook' = dialer
    /\ UNCHANGED <<resolver, localdnsVars, systemDialer, mutex, method, hookCalls, overlap>>

HookNext ==
    \/ \E c \in Callers, i \in Instances :
          \/ \E r \in Resolvers \cup {Nil} : WithLocalResolver(c, i, r)
          \/ \E path \in Paths : WithAlternativeSystemDialer(c, i, path)
    \/ \E c \in Callers :
          \/ SetResolver(c) \/ SetLookupFunc(c) \/ SetRawQueryFunc(c)
          \/ Lock(c) \/ MakeDialer(c) \/ StoreDialer(c) \/ UseDialer(c) \/ Unlock(c)
    \/ \E dialer \in {TunsDialer, NoDialerSet} : TunSetsDialer(dialer)

-----------------------------------------------------------------------------
(* Correctness.                                                             *)

(* A process has one dialer per path: one that is in use is the one that is *)
(* kept, whoever made it, and it has a resolver.  Once no call is under     *)
(* way, localdns asks one resolver both ways, unless the one it looks up    *)
(* names with cannot exchange: then raw queries still go to an earlier one. *)
(* The exceptions are calls that overlap although nothing orders them       *)
(* (v2ray.go:95-163).                                                       *)
SharedHooksAgree ==
    /\ hook.path \in Paths => hook = systemDialer[hook.path]
    /\ overlap \/ \A path \in Paths : systemDialer[path] # NoDialerSet => systemDialer[path].resolver # Nil
    /\ overlap \/ (\E c \in Callers : method[c] # Idle)
        \/ rawQueryFunc = lookupFunc \/ lookupFunc \in Resolvers \ Exchanging
=============================================================================
