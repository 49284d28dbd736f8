--------------------------- MODULE V2RayInstance ---------------------------
(***************************************************************************)
(* The life cycle of V2RayInstance (v2ray.go) and the calls that use it:   *)
(* dial (also by UrlTest), dialUDP, QueryStats and the observatory calls   *)
(* (observatory.go).                                                       *)
(*                                                                         *)
(* No lock protects started, closed, core and the three features taken     *)
(* from the core.  The Android side calls LoadConfig, Start and Close from *)
(* its threads; relays and pollers read the fields from theirs.  Every     *)
(* read or write of a field is one step.                                   *)
(*                                                                         *)
(* Cores are numbered in the order core.New made them; 0 is nil.  A        *)
(* feature is named by the core it was taken from.                         *)
(***************************************************************************)
EXTENDS Integers

CONSTANTS
    Threads,   \* threads that call LoadConfig, Start and Close
    Users,     \* goroutines that use the instance, each once
    MaxCores,  \* bound on the cores made
    MaxCalls   \* bound on the calls of LoadConfig, Start and Close

ASSUME BoundAssumption == MaxCores \in Nat /\ MaxCalls \in Nat

Fields == {"core", "dispatcher", "statsManager", "observatory"}

(* The calls of users, and the field each dereferences.  UrlTest dials;     *)
(* UpdateStatus is like GetObservatoryStatus.                               *)
Uses == [dial |-> "core", dialUDP |-> "dispatcher", QueryStats |-> "statsManager",
         GetObservatoryStatus |-> "observatory", SetStatusUpdateListener |-> "observatory"]
UserCalls == DOMAIN Uses
Dials == {"dial", "dialUDP"}
Cores == 1..MaxCores

VARIABLES
    started,    \* instance.started
    closed,     \* instance.closed
    field,      \* the four pointers
    made,       \* number of cores so far
    coreState,  \* core -> "new", "failed" (in Start), "running", "closed"
    observed,   \* cores whose configuration has an observatory
    api,        \* thread -> local state of its call
    user,       \* user -> local state of its call
    crashed,    \* a method was called on nil
    calls,      \* calls of the threads so far
    overlap     \* history: two calls of threads were in progress at once

stateVars == <<started, closed, field>>
coreVars == <<made, coreState, observed>>
vars == <<stateVars, coreVars, api, user, crashed, calls, overlap>>

NoCall == [pc |-> "idle", call |-> "none"]

Init ==
    /\ started = FALSE /\ closed = FALSE
    /\ field = [f \in Fields |-> 0]
    /\ made = 0 /\ coreState = [c \in Cores |-> "new"] /\ observed = {}
    /\ api = [t \in Threads |-> NoCall]
    /\ user = [u \in Users |-> [pc |-> "idle", call |-> "dial", got |-> 0, late |-> FALSE]]
    /\ crashed = FALSE /\ calls = 0 /\ overlap = FALSE

-----------------------------------------------------------------------------
(* Calls of the Android side.                                               *)

At(t, call, pc) == ~crashed /\ api[t].pc = pc /\ api[t].call = call
Goto(t, pc) == api' = [api EXCEPT ![t].pc = pc]
Return(t) == api' = [api EXCEPT ![t] = NoCall]

(* LoadConfig, Start and Close begin alike: "instance closed"? *)
Call(t, call) ==
    /\ ~crashed /\ api[t].pc = "idle"
    /\ calls < MaxCalls
    /\ calls' = calls + 1
    /\ api' = [api EXCEPT ![t] = [pc |-> "closed?", call |-> call]]
    /\ overlap' = (overlap \/ \E x \in Threads : api[x].pc # "idle")
    /\ UNCHANGED <<stateVars, coreVars, user, crashed>>

CheckClosed(t) ==
    /\ ~crashed /\ api[t].pc = "closed?"
    /\ IF closed THEN Return(t)
       ELSE Goto(t, IF api[t].call = "Close" THEN "close" ELSE "started?")
    /\ UNCHANGED <<stateVars, coreVars, user, crashed, calls, overlap>>

(* Mutant: LoadConfig and Start forget the second check. *)
CheckStartedForgotten(t) ==
    /\ ~crashed /\ api[t].pc = "started?"
    /\ Goto(t, "run")
    /\ UNCHANGED <<stateVars, coreVars, user, crashed, calls, overlap>>

(* "instance already started"? *)
CheckStarted(t) ==
    /\ ~crashed /\ api[t].pc = "started?"
    /\ IF started THEN Return(t) ELSE Goto(t, "run")
    /\ UNCHANGED <<stateVars, coreVars, user, crashed, calls, overlap>>

(* LoadConfig: the JSON is not accepted. *)
LoadRejected(t) ==
    /\ At(t, "LoadConfig", "run")
    /\ Return(t)
    /\ UNCHANGED <<stateVars, coreVars, user, crashed, calls, overlap>>

(* core.New fails: instance.core is overwritten with nil. *)
LoadFails(t) ==
    /\ At(t, "LoadConfig", "run")
    /\ field' = [field EXCEPT !["core"] = 0]
    /\ Return(t)
    /\ UNCHANGED <<started, closed, coreVars, user, crashed, calls, overlap>>

LoadCore(t) ==
    /\ At(t, "LoadConfig", "run")
    /\ made < MaxCores
    /\ made' = made + 1
    /\ field' = [field EXCEPT !["core"] = made + 1]
    /\ \E hasObservatory \in BOOLEAN :
          observed' = IF hasObservatory THEN observed \cup {made + 1} ELSE observed
    /\ Goto(t, "features")
    /\ UNCHANGED <<started, closed, coreState, user, crashed, calls, overlap>>

(* Mutant: the features of the first core are kept. *)
LoadFeaturesOnce(t) ==
    /\ At(t, "LoadConfig", "features")
    /\ LET c == field["core"] IN
       IF c = 0 THEN crashed' = TRUE /\ UNCHANGED <<field, api>>
       ELSE /\ field' = [f \in Fields |-> IF field[f] = 0 THEN c ELSE field[f]]
            /\ Return(t)
            /\ UNCHANGED crashed
    /\ UNCHANGED <<started, closed, coreVars, user, calls, overlap>>

(* The features are taken from instance.core, read again.  observatory is   *)
(* assigned only when the core has one.                                     *)
LoadFeatures(t) ==
    /\ At(t, "LoadConfig", "features")
    /\ LET c == field["core"] IN
       IF c = 0 THEN crashed' = TRUE /\ UNCHANGED <<field, api>>
       ELSE /\ field' = [field EXCEPT !["dispatcher"] = c, !["statsManager"] = c,
                                      !["observatory"] = IF c \in observed THEN c ELSE @]
            /\ Return(t)
            /\ UNCHANGED crashed
    /\ UNCHANGED <<started, closed, coreVars, user, calls, overlap>>

(* Start: "instance not initialized" if there is no core. *)
StartRefused(t) ==
    /\ At(t, "Start", "run")
    /\ field["core"] = 0
    /\ Return(t)
    /\ UNCHANGED <<stateVars, coreVars, user, crashed, calls, overlap>>

(* Mutant: started is set although the core did not start. *)
StartFailsMarked(t) ==
    /\ At(t, "Start", "run")
    /\ field["core"] # 0
    /\ coreState' = [coreState EXCEPT ![field["core"]] = IF @ = "running" THEN @ ELSE "failed"]
    /\ started' = TRUE
    /\ Return(t)
    /\ UNCHANGED <<closed, field, made, observed, user, crashed, calls, overlap>>

(* core.Start fails with some of its features started. *)
StartFails(t) ==
    /\ At(t, "Start", "run")
    /\ field["core"] # 0
    /\ coreState' = [coreState EXCEPT ![field["core"]] = IF @ = "running" THEN @ ELSE "failed"]
    /\ Return(t)
    /\ UNCHANGED <<stateVars, made, observed, user, crashed, calls, overlap>>

StartCore(t) ==
    /\ At(t, "Start", "run")
    /\ field["core"] # 0
    /\ coreState' = [coreState EXCEPT ![field["core"]] = "running"]
    /\ Goto(t, "mark")
    /\ UNCHANGED <<stateVars, made, observed, user, crashed, calls, overlap>>

StartMark(t) ==
    /\ At(t, "Start", "mark")
    /\ started' = TRUE
    /\ Return(t)
    /\ UNCHANGED <<closed, field, coreVars, user, crashed, calls, overlap>>

(* Close: closed is set first; an instance that is not started has nothing  *)
(* else to do.                                                              *)
CloseMark(t) ==
    /\ At(t, "Close", "close")
    /\ closed' = TRUE
    /\ IF started THEN Goto(t, "core") ELSE Return(t)
    /\ UNCHANGED <<started, field, coreVars, user, crashed, calls, overlap>>

(* Mutant: the core is dropped without being closed. *)
CloseCoreForgotten(t) ==
    /\ At(t, "Close", "core")
    /\ Goto(t, "clear")
    /\ UNCHANGED <<stateVars, coreVars, user, crashed, calls, overlap>>

CloseCore(t) ==
    /\ At(t, "Close", "core")
    /\ IF field["core"] = 0 THEN crashed' = TRUE /\ UNCHANGED <<coreState, api>>
       ELSE /\ coreState' = [coreState EXCEPT ![field["core"]] = "closed"]
            /\ Goto(t, "clear")
            /\ UNCHANGED crashed
    /\ UNCHANGED <<stateVars, made, observed, user, calls, overlap>>

(* The four pointers are cleared one after the other, then started. *)
CloseOrder == <<"core", "dispatcher", "statsManager", "observatory">>

CloseClear(t) ==
    /\ At(t, "Close", "clear")
    /\ \E i \in 1..4 :
          /\ field[CloseOrder[i]] # 0
          /\ \A j \in 1..(i - 1) : field[CloseOrder[j]] = 0
          /\ field' = [field EXCEPT ![CloseOrder[i]] = 0]
    /\ UNCHANGED <<started, closed, coreVars, api, user, crashed, calls, overlap>>

CloseDone(t) ==
    /\ At(t, "Close", "clear")
    /\ \A f \in Fields : field[f] = 0
    /\ started' = FALSE
    /\ Return(t)
    /\ UNCHANGED <<closed, field, coreVars, user, crashed, calls, overlap>>

-----------------------------------------------------------------------------
(* Users.  dial and dialUDP look at closed and started, QueryStats and      *)
(* GetObservatoryStatus at the pointer itself, SetStatusUpdateListener at   *)
(* nothing.  All of them then read the pointer (again) and call a method.   *)

FirstStep(call) ==
    IF call \in Dials THEN "closed?" ELSE IF call = "SetStatusUpdateListener" THEN "use" ELSE "nil?"

UserGoto(u, from, to) ==
    ~crashed /\ user[u].pc = from /\ user' = [user EXCEPT ![u].pc = to]

(* A Close is past its first assignment. *)
Closing == closed \/ \E t \in Threads : api[t].call = "Close" /\ api[t].pc \in {"core", "clear"}

UserCall(u, call) ==
    /\ ~crashed /\ user[u].pc = "idle"
    /\ user' = [user EXCEPT ![u] = [pc |-> FirstStep(call), call |-> call, got |-> 0, late |-> Closing]]
    /\ UNCHANGED <<stateVars, coreVars, api, crashed, calls, overlap>>

UserCheckClosed(u) ==
    /\ UserGoto(u, "closed?", IF closed THEN "refused" ELSE "started?")
    /\ UNCHANGED <<stateVars, coreVars, api, crashed, calls, overlap>>

UserCheckStarted(u) ==
    /\ UserGoto(u, "started?", IF started THEN "use" ELSE "refused")
    /\ UNCHANGED <<stateVars, coreVars, api, crashed, calls, overlap>>

UserCheckNil(u) ==
    /\ UserGoto(u, "nil?", IF field[Uses[user[u].call]] = 0 THEN "refused" ELSE "use")
    /\ UNCHANGED <<stateVars, coreVars, api, crashed, calls, overlap>>

UserUse(u) ==
    /\ ~crashed /\ user[u].pc = "use"
    /\ LET c == field[Uses[user[u].call]] IN
       /\ user' = [user EXCEPT ![u].pc = IF c = 0 THEN "panicked" ELSE "used", ![u].got = c]
       /\ crashed' = (c = 0)
    /\ UNCHANGED <<stateVars, coreVars, api, calls, overlap>>

ApiStep(t) ==
    \/ \E call \in {"LoadConfig", "Start", "Close"} : Call(t, call)
    \/ CheckClosed(t) \/ CheckStarted(t)
    \/ LoadRejected(t) \/ LoadFails(t) \/ LoadCore(t) \/ LoadFeatures(t)
    \/ StartRefused(t) \/ StartFails(t) \/ StartCore(t) \/ StartMark(t)
    \/ CloseMark(t) \/ CloseCore(t) \/ CloseClear(t) \/ CloseDone(t)

UserStep(u) ==
    \/ \E call \in UserCalls : UserCall(u, call)
    \/ UserCheckClosed(u) \/ UserCheckStarted(u) \/ UserCheckNil(u) \/ UserUse(u)

Next == (\E t \in Threads : ApiStep(t)) \/ (\E u \in Users : UserStep(u))

Spec == Init /\ [][Next]_vars

-----------------------------------------------------------------------------
(* Correctness.                                                             *)

(* Every variable has its type; a pointer names a core that was made, and   *)
(* each call is at a line of its own function.                              *)
TypeOK ==
    /\ started \in BOOLEAN /\ closed \in BOOLEAN
    /\ made \in 0..MaxCores
    /\ field \in [Fields -> 0..made]
    /\ coreState \in [Cores -> {"new", "failed", "running", "closed"}]
    /\ observed \subseteq Cores
    /\ api \in [Threads -> [pc : {"idle", "closed?", "started?", "run", "features", "mark", "close", "core", "clear"},
                            call : {"none", "LoadConfig", "Start", "Close"}]]
    /\ \A t \in Threads :
          /\ api[t].pc # "idle" => api[t].call # "none"
          /\ api[t].pc \in {"close", "core", "clear"} => api[t].call = "Close"
          /\ api[t].pc \in {"started?", "run"} => api[t].call \in {"LoadConfig", "Start"}
    /\ user \in [Users -> [pc : {"idle", "closed?", "started?", "nil?", "use", "used", "refused", "panicked"},
                           call : UserCalls, got : 0..MaxCores, late : BOOLEAN]]
    /\ crashed \in BOOLEAN /\ calls \in 0..MaxCalls /\ overlap \in BOOLEAN

Dialling(u) == user[u].call \in Dials

(* A dial or dialUDP that begins after Close has been entered is refused:   *)
(* it neither gets a core that is being taken down nor dereferences the     *)
(* pointers Close sets to nil, although nothing locks Close out.            *)
LateDialsRefused ==
    \A u \in Users : user[u].late /\ Dialling(u) => user[u].pc \notin {"use", "used", "panicked"}

(* While the Android side makes one call at a time, a method is called on   *)
(* nil only by a user whose call overlaps Close, or by                      *)
(* SetStatusUpdateListener, which does not look.                            *)
CrashNeedsClose ==
    crashed /\ ~overlap =>
        closed \/ \E u \in Users : user[u].pc = "panicked" /\ user[u].call = "SetStatusUpdateListener"

(* While the Android side makes one call at a time, what dial and dialUDP   *)
(* get is a core that has been started (and perhaps closed meanwhile),      *)
(* never one that is only loaded or whose Start failed.                     *)
DialsUseStartedCore ==
    ~overlap => \A u \in Users :
        Dialling(u) /\ user[u].pc = "used" => coreState[user[u].got] \in {"running", "closed"}

ApiIdle == \A t \in Threads : api[t].pc = "idle"

(* While the instance is started and no call is in progress, all its        *)
(* features are of the running core, however often LoadConfig was repeated  *)
(* or failed before.  The observatory is, unless that core has none: then   *)
(* an earlier core's may be left.                                           *)
FeaturesOfRunningCore ==
    started /\ ApiIdle /\ ~overlap =>
        LET c == field["core"] IN
        /\ c # 0 /\ coreState[c] = "running"
        /\ field["dispatcher"] = c /\ field["statsManager"] = c
        /\ c \in observed => field["observatory"] = c

(* After Close no core runs and no pointer keeps a running core, unless     *)
(* calls of the Android side overlapped; a core whose Start failed is not   *)
(* closed by anybody.                                                       *)
ClosedLeavesNoneRunning ==
    closed /\ ApiIdle /\ ~overlap => ~started /\ \A c \in Cores : coreState[c] # "running"
=============================================================================
