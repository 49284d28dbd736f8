------------------------ MODULE V2RayInstanceProofs ------------------------
(***************************************************************************)
(* Proofs about V2RayInstance: its five properties, for any number of      *)
(* threads, users, cores and calls.                                        *)
(*                                                                         *)
(* LateDialsRefused needs nothing but that closed is never reset.  The     *)
(* other four hold while the Android side makes one call at a time; their  *)
(* inductive invariant says at which line a call may be for which values   *)
(* of the fields (ThreadInv), what the fields say of the cores (CoreInv)   *)
(* and what a user relies on between its check and its use (UserInv).      *)
(***************************************************************************)
EXTENDS V2RayInstance, TLAPS

(* Close's last lines run with closed set, and a call that began after them *)
(* stays short of the fields.                                               *)
LateInv ==
    /\ \A t \in Threads : api[t].pc \in {"core", "clear"} => closed
    /\ \A u \in Users :
          user[u].late => closed /\ (Dialling(u) => user[u].pc \in {"closed?", "refused"})

(* At most one call is in progress. *)
Solo == \A s, t \in Threads : api[s].pc # "idle" /\ api[t].pc # "idle" => s = t

(* Close is setting the pointers to nil. *)
Clearing == \E t \in Threads : api[t].pc = "clear"

(* The features are those of the core; an observatory it lacks may be older. *)
FeaturesMatch ==
    /\ field["dispatcher"] = field["core"] /\ field["statsManager"] = field["core"]
    /\ field["core"] \in observed => field["observatory"] = field["core"]

(* What the line a call has reached says of the fields. *)
ThreadInv ==
    \A t \in Threads :
        /\ api[t].pc \in {"started?", "close"} => ~closed
        /\ api[t].pc \in {"run", "features", "mark"} => ~closed /\ ~started
        /\ api[t].pc = "features" => field["core"] # 0
        /\ api[t].pc = "mark" => field["core"] # 0 /\ coreState[field["core"]] = "running"
        /\ api[t].pc \in {"core", "clear"} => closed /\ started
        /\ api[t].pc = "clear" =>
              /\ \A c \in Cores : coreState[c] # "running"
              /\ \A f \in {"core", "dispatcher", "statsManager"} :
                    field[f] = 0 \/ coreState[field[f]] = "closed"

(* What the fields say of the cores, away from the lines that change them.  *)
CoreInv ==
    /\ \A c \in Cores : coreState[c] = "running" =>
          c = field["core"] /\ (started \/ \E t \in Threads : api[t].pc = "mark")
    /\ started /\ ~Clearing => field["core"] # 0 /\ coreState[field["core"]] = "running"
    /\ closed /\ started => \E t \in Threads : api[t].pc \in {"core", "clear"}
    /\ ~Clearing /\ (\A t \in Threads : api[t].pc # "features") /\ field["core"] # 0 => FeaturesMatch

(* A core that has been started. *)
Up(c) == coreState[c] \in {"running", "closed"}

(* What a user relies on between its check and its use of a pointer. *)
UserOk(u) ==
    /\ user[u].pc \in {"closed?", "started?"} => Dialling(u)
    /\ user[u].pc = "nil?" => user[u].call \in {"QueryStats", "GetObservatoryStatus"}
    /\ Dialling(u) /\ user[u].pc \in {"use", "used"} => started \/ closed
    /\ Dialling(u) /\ user[u].pc = "use" =>
          \/ field[Uses[user[u].call]] = 0
          \/ Up(field[Uses[user[u].call]])
    /\ Dialling(u) /\ user[u].pc = "used" => user[u].got # 0 /\ Up(user[u].got)
    /\ user[u].call \in {"QueryStats", "GetObservatoryStatus"} /\ user[u].pc = "use" =>
          closed \/ field[Uses[user[u].call]] # 0

UserInv == \A u \in Users : UserOk(u)

(* The inductive invariant. *)
IInv ==
    /\ TypeOK /\ LateInv
    /\ ~overlap => Solo /\ ThreadInv /\ CoreInv /\ UserInv
    /\ CrashNeedsClose

-----------------------------------------------------------------------------
(* Proofs.                                                                  *)

(* What each call of a user dereferences. *)
LEMMA UsesFields ==
    /\ UserCalls = {"dial", "dialUDP", "QueryStats", "GetObservatoryStatus", "SetStatusUpdateListener"}
    /\ \A call \in UserCalls : Uses[call] \in Fields
    /\ Uses["dial"] = "core" /\ Uses["dialUDP"] = "dispatcher" /\ Uses["QueryStats"] = "statsManager"
    /\ Uses["GetObservatoryStatus"] = "observatory"
BY DEF UserCalls, Uses, Fields

(* The three outcomes of a user's first line. *)
LEMMA FirstStepType ==
    \A call : FirstStep(call) \in {"closed?", "use", "nil?"}
BY DEF FirstStep

(* The part of TypeOK about the calls in progress, and the one about users. *)
ApiType ==
    /\ api \in [Threads -> [pc : {"idle", "closed?", "started?", "run", "features", "mark", "close", "core", "clear"},
                            call : {"none", "LoadConfig", "Start", "Close"}]]
    /\ \A t \in Threads :
          /\ api[t].pc # "idle" => api[t].call # "none"
          /\ api[t].pc \in {"close", "core", "clear"} => api[t].call = "Close"
          /\ api[t].pc \in {"started?", "run"} => api[t].call \in {"LoadConfig", "Start"}

UserRecord ==
    [pc : {"idle", "closed?", "started?", "nil?", "use", "used", "refused", "panicked"},
     call : UserCalls, got : 0..MaxCores, late : BOOLEAN]
UserType == user \in [Users -> UserRecord]

(* A call that returns or goes on keeps the types of the calls. *)
LEMMA ReturnType ==
    ASSUME ApiType, NEW t \in Threads, Return(t)
    PROVE  ApiType'
BY DEF ApiType, Return, NoCall

LEMMA GotoType ==
    ASSUME ApiType, NEW t \in Threads,
           NEW pc \in {"idle", "closed?", "started?", "run", "features", "mark", "close", "core", "clear"},
           Goto(t, pc), api[t].pc # "idle",
           pc \in {"close", "core", "clear"} => api[t].call = "Close",
           pc \in {"started?", "run"} => api[t].call \in {"LoadConfig", "Start"}
    PROVE  ApiType'
BY DEF ApiType, Goto

(* So does a user that goes on. *)
LEMMA UserGotoType ==
    ASSUME UserType, NEW u \in Users, NEW from,
           NEW to \in {"idle", "closed?", "started?", "nil?", "use", "used", "refused", "panicked"},
           UserGoto(u, from, to)
    PROVE  UserType'
BY DEF UserType, UserRecord, UserGoto

(* Every step preserves the types. *)
LEMMA TypeInductive ==
    ASSUME TypeOK, [Next]_vars
    PROVE  TypeOK'
<1> DEFINE FieldType == made \in 0..MaxCores /\ field \in [Fields -> 0..made]
           RestType == /\ started \in BOOLEAN /\ closed \in BOOLEAN
                       /\ coreState \in [Cores -> {"new", "failed", "running", "closed"}]
                       /\ observed \subseteq Cores
                       /\ crashed \in BOOLEAN /\ calls \in 0..MaxCalls /\ overlap \in BOOLEAN
<1>1. ApiType /\ UserType /\ FieldType /\ RestType
    BY DEF TypeOK, ApiType, UserType, UserRecord
<1>2. SUFFICES ApiType' /\ UserType' /\ FieldType' /\ RestType'
    BY DEF TypeOK, ApiType, UserType, UserRecord
<1> USE BoundAssumption DEF vars, stateVars, coreVars
<1>3. ASSUME NEW t \in Threads, NEW call \in {"LoadConfig", "Start", "Close"}, Call(t, call)
      PROVE  ApiType' /\ UserType' /\ FieldType' /\ RestType'
    <2>1. ApiType'
        BY <1>1, <1>3 DEF Call, ApiType
    <2>2. UserType' /\ FieldType' /\ RestType'
        BY <1>1, <1>3 DEF Call, UserType
    <2>3. QED
        BY <2>1, <2>2
<1>4. ASSUME NEW t \in Threads, CheckClosed(t)
      PROVE  ApiType' /\ UserType' /\ FieldType' /\ RestType'
    <2>1. ApiType'
        BY <1>1, <1>4, ReturnType, GotoType DEF CheckClosed, ApiType
    <2>2. UserType' /\ FieldType'
        BY <1>1, <1>4 DEF CheckClosed, UserType
    <2>3. RestType'
        BY <1>1, <1>4 DEF CheckClosed, Cores
    <2>4. QED
        BY <2>1, <2>2, <2>3
<1>5. ASSUME NEW t \in Threads, CheckStarted(t)
      PROVE  ApiType' /\ UserType' /\ FieldType' /\ RestType'
    <2>1. ApiType'
        BY <1>1, <1>5, ReturnType, GotoType DEF CheckStarted, ApiType
    <2>2. UserType' /\ FieldType'
        BY <1>1, <1>5 DEF CheckStarted, UserType
    <2>3. RestType'
        BY <1>1, <1>5 DEF CheckStarted, Cores
    <2>4. QED
        BY <2>1, <2>2, <2>3
<1>6. ASSUME NEW t \in Threads, LoadRejected(t)
      PROVE  ApiType' /\ UserType' /\ FieldType' /\ RestType'
    <2>1. ApiType'
        BY <1>1, <1>6, ReturnType DEF LoadRejected, At
    <2>2. UserType' /\ FieldType'
        BY <1>1, <1>6 DEF LoadRejected, At, UserType
    <2>3. RestType'
        BY <1>1, <1>6 DEF LoadRejected, At, Cores
    <2>4. QED
        BY <2>1, <2>2, <2>3
<1>7. ASSUME NEW t \in Threads, LoadFails(t)
      PROVE  ApiType' /\ UserType' /\ FieldType' /\ RestType'
    <2>1. ApiType'
        BY <1>1, <1>7, ReturnType DEF LoadFails, At
    <2>2. UserType' /\ FieldType'
        BY <1>1, <1>7 DEF LoadFails, At, Fields, UserType
    <2>3. RestType'
        BY <1>1, <1>7 DEF LoadFails, At, Cores
    <2>4. QED
        BY <2>1, <2>2, <2>3
<1>8. ASSUME NEW t \in Threads, LoadCore(t)
      PROVE  ApiType' /\ UserType' /\ FieldType' /\ RestType'
    <2>1. ApiType'
        BY <1>1, <1>8, GotoType DEF LoadCore, At, ApiType
    <2>2. UserType' /\ FieldType'
        BY <1>1, <1>8 DEF LoadCore, At, Fields, UserType
    <2>3. RestType'
        BY <1>1, <1>8 DEF LoadCore, At, Cores
    <2>4. QED
        BY <2>1, <2>2, <2>3
<1>9. ASSUME NEW t \in Threads, LoadFeatures(t)
      PROVE  ApiType' /\ UserType' /\ FieldType' /\ RestType'
    <2>1. ApiType'
        BY <1>1, <1>9, ReturnType DEF LoadFeatures, At, ApiType
    <2>2. UserType' /\ FieldType'
        BY <1>1, <1>9 DEF LoadFeatures, At, Fields, UserType
    <2>3. RestType'
        BY <1>1, <1>9 DEF LoadFeatures, At, Cores
    <2>4. QED
        BY <2>1, <2>2, <2>3
<1>10. ASSUME NEW t \in Threads, StartRefused(t)
      PROVE  ApiType' /\ UserType' /\ FieldType' /\ RestType'
    <2>1. ApiType'
        BY <1>1, <1>10, ReturnType DEF StartRefused, At
    <2>2. UserType' /\ FieldType'
        BY <1>1, <1>10 DEF StartRefused, At, UserType
    <2>3. RestType'
        BY <1>1, <1>10 DEF StartRefused, At, Cores
    <2>4. QED
        BY <2>1, <2>2, <2>3
<1>11. ASSUME NEW t \in Threads, StartFails(t)
      PROVE  ApiType' /\ UserType' /\ FieldType' /\ RestType'
    <2>1. ApiType'
        BY <1>1, <1>11, ReturnType DEF StartFails, At
    <2>2. UserType' /\ FieldType'
        BY <1>1, <1>11 DEF StartFails, At, UserType
    <2>3. RestType'
        BY <1>1, <1>11 DEF StartFails, At, Cores
    <2>4. QED
        BY <2>1, <2>2, <2>3
<1>12. ASSUME NEW t \in Threads, StartCore(t)
      PROVE  ApiType' /\ UserType' /\ FieldType' /\ RestType'
    <2>1. ApiType'
        BY <1>1, <1>12, GotoType DEF StartCore, At, ApiType
    <2>2. UserType' /\ FieldType'
        BY <1>1, <1>12 DEF StartCore, At, UserType
    <2>3. RestType'
        BY <1>1, <1>12 DEF StartCore, At, Cores
    <2>4. QED
        BY <2>1, <2>2, <2>3
<1>13. ASSUME NEW t \in Threads, StartMark(t)
      PROVE  ApiType' /\ UserType' /\ FieldType' /\ RestType'
    <2>1. ApiType'
        BY <1>1, <1>13, ReturnType DEF StartMark, At
    <2>2. UserType' /\ FieldType'
        BY <1>1, <1>13 DEF StartMark, At, UserType
    <2>3. RestType'
        BY <1>1, <1>13 DEF StartMark, At, Cores
    <2>4. QED
        BY <2>1, <2>2, <2>3
<1>14. ASSUME NEW t \in Threads, CloseMark(t)
      PROVE  ApiType' /\ UserType' /\ FieldType' /\ RestType'
    <2>1. ApiType'
        BY <1>1, <1>14, ReturnType, GotoType DEF CloseMark, At, ApiType
    <2>2. UserType' /\ FieldType'
        BY <1>1, <1>14 DEF CloseMark, At, UserType
    <2>3. RestType'
        BY <1>1, <1>14 DEF CloseMark, At, Cores
    <2>4. QED
        BY <2>1, <2>2, <2>3
<1>15. ASSUME NEW t \in Threads, CloseCore(t)
      PROVE  ApiType' /\ UserType' /\ FieldType' /\ RestType'
    <2>1. ApiType'
        BY <1>1, <1>15, GotoType DEF CloseCore, At, ApiType
    <2>2. UserType' /\ FieldType'
        BY <1>1, <1>15 DEF CloseCore, At, UserType
    <2>3. RestType'
        BY <1>1, <1>15 DEF CloseCore, At, Cores
    <2>4. QED
        BY <2>1, <2>2, <2>3
<1>16. ASSUME NEW t \in Threads, CloseClear(t)
      PROVE  ApiType' /\ UserType' /\ FieldType' /\ RestType'
    <2>1. ApiType'
        BY <1>1, <1>16 DEF CloseClear, At, ApiType
    <2>2. UserType' /\ FieldType'
        BY <1>1, <1>16 DEF CloseClear, At, Fields, CloseOrder, UserType
    <2>3. RestType'
        BY <1>1, <1>16 DEF CloseClear, At, Cores
    <2>4. QED
        BY <2>1, <2>2, <2>3
<1>17. ASSUME NEW t \in Threads, CloseDone(t)
      PROVE  ApiType' /\ UserType' /\ FieldType' /\ RestType'
    <2>1. ApiType'
        BY <1>1, <1>17, ReturnType DEF CloseDone, At
    <2>2. UserType' /\ FieldType'
        BY <1>1, <1>17 DEF CloseDone, At, UserType
    <2>3. RestType'
        BY <1>1, <1>17 DEF CloseDone, At, Cores
    <2>4. QED
        BY <2>1, <2>2, <2>3
<1>18. ASSUME NEW u \in Users, NEW call \in UserCalls, UserCall(u, call)
      PROVE  ApiType' /\ UserType' /\ FieldType' /\ RestType'
    <2>1. ApiType' /\ FieldType' /\ RestType'
        BY <1>1, <1>18 DEF UserCall, ApiType
    <2>2. Closing \in BOOLEAN
        BY <1>1 DEF Closing
    <2>3. UserType'
        BY <1>1, <1>18, <2>2, FirstStepType DEF UserCall, UserType, UserRecord
    <2>4. QED
        BY <2>1, <2>2, <2>3
<1>19. ASSUME NEW u \in Users, UserCheckClosed(u)
      PROVE  ApiType' /\ UserType' /\ FieldType' /\ RestType'
    <2>1. ApiType' /\ FieldType' /\ RestType'
        BY <1>1, <1>19 DEF UserCheckClosed, ApiType
    <2>2. UserType'
        BY <1>1, <1>19, UserGotoType DEF UserCheckClosed
    <2>3. QED
        BY <2>1, <2>2
<1>20. ASSUME NEW u \in Users, UserCheckStarted(u)
      PROVE  ApiType' /\ UserType' /\ FieldType' /\ RestType'
    <2>1. ApiType' /\ FieldType' /\ RestType'
        BY <1>1, <1>20 DEF UserCheckStarted, ApiType
    <2>2. UserType'
        BY <1>1, <1>20, UserGotoType DEF UserCheckStarted
    <2>3. QED
        BY <2>1, <2>2
<1>21. ASSUME NEW u \in Users, UserCheckNil(u)
      PROVE  ApiType' /\ UserType' /\ FieldType' /\ RestType'
    <2>1. ApiType' /\ FieldType' /\ RestType'
        BY <1>1, <1>21 DEF UserCheckNil, ApiType
    <2>2. UserType'
        BY <1>1, <1>21, UserGotoType DEF UserCheckNil
    <2>3. QED
        BY <2>1, <2>2
<1>22. ASSUME NEW u \in Users, UserUse(u)
      PROVE  ApiType' /\ UserType' /\ FieldType' /\ RestType'
    <2>1. ApiType' /\ FieldType' /\ RestType'
        BY <1>1, <1>22 DEF UserUse, ApiType
    <2>2. Uses[user[u].call] \in Fields
        BY <1>1, UsesFields DEF UserType, UserRecord
    <2>3. field[Uses[user[u].call]] \in 0..MaxCores
        BY <1>1, <2>2
    <2>4. user[u] \in UserRecord
        BY <1>1 DEF UserType
    <2>5. UserType'
        BY <1>1, <1>22, <2>3, <2>4 DEF UserUse, UserType, UserRecord
    <2>6. QED
        BY <2>1, <2>2, <2>3, <2>4, <2>5
<1>23. ASSUME UNCHANGED vars
      PROVE  ApiType' /\ UserType' /\ FieldType' /\ RestType'
    BY <1>1, <1>23 DEF ApiType, UserType
<1>24. QED
    BY <1>3, <1>4, <1>5, <1>6, <1>7, <1>8, <1>9, <1>10, <1>11, <1>12, <1>13, <1>14, <1>15, <1>16, <1>17, <1>18, <1>19, <1>20, <1>21, <1>22, <1>23 DEF Next, ApiStep, UserStep

(* Every step preserves LateInv. *)
LEMMA LateInductive ==
    ASSUME ApiType, UserType, LateInv, [Next]_vars
    PROVE  LateInv'
<1> USE DEF vars, stateVars, coreVars, ApiType, UserType, UserRecord, LateInv, Dialling, Dials, NoCall
<1>1. ASSUME NEW t \in Threads, NEW call \in {"LoadConfig", "Start", "Close"}, Call(t, call) PROVE LateInv'
    BY <1>1 DEF Call
<1>2. ASSUME NEW t \in Threads, CheckClosed(t) PROVE LateInv'
    BY <1>2 DEF CheckClosed, Goto, Return
<1>3. ASSUME NEW t \in Threads, CheckStarted(t) PROVE LateInv'
    BY <1>3 DEF CheckStarted, Goto, Return
<1>4. ASSUME NEW t \in Threads, LoadRejected(t) PROVE LateInv'
    BY <1>4 DEF LoadRejected, At, Return
<1>5. ASSUME NEW t \in Threads, LoadFails(t) PROVE LateInv'
    BY <1>5 DEF LoadFails, At, Return
<1>6. ASSUME NEW t \in Threads, LoadCore(t) PROVE LateInv'
    BY <1>6 DEF LoadCore, At, Goto
<1>7. ASSUME NEW t \in Threads, LoadFeatures(t) PROVE LateInv'
    BY <1>7 DEF LoadFeatures, At, Return
<1>8. ASSUME NEW t \in Threads, StartRefused(t) PROVE LateInv'
    BY <1>8 DEF StartRefused, At, Return
<1>9. ASSUME NEW t \in Threads, StartFails(t) PROVE LateInv'
    BY <1>9 DEF StartFails, At, Return
<1>10. ASSUME NEW t \in Threads, StartCore(t) PROVE LateInv'
    BY <1>10 DEF StartCore, At, Goto
<1>11. ASSUME NEW t \in Threads, StartMark(t) PROVE LateInv'
    BY <1>11 DEF StartMark, At, Return
<1>12. ASSUME NEW t \in Threads, CloseMark(t) PROVE LateInv'
    BY <1>12 DEF CloseMark, At, Goto, Return
<1>13. ASSUME NEW t \in Threads, CloseCore(t) PROVE LateInv'
    BY <1>13 DEF CloseCore, At, Goto
<1>14. ASSUME NEW t \in Threads, CloseClear(t) PROVE LateInv'
    BY <1>14 DEF CloseClear, At
<1>15. ASSUME NEW t \in Threads, CloseDone(t) PROVE LateInv'
    BY <1>15 DEF CloseDone, At, Return
<1>16. ASSUME NEW u \in Users, NEW call \in UserCalls, UserCall(u, call) PROVE LateInv'
    BY <1>16 DEF UserCall, Closing, FirstStep
<1>17. ASSUME NEW u \in Users, UserCheckClosed(u) PROVE LateInv'
    BY <1>17 DEF UserCheckClosed, UserGoto
<1>18. ASSUME NEW u \in Users, UserCheckStarted(u) PROVE LateInv'
    BY <1>18 DEF UserCheckStarted, UserGoto
<1>19. ASSUME NEW u \in Users, UserCheckNil(u) PROVE LateInv'
    BY <1>19 DEF UserCheckNil, UserGoto
<1>20. ASSUME NEW u \in Users, UserUse(u) PROVE LateInv'
    BY <1>20 DEF UserUse
<1>21. CASE UNCHANGED vars
    BY <1>21
<1>22. QED
    BY <1>1, <1>2, <1>3, <1>4, <1>5, <1>6, <1>7, <1>8, <1>9, <1>10, <1>11, <1>12, <1>13, <1>14, <1>15, <1>16, <1>17, <1>18, <1>19, <1>20, <1>21 DEF Next, ApiStep, UserStep

(* Every step that leaves overlap FALSE preserves Solo. *)
LEMMA SoloInductive ==
    ASSUME ApiType, ~overlap', ~overlap => Solo, [Next]_vars
    PROVE  Solo'
<1> USE DEF vars, stateVars, coreVars, ApiType, Solo, NoCall
<1>1. ASSUME NEW t \in Threads, NEW call \in {"LoadConfig", "Start", "Close"}, Call(t, call) PROVE Solo'
    BY <1>1 DEF Call
<1>2. ASSUME NEW t \in Threads, CheckClosed(t) PROVE Solo'
    BY <1>2 DEF CheckClosed, Goto, Return
<1>3. ASSUME NEW t \in Threads, CheckStarted(t) PROVE Solo'
    BY <1>3 DEF CheckStarted, Goto, Return
<1>4. ASSUME NEW t \in Threads, LoadRejected(t) PROVE Solo'
    BY <1>4 DEF LoadRejected, At, Return
<1>5. ASSUME NEW t \in Threads, LoadFails(t) PROVE Solo'
    BY <1>5 DEF LoadFails, At, Return
<1>6. ASSUME NEW t \in Threads, LoadCore(t) PROVE Solo'
    BY <1>6 DEF LoadCore, At, Goto
<1>7. ASSUME NEW t \in Threads, LoadFeatures(t) PROVE Solo'
    BY <1>7 DEF LoadFeatures, At, Return
<1>8. ASSUME NEW t \in Threads, StartRefused(t) PROVE Solo'
    BY <1>8 DEF StartRefused, At, Return
<1>9. ASSUME NEW t \in Threads, StartFails(t) PROVE Solo'
    BY <1>9 DEF StartFails, At, Return
<1>10. ASSUME NEW t \in Threads, StartCore(t) PROVE Solo'
    BY <1>10 DEF StartCore, At, Goto
<1>11. ASSUME NEW t \in Threads, StartMark(t) PROVE Solo'
    BY <1>11 DEF StartMark, At, Return
<1>12. ASSUME NEW t \in Threads, CloseMark(t) PROVE Solo'
    BY <1>12 DEF CloseMark, At, Goto, Return
<1>13. ASSUME NEW t \in Threads, CloseCore(t) PROVE Solo'
    BY <1>13 DEF CloseCore, At, Goto
<1>14. ASSUME NEW t \in Threads, CloseClear(t) PROVE Solo'
    BY <1>14 DEF CloseClear, At
<1>15. ASSUME NEW t \in Threads, CloseDone(t) PROVE Solo'
    BY <1>15 DEF CloseDone, At, Return
<1>16. ASSUME NEW u \in Users, NEW call \in UserCalls, UserCall(u, call) PROVE Solo'
    BY <1>16 DEF UserCall
<1>17. ASSUME NEW u \in Users, UserCheckClosed(u) PROVE Solo'
    BY <1>17 DEF UserCheckClosed, UserGoto
<1>18. ASSUME NEW u \in Users, UserCheckStarted(u) PROVE Solo'
    BY <1>18 DEF UserCheckStarted, UserGoto
<1>19. ASSUME NEW u \in Users, UserCheckNil(u) PROVE Solo'
    BY <1>19 DEF UserCheckNil, UserGoto
<1>20. ASSUME NEW u \in Users, UserUse(u) PROVE Solo'
    BY <1>20 DEF UserUse
<1>21. CASE UNCHANGED vars
    BY <1>21
<1>22. QED
    BY <1>1, <1>2, <1>3, <1>4, <1>5, <1>6, <1>7, <1>8, <1>9, <1>10, <1>11, <1>12, <1>13, <1>14, <1>15, <1>16, <1>17, <1>18, <1>19, <1>20, <1>21 DEF Next, ApiStep, UserStep

(* What TypeOK says of the pointers and the cores. *)
CoreType ==
    /\ made \in 0..MaxCores /\ field \in [Fields -> 0..made]
    /\ coreState \in [Cores -> {"new", "failed", "running", "closed"}]

(* A pointer that is not nil names a core. *)
LEMMA PointerNamesCore ==
    ASSUME CoreType, NEW f \in Fields, field[f] # 0
    PROVE  field[f] \in Cores
BY BoundAssumption DEF CoreType, Cores

(* Every step preserves ThreadInv while no two calls overlap: a step that   *)
(* changes what ThreadInv says of one call finds the others idle.           *)
LEMMA ThreadInductive ==
    ASSUME ApiType, CoreType, Solo, ThreadInv, CoreInv, ~overlap', [Next]_vars
    PROVE  ThreadInv'
<1> USE BoundAssumption, PointerNamesCore DEF vars, stateVars, coreVars, ApiType, Solo, NoCall, CoreType, ThreadInv, Fields
<1>1. ASSUME NEW t \in Threads, NEW call \in {"LoadConfig", "Start", "Close"}, Call(t, call) PROVE ThreadInv'
    BY <1>1 DEF Call
<1>2. ASSUME NEW t \in Threads, CheckClosed(t) PROVE ThreadInv'
    BY <1>2 DEF CheckClosed, Goto, Return
<1>3. ASSUME NEW t \in Threads, CheckStarted(t) PROVE ThreadInv'
    BY <1>3 DEF CheckStarted, Goto, Return
<1>4. ASSUME NEW t \in Threads, LoadRejected(t) PROVE ThreadInv'
    BY <1>4 DEF LoadRejected, At, Return
<1>5. ASSUME NEW t \in Threads, LoadFails(t) PROVE ThreadInv'
    BY <1>5 DEF LoadFails, At, Return
<1>6. ASSUME NEW t \in Threads, LoadCore(t) PROVE ThreadInv'
    BY <1>6 DEF LoadCore, At, Goto
<1>7. ASSUME NEW t \in Threads, LoadFeatures(t) PROVE ThreadInv'
    BY <1>7 DEF LoadFeatures, At, Return
<1>8. ASSUME NEW t \in Threads, StartRefused(t) PROVE ThreadInv'
    BY <1>8 DEF StartRefused, At, Return
<1>9. ASSUME NEW t \in Threads, StartFails(t) PROVE ThreadInv'
    BY <1>9 DEF StartFails, At, Return
<1>10. ASSUME NEW t \in Threads, StartCore(t) PROVE ThreadInv'
    BY <1>10 DEF StartCore, At, Goto
<1>11. ASSUME NEW t \in Threads, StartMark(t) PROVE ThreadInv'
    BY <1>11 DEF StartMark, At, Return
<1>12. ASSUME NEW t \in Threads, CloseMark(t) PROVE ThreadInv'
    BY <1>12 DEF CloseMark, At, Goto, Return
<1>13. ASSUME NEW t \in Threads, CloseCore(t) PROVE ThreadInv'
    <2>1. ~Clearing /\ (\A s \in Threads : api[s].pc # "features")
        BY <1>13 DEF CloseCore, At, Goto, Clearing
    <2>2. field["core"] # 0
        BY <1>13, <2>1 DEF CloseCore, At, Goto, CoreInv
    <2>3. FeaturesMatch
        BY <2>1, <2>2 DEF CoreInv
    <2>4. \A c \in Cores : coreState'[c] # "running"
        BY <1>13, <2>2 DEF CloseCore, At, Goto, CoreInv
    <2>5. coreState'[field["core"]] = "closed"
        BY <1>13, <2>2 DEF CloseCore, At, Goto
    <2>6. \A s \in Threads : s # t => api'[s].pc = "idle"
        BY <1>13 DEF CloseCore, At, Goto
    <2>7. field' = field /\ closed' /\ started' /\ api'[t].pc = "clear"
        BY <1>13, <2>2 DEF CloseCore, At, Goto
    <2>8. ThreadInv'
        BY <2>3, <2>4, <2>5, <2>6, <2>7 DEF FeaturesMatch
    <2>9. QED
        BY <2>1, <2>2, <2>3, <2>4, <2>5, <2>6, <2>7, <2>8
<1>14. ASSUME NEW t \in Threads, CloseClear(t) PROVE ThreadInv'
    BY <1>14 DEF CloseClear, At
<1>15. ASSUME NEW t \in Threads, CloseDone(t) PROVE ThreadInv'
    BY <1>15 DEF CloseDone, At, Return
<1>16. ASSUME NEW u \in Users, NEW call \in UserCalls, UserCall(u, call) PROVE ThreadInv'
    BY <1>16 DEF UserCall
<1>17. ASSUME NEW u \in Users, UserCheckClosed(u) PROVE ThreadInv'
    BY <1>17 DEF UserCheckClosed, UserGoto
<1>18. ASSUME NEW u \in Users, UserCheckStarted(u) PROVE ThreadInv'
    BY <1>18 DEF UserCheckStarted, UserGoto
<1>19. ASSUME NEW u \in Users, UserCheckNil(u) PROVE ThreadInv'
    BY <1>19 DEF UserCheckNil, UserGoto
<1>20. ASSUME NEW u \in Users, UserUse(u) PROVE ThreadInv'
    BY <1>20 DEF UserUse
<1>21. CASE UNCHANGED vars
    BY <1>21
<1>22. QED
    BY <1>1, <1>2, <1>3, <1>4, <1>5, <1>6, <1>7, <1>8, <1>9, <1>10, <1>11, <1>12, <1>13, <1>14, <1>15, <1>16, <1>17, <1>18, <1>19, <1>20, <1>21 DEF Next, ApiStep, UserStep

(* Likewise CoreInv. *)
LEMMA CoreInductive ==
    ASSUME ApiType, CoreType, Solo, ThreadInv, CoreInv, ~overlap', [Next]_vars
    PROVE  CoreInv'
<1> USE BoundAssumption, PointerNamesCore DEF vars, stateVars, coreVars, ApiType, Solo, NoCall, CoreType, ThreadInv, CoreInv, Clearing, FeaturesMatch, Fields
<1>1. ASSUME NEW t \in Threads, NEW call \in {"LoadConfig", "Start", "Close"}, Call(t, call) PROVE CoreInv'
    BY <1>1 DEF Call
<1>2. ASSUME NEW t \in Threads, CheckClosed(t) PROVE CoreInv'
    BY <1>2 DEF CheckClosed, Goto, Return
<1>3. ASSUME NEW t \in Threads, CheckStarted(t) PROVE CoreInv'
    BY <1>3 DEF CheckStarted, Goto, Return
<1>4. ASSUME NEW t \in Threads, LoadRejected(t) PROVE CoreInv'
    BY <1>4 DEF LoadRejected, At, Return
<1>5. ASSUME NEW t \in Threads, LoadFails(t) PROVE CoreInv'
    BY <1>5 DEF LoadFails, At, Return
<1>6. ASSUME NEW t \in Threads, LoadCore(t) PROVE CoreInv'
    BY <1>6 DEF LoadCore, At, Goto
<1>7. ASSUME NEW t \in Threads, LoadFeatures(t) PROVE CoreInv'
    BY <1>7 DEF LoadFeatures, At, Return
<1>8. ASSUME NEW t \in Threads, StartRefused(t) PROVE CoreInv'
    BY <1>8 DEF StartRefused, At, Return
<1>9. ASSUME NEW t \in Threads, StartFails(t) PROVE CoreInv'
    BY <1>9 DEF StartFails, At, Return
<1>10. ASSUME NEW t \in Threads, StartCore(t) PROVE CoreInv'
    BY <1>10 DEF StartCore, At, Goto
<1>11. ASSUME NEW t \in Threads, StartMark(t) PROVE CoreInv'
    BY <1>11 DEF StartMark, At, Return
<1>12. ASSUME NEW t \in Threads, CloseMark(t) PROVE CoreInv'
    BY <1>12 DEF CloseMark, At, Goto, Return
<1>13. ASSUME NEW t \in Threads, CloseCore(t) PROVE CoreInv'
    BY <1>13 DEF CloseCore, At, Goto
<1>14. ASSUME NEW t \in Threads, CloseClear(t) PROVE CoreInv'
    BY <1>14 DEF CloseClear, At
<1>15. ASSUME NEW t \in Threads, CloseDone(t) PROVE CoreInv'
    BY <1>15 DEF CloseDone, At, Return
<1>16. ASSUME NEW u \in Users, NEW call \in UserCalls, UserCall(u, call) PROVE CoreInv'
    BY <1>16 DEF UserCall
<1>17. ASSUME NEW u \in Users, UserCheckClosed(u) PROVE CoreInv'
    BY <1>17 DEF UserCheckClosed, UserGoto
<1>18. ASSUME NEW u \in Users, UserCheckStarted(u) PROVE CoreInv'
    BY <1>18 DEF UserCheckStarted, UserGoto
<1>19. ASSUME NEW u \in Users, UserCheckNil(u) PROVE CoreInv'
    BY <1>19 DEF UserCheckNil, UserGoto
<1>20. ASSUME NEW u \in Users, UserUse(u) PROVE CoreInv'
    BY <1>20 DEF UserUse
<1>21. CASE UNCHANGED vars
    BY <1>21
<1>22. QED
    BY <1>1, <1>2, <1>3, <1>4, <1>5, <1>6, <1>7, <1>8, <1>9, <1>10, <1>11, <1>12, <1>13, <1>14, <1>15, <1>16, <1>17, <1>18, <1>19, <1>20, <1>21 DEF Next, ApiStep, UserStep

(* Likewise UserInv. *)
LEMMA UserInductive ==
    ASSUME ApiType, CoreType, UserType, Solo, ThreadInv, CoreInv, UserInv, ~overlap', [Next]_vars
    PROVE  UserInv'
<1> USE BoundAssumption, UsesFields, PointerNamesCore DEF vars, stateVars, coreVars, ApiType, Solo, NoCall, CoreType, UserType, UserRecord, ThreadInv, CoreInv, UserInv, UserOk, Up, Clearing, FeaturesMatch, Fields, Dialling, Dials
<1>1. ASSUME NEW t \in Threads, NEW call \in {"LoadConfig", "Start", "Close"}, Call(t, call) PROVE UserInv'
    BY <1>1 DEF Call
<1>2. ASSUME NEW t \in Threads, CheckClosed(t) PROVE UserInv'
    BY <1>2 DEF CheckClosed, Goto, Return
<1>3. ASSUME NEW t \in Threads, CheckStarted(t) PROVE UserInv'
    BY <1>3 DEF CheckStarted, Goto, Return
<1>4. ASSUME NEW t \in Threads, LoadRejected(t) PROVE UserInv'
    BY <1>4 DEF LoadRejected, At, Return
<1>5. ASSUME NEW t \in Threads, LoadFails(t) PROVE UserInv'
    BY <1>5 DEF LoadFails, At, Return
<1>6. ASSUME NEW t \in Threads, LoadCore(t) PROVE UserInv'
    BY <1>6 DEF LoadCore, At, Goto
<1>7. ASSUME NEW t \in Threads, LoadFeatures(t) PROVE UserInv'
    BY <1>7 DEF LoadFeatures, At, Return
<1>8. ASSUME NEW t \in Threads, StartRefused(t) PROVE UserInv'
    BY <1>8 DEF StartRefused, At, Return
<1>9. ASSUME NEW t \in Threads, StartFails(t) PROVE UserInv'
    BY <1>9 DEF StartFails, At, Return
<1>10. ASSUME NEW t \in Threads, StartCore(t) PROVE UserInv'
    BY <1>10 DEF StartCore, At, Goto
<1>11. ASSUME NEW t \in Threads, StartMark(t) PROVE UserInv'
    BY <1>11 DEF StartMark, At, Return
<1>12. ASSUME NEW t \in Threads, CloseMark(t) PROVE UserInv'
    BY <1>12 DEF CloseMark, At, Goto, Return
<1>13. ASSUME NEW t \in Threads, CloseCore(t) PROVE UserInv'
    <2>1. \A c \in Cores : Up(c) => Up(c)'
        BY <1>13 DEF CloseCore, At, Goto
    <2>2. field' = field /\ user' = user /\ closed' = closed /\ started' = started
        BY <1>13 DEF CloseCore, At, Goto
    <2>3. \A u \in Users : Uses[user[u].call] \in Fields /\ (user[u].got # 0 => user[u].got \in Cores)
        BY DEF Cores
    <2>4. \A u \in Users : field[Uses[user[u].call]] # 0 => field[Uses[user[u].call]] \in Cores
        BY <2>3, PointerNamesCore
    <2>5. \A u \in Users : UserOk(u)'
        BY <2>1, <2>2, <2>3, <2>4 DEF UserOk, Dialling
    <2>6. QED
        BY <2>1, <2>2, <2>3, <2>4, <2>5
<1>14. ASSUME NEW t \in Threads, CloseClear(t) PROVE UserInv'
    BY <1>14 DEF CloseClear, At
<1>15. ASSUME NEW t \in Threads, CloseDone(t) PROVE UserInv'
    BY <1>15 DEF CloseDone, At, Return
<1>16. ASSUME NEW u \in Users, NEW call \in UserCalls, UserCall(u, call) PROVE UserInv'
    BY <1>16 DEF UserCall, FirstStep
<1>17. ASSUME NEW u \in Users, UserCheckClosed(u) PROVE UserInv'
    BY <1>17 DEF UserCheckClosed, UserGoto
<1>18. ASSUME NEW u \in Users, UserCheckStarted(u) PROVE UserInv'
    BY <1>18 DEF UserCheckStarted, UserGoto
<1>19. ASSUME NEW u \in Users, UserCheckNil(u) PROVE UserInv'
    <2>1. started' = started /\ closed' = closed /\ field' = field /\ coreState' = coreState /\ \A v \in Users : v # u => user'[v] = user[v]
        BY <1>19 DEF UserCheckNil, UserGoto
    <2>2. \A v \in Users : v # u => UserOk(v)'
        BY <2>1
    <2>3. user[u].call \in UserCalls /\ Uses[user[u].call] \in Fields
        BY UsesFields
    <2>4. user'[u] = [user[u] EXCEPT !.pc = IF field[Uses[user[u].call]] = 0 THEN "refused" ELSE "use"] /\ user[u].pc = "nil?"
        BY <1>19 DEF UserCheckNil, UserGoto
    <2>5. user'[u].call = user[u].call /\ (user'[u].pc = "refused" \/ (user'[u].pc = "use" /\ field[Uses[user[u].call]] # 0))
        BY <2>4
    <2>6. UserOk(u)'
        BY <2>1, <2>4, <2>5
    <2>7. QED
        BY <2>1, <2>2, <2>3, <2>4, <2>5, <2>6
<1>20. ASSUME NEW u \in Users, UserUse(u) PROVE UserInv'
    <2>1. started' = started /\ closed' = closed /\ field' = field /\ coreState' = coreState /\ \A v \in Users : v # u => user'[v] = user[v]
        BY <1>20 DEF UserUse
    <2>2. \A v \in Users : v # u => UserOk(v)'
        BY <2>1
    <2>3. user[u].call \in UserCalls /\ Uses[user[u].call] \in Fields
        BY UsesFields
    <2>4. user[u].pc = "use" /\ user'[u].call = user[u].call /\ user'[u].got = field[Uses[user[u].call]]
        BY <1>20 DEF UserUse
    <2>5. user'[u].pc = "panicked" \/ (user'[u].pc = "used" /\ field[Uses[user[u].call]] # 0)
        BY <1>20 DEF UserUse
    <2>6. UserOk(u)'
        BY <2>1, <2>4, <2>5
    <2>7. QED
        BY <2>1, <2>2, <2>3, <2>4, <2>5, <2>6
<1>21. CASE UNCHANGED vars
    BY <1>21
<1> HIDE DEF ApiType, Solo, NoCall, CoreType, UserType, UserRecord, ThreadInv, CoreInv, UserInv, UserOk, Up, Clearing, FeaturesMatch, Fields, Dialling, Dials
<1>22. QED
    BY <1>1, <1>2, <1>3, <1>4, <1>5, <1>6, <1>7, <1>8, <1>9, <1>10, <1>11, <1>12, <1>13, <1>14, <1>15, <1>16, <1>17, <1>18, <1>19, <1>20, <1>21 DEF Next, ApiStep, UserStep

(* Likewise CrashNeedsClose: LoadConfig and Close find a core, and so do dial, *)
(* dialUDP, QueryStats and GetObservatoryStatus unless Close has begun.     *)
LEMMA CrashInductive ==
    ASSUME ApiType, CoreType, UserType, Solo, ThreadInv, CoreInv, UserInv, CrashNeedsClose, ~overlap, ~overlap', [Next]_vars
    PROVE  CrashNeedsClose'
<1> USE DEF vars, stateVars, coreVars, CrashNeedsClose
<1>1. ASSUME NEW t \in Threads, NEW call \in {"LoadConfig", "Start", "Close"}, Call(t, call) PROVE CrashNeedsClose'
    BY <1>1 DEF Call
<1>2. ASSUME NEW t \in Threads, CheckClosed(t) PROVE CrashNeedsClose'
    BY <1>2 DEF CheckClosed, Goto, Return
<1>3. ASSUME NEW t \in Threads, CheckStarted(t) PROVE CrashNeedsClose'
    BY <1>3 DEF CheckStarted, Goto, Return
<1>4. ASSUME NEW t \in Threads, LoadRejected(t) PROVE CrashNeedsClose'
    BY <1>4 DEF LoadRejected, At, Return
<1>5. ASSUME NEW t \in Threads, LoadFails(t) PROVE CrashNeedsClose'
    BY <1>5 DEF LoadFails, At, Return
<1>6. ASSUME NEW t \in Threads, LoadCore(t) PROVE CrashNeedsClose'
    BY <1>6 DEF LoadCore, At, Goto
<1>7. ASSUME NEW t \in Threads, LoadFeatures(t) PROVE CrashNeedsClose'
    <2>1. field["core"] # 0
        BY <1>7 DEF LoadFeatures, At, Return, ThreadInv
    <2>2. CrashNeedsClose'
        BY <1>7, <2>1 DEF LoadFeatures, At, Return
    <2>3. QED
        BY <2>1, <2>2
<1>8. ASSUME NEW t \in Threads, StartRefused(t) PROVE CrashNeedsClose'
    BY <1>8 DEF StartRefused, At, Return
<1>9. ASSUME NEW t \in Threads, StartFails(t) PROVE CrashNeedsClose'
    BY <1>9 DEF StartFails, At, Return
<1>10. ASSUME NEW t \in Threads, StartCore(t) PROVE CrashNeedsClose'
    BY <1>10 DEF StartCore, At, Goto
<1>11. ASSUME NEW t \in Threads, StartMark(t) PROVE CrashNeedsClose'
    BY <1>11 DEF StartMark, At, Return
<1>12. ASSUME NEW t \in Threads, CloseMark(t) PROVE CrashNeedsClose'
    BY <1>12 DEF CloseMark, At, Goto, Return
<1>13. ASSUME NEW t \in Threads, CloseCore(t) PROVE CrashNeedsClose'
    <2>1. closed
        BY <1>13 DEF CloseCore, At, Goto, ThreadInv
    <2>2. CrashNeedsClose'
        BY <1>13, <2>1 DEF CloseCore, At, Goto
    <2>3. QED
        BY <2>1, <2>2
<1>14. ASSUME NEW t \in Threads, CloseClear(t) PROVE CrashNeedsClose'
    BY <1>14 DEF CloseClear, At
<1>15. ASSUME NEW t \in Threads, CloseDone(t) PROVE CrashNeedsClose'
    BY <1>15 DEF CloseDone, At, Return
<1>16. ASSUME NEW u \in Users, NEW call \in UserCalls, UserCall(u, call) PROVE CrashNeedsClose'
    BY <1>16 DEF UserCall, FirstStep
<1>17. ASSUME NEW u \in Users, UserCheckClosed(u) PROVE CrashNeedsClose'
    BY <1>17 DEF UserCheckClosed, UserGoto
<1>18. ASSUME NEW u \in Users, UserCheckStarted(u) PROVE CrashNeedsClose'
    BY <1>18 DEF UserCheckStarted, UserGoto
<1>19. ASSUME NEW u \in Users, UserCheckNil(u) PROVE CrashNeedsClose'
    BY <1>19 DEF UserCheckNil, UserGoto
<1>20. ASSUME NEW u \in Users, UserUse(u) PROVE CrashNeedsClose'
    <2>1. CASE field[Uses[user[u].call]] # 0
        BY <1>20, <2>1 DEF UserUse
    <2>2. CASE closed
        BY <1>20, <2>2 DEF UserUse
    <2>3. ASSUME field[Uses[user[u].call]] = 0, ~closed
         PROVE  user[u].call = "SetStatusUpdateListener"
        <3>1. user[u].pc = "use" /\ user[u].call \in UserCalls
            BY <1>20 DEF UserUse, UserType, UserRecord
        <3>2. ~Dialling(u)
            <4>1. SUFFICES ASSUME Dialling(u) PROVE FALSE
                OBVIOUS
            <4>2. started
                BY <2>3, <3>1, <4>1 DEF UserInv, UserOk
            <4>3. \A t \in Threads : api[t].pc \notin {"clear", "features"}
                BY <2>3, <4>2 DEF ThreadInv
            <4>4. field["core"] # 0 /\ field["dispatcher"] = field["core"]
                BY <4>2, <4>3 DEF CoreInv, Clearing, FeaturesMatch
            <4>5. QED
                BY <2>3, <4>1, <4>4, UsesFields DEF Dialling, Dials
        <3>3. user[u].call \notin {"QueryStats", "GetObservatoryStatus"}
            BY <2>3, <3>1 DEF UserInv, UserOk
        <3>4. QED
            BY <3>1, <3>2, <3>3, UsesFields DEF Dialling, Dials
    <2>4. user'[u].pc = IF field[Uses[user[u].call]] = 0 THEN "panicked" ELSE "used"
        BY <1>20 DEF UserUse, UserType, UserRecord
    <2>5. user'[u].call = user[u].call
        BY <1>20 DEF UserUse, UserType, UserRecord
    <2>6. CASE field[Uses[user[u].call]] = 0 /\ ~closed
        BY <2>3, <2>4, <2>5, <2>6
    <2>7. QED
        BY <2>1, <2>2, <2>3, <2>4, <2>5, <2>6
<1>21. CASE UNCHANGED vars
    BY <1>21
<1>22. QED
    BY <1>1, <1>2, <1>3, <1>4, <1>5, <1>6, <1>7, <1>8, <1>9, <1>10, <1>11, <1>12, <1>13, <1>14, <1>15, <1>16, <1>17, <1>18, <1>19, <1>20, <1>21 DEF Next, ApiStep, UserStep

(* IInv is inductive. *)
LEMMA InvInit == Init => IInv
<1>1. SUFFICES ASSUME Init PROVE IInv
    OBVIOUS
<1> USE DEF Init, NoCall
<1>2. TypeOK
    <2>1. ApiType
        BY <1>1 DEF ApiType
    <2>2. UserType
        <3>1. 0 \in 0..MaxCores /\ "dial" \in UserCalls
            BY BoundAssumption, UsesFields
        <3>2. QED
            BY <1>1, <3>1 DEF UserType, UserRecord
    <2>3. made \in 0..MaxCores /\ field \in [Fields -> 0..made] /\ calls \in 0..MaxCalls
        BY <1>1, BoundAssumption
    <2>4. coreState \in [Cores -> {"new", "failed", "running", "closed"}] /\ observed \subseteq Cores
        BY <1>1
    <2>5. started \in BOOLEAN /\ closed \in BOOLEAN /\ crashed \in BOOLEAN /\ overlap \in BOOLEAN
        BY <1>1
    <2>6. QED
        BY <2>1, <2>2, <2>3, <2>4, <2>5 DEF TypeOK, ApiType, UserType, UserRecord
<1>3. LateInv /\ Solo /\ ThreadInv /\ CrashNeedsClose
    BY <1>1 DEF LateInv, Solo, ThreadInv, CrashNeedsClose
<1>4. CoreInv
    BY <1>1 DEF CoreInv, Fields
<1>5. UserInv
    BY <1>1 DEF UserInv, UserOk
<1>6. QED
    BY <1>2, <1>3, <1>4, <1>5 DEF IInv

LEMMA InvNext == IInv /\ [Next]_vars => IInv'
<1>1. SUFFICES ASSUME IInv, [Next]_vars PROVE IInv'
    OBVIOUS
<1>2. TypeOK' /\ ApiType /\ UserType /\ CoreType
    BY <1>1, TypeInductive DEF IInv, TypeOK, ApiType, UserType, UserRecord, CoreType
<1>3. LateInv'
    BY <1>1, <1>2, LateInductive DEF IInv
<1>4. overlap => overlap'
    BY <1>1 DEF Next, ApiStep, UserStep, vars, Call, CheckClosed, CheckStarted, LoadRejected, LoadFails, LoadCore,
        LoadFeatures, StartRefused, StartFails, StartCore, StartMark, CloseMark, CloseCore, CloseClear, CloseDone,
        UserCall, UserCheckClosed, UserCheckStarted, UserCheckNil, UserUse
<1>5. ASSUME ~overlap'
      PROVE  Solo' /\ ThreadInv' /\ CoreInv' /\ UserInv' /\ CrashNeedsClose'
    <2>1. ~overlap /\ Solo /\ ThreadInv /\ CoreInv /\ UserInv /\ CrashNeedsClose
        BY <1>1, <1>4, <1>5 DEF IInv
    <2>2. Solo'
        BY <1>1, <1>2, <1>5, <2>1, SoloInductive
    <2>3. ThreadInv'
        BY <1>1, <1>2, <1>5, <2>1, ThreadInductive
    <2>4. CoreInv'
        BY <1>1, <1>2, <1>5, <2>1, CoreInductive
    <2>5. UserInv'
        BY <1>1, <1>2, <1>5, <2>1, UserInductive
    <2>6. CrashNeedsClose'
        BY <1>1, <1>2, <1>5, <2>1, CrashInductive
    <2>7. QED
        BY <2>2, <2>3, <2>4, <2>5, <2>6
<1>6. overlap' => CrashNeedsClose'
    BY DEF CrashNeedsClose
<1>7. QED
    BY <1>2, <1>3, <1>5, <1>6 DEF IInv

LEMMA InvAlways == Spec => []IInv
<1>1. Init => IInv
    BY InvInit
<1>2. IInv /\ [Next]_vars => IInv'
    BY InvNext
<1>3. QED
    BY <1>1, <1>2, PTL DEF Spec

(* Every variable has its type; a pointer names a core that was made, and   *)
(* each call is at a line of its own function.                              *)
THEOREM TypeCorrect == Spec => []TypeOK
<1>1. IInv => TypeOK
    BY DEF IInv
<1>2. QED
    BY <1>1, InvAlways, PTL

(* Whatever LoadConfig, Start and Close do at the same time, a dial or      *)
(* dialUDP that begins after Close has set closed is refused.               *)
THEOREM LateDialsAreRefused == Spec => []LateDialsRefused
<1>1. IInv => LateDialsRefused
    BY DEF IInv, LateInv, LateDialsRefused
<1>2. QED
    BY <1>1, InvAlways, PTL

(* With one call at a time, nil is only met by a user that overlaps Close, or *)
(* by SetStatusUpdateListener, which does not check its pointer.            *)
THEOREM CrashesNeedClose == Spec => []CrashNeedsClose
<1>1. IInv => CrashNeedsClose
    BY DEF IInv
<1>2. QED
    BY <1>1, InvAlways, PTL

(* With one call at a time, dial and dialUDP only get a core that was started. *)
THEOREM DialsGetStartedCore == Spec => []DialsUseStartedCore
<1>1. IInv => DialsUseStartedCore
    BY DEF IInv, UserInv, UserOk, Up, DialsUseStartedCore
<1>2. QED
    BY <1>1, InvAlways, PTL

(* With one call at a time, a started instance has a running core, and all  *)
(* its features are of that core.                                           *)
THEOREM FeaturesAreOfRunningCore == Spec => []FeaturesOfRunningCore
<1>1. IInv => FeaturesOfRunningCore
    <2>1. SUFFICES ASSUME IInv, started, ApiIdle, ~overlap
                   PROVE  /\ field["core"] # 0 /\ coreState[field["core"]] = "running"
                          /\ FeaturesMatch
        BY DEF FeaturesOfRunningCore, FeaturesMatch
    <2>2. ~Clearing /\ \A t \in Threads : api[t].pc # "features"
        BY <2>1 DEF ApiIdle, Clearing
    <2>3. QED
        BY <2>1, <2>2 DEF IInv, CoreInv
<1>2. QED
    BY <1>1, InvAlways, PTL

(* With one call at a time, no core runs after Close, whatever was loaded and *)
(* started before it.                                                       *)
THEOREM CloseLeavesNoneRunning == Spec => []ClosedLeavesNoneRunning
<1>1. IInv => ClosedLeavesNoneRunning
    BY DEF IInv, CoreInv, ApiIdle, ClosedLeavesNoneRunning
<1>2. QED
    BY <1>1, InvAlways, PTL
=============================================================================
