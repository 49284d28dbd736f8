---------------------------- MODULE TcpNatProofs ----------------------------
(***************************************************************************)
(* Proofs about TcpNat, for any number of flows and ports, any timeout and *)
(* any length of run.  IInv is shown to be inductive, one step per action; *)
(* the theorems at the end follow from it.                                 *)
(***************************************************************************)
EXTENDS TcpNat, TLAPS

(* 0, which addrMap uses for "no entry", is no port; NextPort is one, and   *)
(* portIndex stays 0 or a port (tcpnat.go:114-120).                         *)
LEMMA PortFacts ==
    /\ 0 \notin Ports
    /\ portIndex \in Ports \cup {0} => NextPort \in Ports
    /\ portIndex \in Ports \cup {0} /\ AdvancePortIndex => portIndex' \in Ports \cup {0}
<1> USE PortAssumption DEF PortAssumption, Ports
<1>0. 0 \notin Ports
  OBVIOUS
<1>1. ASSUME portIndex \in Ports \cup {0} PROVE NextPort \in Ports
  <2>1. FirstPort \in Ports
    OBVIOUS
  <2> QED
    BY <1>1, <2>1 DEF NextPort
<1>2. ASSUME portIndex \in Ports \cup {0}, AdvancePortIndex PROVE portIndex' \in Ports \cup {0}
  <2>1. CASE portIndex = 0
    BY <1>2, <2>1 DEF AdvancePortIndex
  <2>2. CASE portIndex = PortSpace - 1
    <3>1. portIndex + 1 = PortSpace /\ PortSpace % PortSpace = 0
      BY <2>2
    <3> QED
      BY <1>2, <2>2, <3>1 DEF AdvancePortIndex
  <2>3. CASE portIndex \in FirstPort .. PortSpace - 2
    <3>1. (portIndex + 1) % PortSpace = portIndex + 1
      BY <2>3
    <3> QED
      BY <1>2, <2>3, <3>1 DEF AdvancePortIndex
  <2> QED
    BY <1>2, <2>1, <2>2, <2>3
<1> QED
  BY <1>0, <1>1, <1>2

(* What one packet changes in the kernel: nothing, or it gives a free port  *)
(* an owner.                                                                *)
LEMMA KernelReceiveStep ==
    ASSUME TypeOK, KernelOK, NEW f \in Flows, NEW p \in Ports, KernelReceive(f, p)
    PROVE  /\ kOwner' \in [Ports -> Flows \cup {NoFlow}]
           /\ kState' \in [Ports -> {"free", "backlog", "rst", "established"}]
           /\ foreign' \in BOOLEAN
           /\ KernelOK'
           /\ \A q \in Ports : kOwner'[q] = kOwner[q] \/ (q = p /\ kOwner'[q] = f)
<1>1. CASE kOwner[p] = NoFlow
  <2>1. kOwner' = [kOwner EXCEPT ![p] = f] /\ foreign' = foreign
    BY <1>1 DEF KernelReceive
  <2>2. PICK s \in {"backlog", "rst"} : kState' = [kState EXCEPT ![p] = s]
    BY <1>1 DEF KernelReceive
  <2> QED
    BY <2>1, <2>2, FlowAssumption DEF TypeOK, KernelOK, FlowAssumption
<1>2. CASE kOwner[p] # NoFlow
  BY <1>2 DEF KernelReceive, kernelVars, TypeOK, KernelOK
<1> QED
  BY <1>1, <1>2

(* What closing a socket changes in the kernel. *)
LEMMA KernelFreeStep ==
    ASSUME TypeOK, KernelOK, NEW p \in Ports, KernelFree(p)
    PROVE  /\ kOwner' \in [Ports -> Flows \cup {NoFlow}]
           /\ kState' \in [Ports -> {"free", "backlog", "rst", "established"}]
           /\ foreign' \in BOOLEAN
           /\ KernelOK'
           /\ \A q \in Ports : kOwner'[q] = kOwner[q] \/ kOwner'[q] = NoFlow
  BY DEF KernelFree, TypeOK, KernelOK

(* The second half of LookupInverse keeps lastActive within RefreshGap of   *)
(* the last lookup.                                                         *)
LEMMA RefreshStep ==
    ASSUME TypeOK, RefreshOK, TimesOK, NEW r \in Readers, rd[r].pc = "refresh", Refresh(r),
           UNCHANGED <<clock, sweeper>>
    PROVE  /\ lastActive' \in [Ports -> 0..MaxClock]
           /\ lastUse' \in [Ports -> 0..MaxClock]
           /\ TimesOK'
<1> DEFINE p == rd[r].port
<1>1. p \in Ports /\ clock \in 0..MaxClock
  BY DEF RefreshOK, TypeOK
<1>2. lastActive' \in [Ports -> 0..MaxClock] /\ lastUse' \in [Ports -> 0..MaxClock]
  BY <1>1 DEF Refresh, TypeOK
<1>3. ASSUME NEW q \in Ports PROVE lastUse'[q] - lastActive'[q] <= RefreshGap
  <2>1. lastActive[q] \in Int /\ lastUse[q] \in Int /\ clock \in Int /\ RefreshGap \in Nat
    BY TimeAssumption DEF TypeOK, TimeAssumption
  <2>2. lastUse[q] - lastActive[q] <= RefreshGap
    BY DEF TimesOK
  <2>3. CASE q # p
    BY <1>1, <2>2, <2>3 DEF Refresh, TypeOK
  <2>4. CASE q = p
    <3>1. CASE ~rd[r].live
      BY <2>2, <3>1 DEF Refresh
    <3>2. CASE rd[r].live /\ clock - lastActive[p] > RefreshGap
      BY <1>1, <2>1, <2>4, <3>2 DEF Refresh, TypeOK
    <3>3. CASE rd[r].live /\ ~(clock - lastActive[p] > RefreshGap)
      BY <1>1, <2>1, <2>4, <3>3 DEF Refresh, TypeOK
    <3> QED
      BY <3>1, <3>2, <3>3
  <2> QED
    BY <2>3, <2>4
<1>4. sweeper'.now <= clock'
  BY DEF TimesOK
<1> QED
  BY <1>2, <1>3, <1>4 DEF TimesOK

(* Dropping sessions only changes the readers' `live`. *)
LEMMA DetachStep ==
    ASSUME NEW readers \in [Readers -> ReaderStates], NEW S
    PROVE  /\ Detach(readers, S) \in [Readers -> ReaderStates]
           /\ \A r \in Readers :
                 /\ Detach(readers, S)[r].pc = readers[r].pc
                 /\ Detach(readers, S)[r].port = readers[r].port
                 /\ Detach(readers, S)[r].flow = readers[r].flow
                 /\ Detach(readers, S)[r].from = readers[r].from
  BY DEF Detach, ReaderStates

(* Idle is a state of a reader. *)
LEMMA IdleType == Idle \in ReaderStates
  BY DEF Idle, ReaderStates

-----------------------------------------------------------------------------
(* newTCPForwarder leaves the forwarder in a state that satisfies IInv. *)
LEMMA InitIInv == Init => IInv
<1> SUFFICES ASSUME Init PROVE IInv
  OBVIOUS
<1> USE DEF Init
<1>1. TypeOK
  <2>1. portIndex \in Ports
    BY PortAssumption DEF PortAssumption, Ports
  <2>2. clock \in 0..MaxClock /\ 0 \in 0..MaxClock /\ Timeout \in Nat
    BY TimeAssumption DEF TimeAssumption
  <2>3. rd \in [Readers -> ReaderStates]
    BY IdleType
  <2> QED
    BY <2>1, <2>2, <2>3 DEF TypeOK
<1>2. KernelOK /\ InsertOK /\ RefreshOK /\ OwnersAgree
  BY DEF KernelOK, InsertOK, RefreshOK, OwnersAgree, Readers, Idle
<1>3. SessionMapped /\ MapsAgree /\ RoutedToOwner
  BY DEF SessionMapped, MapsAgree, RoutedToOwner
<1>4. TimesOK
  BY TimeAssumption DEF TimesOK, TimeAssumption
<1> QED
  BY <1>1, <1>2, <1>3, <1>4 DEF IInv

(* LookupHit keeps IInv: without an overrun the socket it may open belongs  *)
(* to the flow of the port's session, by MapsAgree.                         *)
LEMMA LookupHitIInv ==
    ASSUME IInv, NEW f \in Flows, LookupHit(f)
    PROVE  IInv'
<1> USE DEF IInv
<1> DEFINE p == addrMap[f]
<1>1. p \in Ports
  BY DEF LookupHit, TypeOK
<1>2. UNCHANGED <<natVars, clock, rd, sweeper, listening, lastUse, routed, overrun>> /\ KernelReceive(f, p)
  BY DEF LookupHit
<1>3. TypeOK' /\ KernelOK'
  BY <1>1, <1>2, KernelReceiveStep DEF TypeOK, natVars
<1>4. rd["dev"].pc = "idle" /\ p # 0
  BY DEF LookupHit
<1>5. InsertOK' /\ RefreshOK' /\ SessionMapped' /\ MapsAgree' /\ RoutedToOwner' /\ TimesOK'
  BY <1>2, <1>4 DEF InsertOK, RefreshOK, SessionMapped, MapsAgree, Inserting, RoutedToOwner, TimesOK, natVars
<1>6. OwnersAgree'
  <2>1. ~overrun => sessFlow[p] = f
    BY <1>4 DEF MapsAgree, Inserting
  <2> QED
    BY <1>1, <1>2, <2>1, KernelReceiveStep DEF OwnersAgree, natVars
<1> QED
  BY <1>3, <1>5, <1>6

(* LookupAllocate keeps IInv: the flow is new, so no session has it, and    *)
(* without an overrun nobody refers to the port it takes.                   *)
LEMMA LookupAllocateIInv ==
    ASSUME IInv, NEW f \in Flows, LookupAllocate(f)
    PROVE  IInv'
<1> USE DEF IInv
<1> DEFINE p == NextPort
<1>1. p \in Ports /\ portIndex' \in Ports \cup {0} /\ 0 \notin Ports
  BY PortFacts DEF LookupAllocate, TypeOK
<1>2. /\ UNCHANGED <<sessFlow, lastActive, clock, sweeper, listening, kernelVars, lastUse, routed>>
      /\ addrMap[f] = 0 /\ rd["dev"].pc = "idle"
      /\ addrMap' = [addrMap EXCEPT ![f] = p]
      /\ overrun' = (overrun \/ InUse(p))
  BY DEF LookupAllocate
<1>3. rd' = [rd EXCEPT !["dev"] = [pc |-> "insert", port |-> p, flow |-> f, from |-> NoFlow, live |-> FALSE]]
  BY DEF LookupAllocate
<1>4. rd' \in [Readers -> ReaderStates]
  BY <1>1, <1>3 DEF TypeOK, ReaderStates, Readers
<1>5. TypeOK'
  BY <1>1, <1>2, <1>4 DEF TypeOK, kernelVars
<1>6. /\ rd'["dev"].pc = "insert" /\ rd'["dev"].port = p /\ rd'["dev"].flow = f
      /\ rd'["accept"] = rd["accept"]
  BY <1>3 DEF TypeOK, Readers
<1>7. KernelOK' /\ RoutedToOwner' /\ TimesOK' /\ OwnersAgree'
  BY <1>2 DEF KernelOK, RoutedToOwner, TimesOK, OwnersAgree, kernelVars
<1>8. RefreshOK'
  BY <1>2, <1>6 DEF RefreshOK, Readers
<1>9. \A q \in Ports : sessFlow[q] # f
  BY <1>1, <1>2, FlowAssumption DEF SessionMapped, FlowAssumption
<1>10. InsertOK'
  <2>1. ~overrun' => sessFlow[p] = NoFlow /\ kOwner[p] = NoFlow
    BY <1>1, <1>2 DEF InUse
  <2> QED
    BY <1>1, <1>2, <1>6, <1>9, <2>1 DEF InsertOK, kernelVars, TypeOK
<1>11. SessionMapped'
  BY <1>2, <1>9 DEF SessionMapped, TypeOK
<1>12. MapsAgree'
  BY <1>1, <1>2, <1>6 DEF MapsAgree, Inserting, TypeOK
<1> QED
  BY <1>5, <1>7, <1>8, <1>10, <1>11, <1>12

(* LookupInsert keeps IInv, by InsertOK. *)
LEMMA LookupInsertIInv ==
    ASSUME IInv, LookupInsert
    PROVE  IInv'
<1> USE DEF IInv
<1> DEFINE p == rd["dev"].port
           f == rd["dev"].flow
<1>1. p \in Ports /\ f \in Flows /\ addrMap[f] = p /\ 0 \notin Ports /\ rd["dev"].pc = "insert"
  BY PortFacts DEF LookupInsert, InsertOK
<1>2. /\ UNCHANGED <<addrMap, portIndex, clock, sweeper, listening, routed, overrun>>
      /\ sessFlow' = [sessFlow EXCEPT ![p] = f]
      /\ lastActive' = [lastActive EXCEPT ![p] = clock]
      /\ lastUse' = [lastUse EXCEPT ![p] = clock]
      /\ rd' = Detach([rd EXCEPT !["dev"] = Idle], {p})
      /\ KernelReceive(f, p)
  BY DEF LookupInsert
<1>3. [rd EXCEPT !["dev"] = Idle] \in [Readers -> ReaderStates]
  BY IdleType DEF TypeOK, Readers
<1>4. rd' \in [Readers -> ReaderStates]
  BY <1>2, <1>3, DetachStep
<1>5. /\ rd'["dev"].pc = "idle"
      /\ rd'["accept"].pc = rd["accept"].pc
      /\ rd'["accept"].port = rd["accept"].port
      /\ rd'["accept"].flow = rd["accept"].flow
      /\ rd'["accept"].from = rd["accept"].from
  BY <1>2, <1>3, DetachStep DEF TypeOK, Readers, Idle
<1>6. TypeOK' /\ KernelOK'
  BY <1>1, <1>2, <1>4, KernelReceiveStep DEF TypeOK
<1>7. InsertOK' /\ RefreshOK' /\ RoutedToOwner'
  BY <1>2, <1>5 DEF InsertOK, RefreshOK, RoutedToOwner, Readers
<1>8. SessionMapped'
  BY <1>1, <1>2 DEF SessionMapped, TypeOK
<1>9. MapsAgree'
  <2> SUFFICES ASSUME ~overrun, NEW g \in Flows, addrMap[g] # 0 PROVE sessFlow'[addrMap[g]] = g
    BY <1>2 DEF MapsAgree
  <2>1. addrMap[g] \in Ports
    BY DEF TypeOK
  <2>2. CASE g = f
    BY <1>1, <1>2, <2>2 DEF TypeOK
  <2>3. CASE g # f
    <3>1. sessFlow[addrMap[g]] = g
      BY <2>3 DEF MapsAgree, Inserting
    <3>2. sessFlow[p] = NoFlow
      BY <1>1 DEF InsertOK
    <3>3. addrMap[g] # p
      BY <3>1, <3>2, FlowAssumption DEF FlowAssumption
    <3> QED
      BY <1>2, <2>1, <3>1, <3>3 DEF TypeOK
  <2> QED
    BY <2>2, <2>3
<1>10. OwnersAgree'
  <2>1. ~overrun => kOwner[p] = NoFlow
    BY <1>1 DEF InsertOK
  <2>2. \A q \in Ports : kOwner'[q] = kOwner[q] \/ (q = p /\ kOwner'[q] = f)
    BY <1>1, <1>2, KernelReceiveStep
  <2> QED
    BY <1>1, <1>2, <2>1, <2>2 DEF OwnersAgree, TypeOK
<1>11. TimesOK'
  BY <1>1, <1>2, TimeAssumption DEF TimesOK, TypeOK, TimeAssumption
<1> QED
  BY <1>6, <1>7, <1>8, <1>9, <1>10, <1>11

(* Reading the session and refreshing it, for either reader: between the    *)
(* two steps the reader holds the flow that owned the socket.               *)
LEMMA ReadSessionStep ==
    ASSUME IInv, NEW r \in Readers, rd[r].pc = "idle", NEW p \in Ports,
           kState[p] # "free", sessFlow[p] # NoFlow, ReadSession(r, p),
           UNCHANGED <<natVars, overrun>>
    PROVE  /\ rd' \in [Readers -> ReaderStates] /\ RefreshOK' /\ MapsAgree'
           /\ \A q \in Readers : rd'[q].pc = "insert" => q # r /\ rd'[q] = rd[q]
<1> USE DEF IInv
<1>1. kOwner[p] \in Flows /\ sessFlow[p] \in Flows /\ (~overrun => kOwner[p] = sessFlow[p])
  BY DEF TypeOK, KernelOK, OwnersAgree
<1>2. rd' = [rd EXCEPT ![r] = [pc |-> "refresh", port |-> p, flow |-> sessFlow[p],
                               from |-> kOwner[p], live |-> TRUE]]
  BY DEF ReadSession
<1>3. rd' \in [Readers -> ReaderStates]
  BY <1>1, <1>2 DEF TypeOK, ReaderStates
<1>4. /\ rd'[r].pc = "refresh" /\ rd'[r].port = p /\ rd'[r].flow = sessFlow[p] /\ rd'[r].from = kOwner[p]
      /\ \A q \in Readers : q # r => rd'[q] = rd[q]
  BY <1>2 DEF TypeOK
<1>5. RefreshOK'
  BY <1>1, <1>4 DEF RefreshOK
<1>6. MapsAgree'
  BY <1>4 DEF MapsAgree, Inserting, natVars, Readers
<1> QED
  BY <1>3, <1>4, <1>5, <1>6

(* AnswerLookup and AcceptLookup keep IInv. *)
LEMMA LookupInverseIInv ==
    ASSUME IInv, NEW p \in Ports, AnswerLookup(p) \/ AcceptLookup(p)
    PROVE  IInv'
<1> USE DEF IInv
<1>1. PICK r \in Readers :
        /\ rd[r].pc = "idle" /\ kState[p] # "free" /\ sessFlow[p] # NoFlow /\ ReadSession(r, p)
        /\ UNCHANGED <<natVars, clock, sweeper, listening, lastUse, routed, overrun>>
  BY DEF AnswerLookup, AcceptLookup, Readers
<1>2. /\ kOwner' \in [Ports -> Flows \cup {NoFlow}]
      /\ kState' \in [Ports -> {"free", "backlog", "rst", "established"}]
      /\ foreign' \in BOOLEAN
      /\ KernelOK'
      /\ \A q \in Ports : kOwner'[q] = kOwner[q] \/ kOwner'[q] = NoFlow
  <2>1. CASE AcceptLookup(p)
    BY <2>1 DEF AcceptLookup, TypeOK, KernelOK
  <2>2. CASE AnswerLookup(p) /\ kState[p] = "rst"
    BY <2>2, KernelFreeStep DEF AnswerLookup
  <2>3. CASE AnswerLookup(p) /\ kState[p] # "rst"
    BY <2>3 DEF AnswerLookup, kernelVars, TypeOK, KernelOK
  <2> QED
    BY <2>1, <2>2, <2>3
<1>3. /\ rd' \in [Readers -> ReaderStates] /\ RefreshOK' /\ MapsAgree'
      /\ \A q \in Readers : rd'[q].pc = "insert" => q # r /\ rd'[q] = rd[q]
  BY <1>1, ReadSessionStep
<1>4. TypeOK'
  BY <1>1, <1>2, <1>3 DEF TypeOK, natVars
<1>5. InsertOK'
  BY <1>1, <1>2, <1>3 DEF InsertOK, natVars, Readers
<1>6. SessionMapped' /\ RoutedToOwner' /\ TimesOK' /\ OwnersAgree'
  BY <1>1, <1>2 DEF SessionMapped, RoutedToOwner, TimesOK, OwnersAgree, natVars
<1> QED
  BY <1>2, <1>3, <1>4, <1>5, <1>6

(* AnswerRewrite and AcceptDispatch keep IInv. *)
LEMMA RefreshIInv ==
    ASSUME IInv, AnswerRewrite \/ AcceptDispatch
    PROVE  IInv'
<1> USE DEF IInv
<1>1. PICK r \in Readers :
        /\ rd[r].pc = "refresh" /\ Refresh(r)
        /\ routed' = routed \cup {[flow |-> rd[r].flow, from |-> rd[r].from]}
        /\ rd' = [rd EXCEPT ![r] = Idle]
        /\ UNCHANGED <<addrMap, sessFlow, portIndex, clock, sweeper, listening, kernelVars, overrun>>
  BY DEF AnswerRewrite, AcceptDispatch, Readers
<1>2. rd[r].flow \in Flows /\ rd[r].from \in Flows /\ (~overrun => rd[r].flow = rd[r].from)
  BY <1>1 DEF RefreshOK
<1>3. /\ lastActive' \in [Ports -> 0..MaxClock] /\ lastUse' \in [Ports -> 0..MaxClock] /\ TimesOK'
  BY <1>1, RefreshStep
<1>4. rd' \in [Readers -> ReaderStates]
  BY <1>1, IdleType DEF TypeOK
<1>5. routed' \subseteq [flow : Flows, from : Flows]
  BY <1>1, <1>2 DEF TypeOK
<1>6. TypeOK'
  BY <1>1, <1>3, <1>4, <1>5 DEF TypeOK, kernelVars
<1>7. rd'[r].pc = "idle" /\ \A q \in Readers : q # r => rd'[q] = rd[q]
  BY <1>1 DEF TypeOK, Idle
<1>8. InsertOK' /\ MapsAgree'
  BY <1>1, <1>7 DEF InsertOK, MapsAgree, Inserting, Readers, kernelVars
<1>9. RefreshOK'
  BY <1>1, <1>7 DEF RefreshOK
<1>10. KernelOK' /\ SessionMapped' /\ OwnersAgree'
  BY <1>1 DEF KernelOK, SessionMapped, OwnersAgree, kernelVars
<1>11. RoutedToOwner'
  BY <1>1, <1>2 DEF RoutedToOwner
<1> QED
  BY <1>3, <1>6, <1>8, <1>9, <1>10, <1>11

(* Sweep keeps IInv: by SessionMapped the two deletes of checkTimeout hit   *)
(* the two halves of the same entry, and no other.                          *)
LEMMA SweepIInv ==
    ASSUME IInv, Sweep
    PROVE  IInv'
<1> USE DEF IInv
<1>1. /\ UNCHANGED <<lastActive, portIndex, clock, listening, kernelVars, lastUse, routed, overrun>>
      /\ addrMap' = [f \in Flows |-> IF \E p \in Ports : Expired(p) /\ sessFlow[p] = f THEN 0 ELSE addrMap[f]]
      /\ sessFlow' = [p \in Ports |-> IF Expired(p) THEN NoFlow ELSE sessFlow[p]]
      /\ rd' = Detach(rd, {p \in Ports : Expired(p)})
      /\ sweeper' = [sweeper EXCEPT !.pc = "select"]
  BY DEF Sweep
<1>2. /\ rd' \in [Readers -> ReaderStates]
      /\ \A r \in Readers : /\ rd'[r].pc = rd[r].pc /\ rd'[r].port = rd[r].port
                            /\ rd'[r].flow = rd[r].flow /\ rd'[r].from = rd[r].from
  BY <1>1, DetachStep DEF TypeOK
<1>3. /\ sweeper' \in [pc : {"select", "locked", "done"}, now : 0..MaxClock, next : Nat]
      /\ sweeper'.now = sweeper.now
  BY <1>1 DEF TypeOK
<1>4. addrMap' \in [Flows -> Ports \cup {0}] /\ sessFlow' \in [Ports -> Flows \cup {NoFlow}]
  BY <1>1 DEF TypeOK
<1>5. TypeOK'
  BY <1>1, <1>2, <1>3, <1>4 DEF TypeOK, kernelVars
<1>6. KernelOK' /\ RoutedToOwner' /\ TimesOK'
  BY <1>1, <1>3 DEF KernelOK, RoutedToOwner, TimesOK, kernelVars
<1>7. RefreshOK'
  BY <1>1, <1>2 DEF RefreshOK
<1>8. ASSUME NEW q \in Ports PROVE sessFlow'[q] = sessFlow[q] \/ sessFlow'[q] = NoFlow
  BY <1>1
<1>9. OwnersAgree'
  BY <1>1, <1>8 DEF OwnersAgree, kernelVars
<1>10. InsertOK'
  <2> SUFFICES ASSUME rd["dev"].pc = "insert" PROVE InsertOK'
    BY <1>2 DEF InsertOK, Readers
  <2>1. \A q \in Ports : sessFlow[q] # rd["dev"].flow
    BY DEF InsertOK
  <2>2. addrMap'[rd["dev"].flow] = addrMap[rd["dev"].flow]
    BY <1>1, <2>1 DEF InsertOK
  <2>3. \A q \in Ports : sessFlow'[q] # rd["dev"].flow
    BY <1>8, <2>1, FlowAssumption DEF InsertOK, FlowAssumption
  <2> QED
    BY <1>1, <1>2, <1>8, <2>2, <2>3 DEF InsertOK, Readers, kernelVars
<1>11. SessionMapped'
  <2> SUFFICES ASSUME NEW q \in Ports, sessFlow'[q] # NoFlow PROVE addrMap'[sessFlow'[q]] = q
    BY DEF SessionMapped
  <2>1. ~Expired(q) /\ sessFlow'[q] = sessFlow[q] /\ sessFlow[q] \in Flows
    BY <1>1 DEF TypeOK
  <2>2. addrMap[sessFlow[q]] = q
    BY <2>1 DEF SessionMapped
  <2>3. ~ \E p \in Ports : Expired(p) /\ sessFlow[p] = sessFlow[q]
    BY <2>1, <2>2, FlowAssumption DEF SessionMapped, FlowAssumption
  <2> QED
    BY <1>1, <2>1, <2>2, <2>3
<1>12. MapsAgree'
  <2> SUFFICES ASSUME ~overrun, NEW f \in Flows, addrMap'[f] # 0 PROVE sessFlow'[addrMap'[f]] = f \/ Inserting(f)'
    BY <1>1 DEF MapsAgree
  <2>1. addrMap'[f] = addrMap[f] /\ ~ \E p \in Ports : Expired(p) /\ sessFlow[p] = f
    BY <1>1
  <2>2. addrMap[f] \in Ports
    BY <2>1 DEF TypeOK
  <2>3. CASE Inserting(f)
    BY <1>2, <2>3 DEF Inserting, Readers
  <2>4. CASE sessFlow[addrMap[f]] = f
    BY <1>1, <2>1, <2>2, <2>4
  <2> QED
    BY <2>1, <2>3, <2>4 DEF MapsAgree
<1> QED
  BY <1>5, <1>6, <1>7, <1>9, <1>10, <1>11, <1>12

(* The steps that only close a socket keep IInv. *)
LEMMA SocketIInv ==
    ASSUME IInv, NEW p \in Ports, AnswerUnknown(p) \/ AcceptUnknown(p) \/ ConnectionEnd(p)
    PROVE  IInv'
<1> USE DEF IInv
<1>1. UNCHANGED <<natVars, clock, rd, sweeper, listening, lastUse, routed, overrun>>
  BY DEF AnswerUnknown, AcceptUnknown, ConnectionEnd
<1>2. /\ kOwner' \in [Ports -> Flows \cup {NoFlow}]
      /\ kState' \in [Ports -> {"free", "backlog", "rst", "established"}]
      /\ foreign' \in BOOLEAN
      /\ KernelOK'
      /\ \A q \in Ports : kOwner'[q] = kOwner[q] \/ kOwner'[q] = NoFlow
  <2>1. KernelFree(p) \/ UNCHANGED kernelVars
    BY DEF AnswerUnknown, AcceptUnknown, ConnectionEnd
  <2>2. CASE UNCHANGED kernelVars
    BY <2>2 DEF kernelVars, TypeOK, KernelOK
  <2> QED
    BY <2>1, <2>2, KernelFreeStep
<1>3. TypeOK'
  BY <1>1, <1>2 DEF TypeOK, natVars
<1>4. InsertOK' /\ RefreshOK' /\ SessionMapped' /\ MapsAgree' /\ RoutedToOwner' /\ TimesOK'
  BY <1>1, <1>2 DEF InsertOK, RefreshOK, SessionMapped, MapsAgree, Inserting, RoutedToOwner, TimesOK, natVars
<1>5. OwnersAgree'
  BY <1>1, <1>2 DEF OwnersAgree, natVars
<1> QED
  BY <1>2, <1>3, <1>4, <1>5

(* So do the steps that change neither the maps nor a socket's owner:       *)
(* foreign connections, Close, the end of the loops, the clock.             *)
LEMMA OtherIInv ==
    ASSUME IInv,
           \/ AcceptForeign \/ ForeignConnect \/ Close \/ AcceptLoopEnd
           \/ SweepStart \/ SweepEnd \/ Tick \/ UNCHANGED vars
    PROVE  IInv'
<1> USE DEF IInv
<1>1. UNCHANGED <<natVars, kOwner, lastUse, routed, overrun>>
  BY DEF AcceptForeign, ForeignConnect, Close, AcceptLoopEnd, SweepStart, SweepEnd, Tick, vars, kernelVars
<1>2. listening' \in BOOLEAN /\ foreign' \in BOOLEAN
  BY DEF TypeOK, AcceptForeign, ForeignConnect, Close, AcceptLoopEnd, SweepStart, SweepEnd, Tick, vars, kernelVars
<1>3. kState' \in [Ports -> {"free", "backlog", "rst", "established"}] /\ KernelOK'
  <2>1. CASE Close
    BY <2>1 DEF Close, TypeOK, KernelOK
  <2>2. CASE UNCHANGED <<kOwner, kState>>
    BY <2>2 DEF TypeOK, KernelOK
  <2> QED
    BY <2>1, <2>2 DEF AcceptForeign, ForeignConnect, AcceptLoopEnd, SweepStart, SweepEnd, Tick, vars, kernelVars
<1>4. /\ rd' \in [Readers -> ReaderStates] /\ rd'["dev"] = rd["dev"]
      /\ rd'["accept"] = rd["accept"] \/ rd'["accept"].pc = "done"
  <2>1. CASE AcceptLoopEnd
    BY <2>1 DEF AcceptLoopEnd, TypeOK, ReaderStates, Readers
  <2>2. CASE rd' = rd
    BY <2>2 DEF TypeOK
  <2> QED
    BY <2>1, <2>2 DEF AcceptForeign, ForeignConnect, Close, SweepStart, SweepEnd, Tick, vars
<1>5. /\ clock' \in 0..MaxClock
      /\ sweeper' \in [pc : {"select", "locked", "done"}, now : 0..MaxClock, next : Nat]
      /\ sweeper'.now <= clock'
  <2>1. CASE SweepStart
    <3>1. sweeper.next + Timeout \in Nat /\ clock \in 0..MaxClock
      BY TimeAssumption DEF TypeOK, TimeAssumption
    <3> QED
      BY <2>1, <3>1 DEF SweepStart
  <2>2. CASE SweepEnd
    BY <2>2 DEF SweepEnd, TypeOK, TimesOK
  <2>3. CASE Tick
    <3>1. clock \in 0..MaxClock /\ sweeper.now \in 0..MaxClock /\ sweeper.now <= clock
      BY DEF TypeOK, TimesOK
    <3>2. clock' = clock + 1 /\ clock < MaxClock /\ sweeper' = sweeper
      BY <2>3 DEF Tick
    <3>3. clock' \in 0..MaxClock /\ sweeper'.now <= clock'
      BY <3>1, <3>2, TimeAssumption DEF TimeAssumption
    <3> QED
      BY <3>2, <3>3 DEF TypeOK
  <2>4. CASE UNCHANGED <<clock, sweeper>>
    BY <2>4 DEF TypeOK, TimesOK
  <2> QED
    BY <2>1, <2>2, <2>3, <2>4 DEF AcceptForeign, ForeignConnect, Close, AcceptLoopEnd, vars
<1>6. TypeOK'
  BY <1>1, <1>2, <1>3, <1>4, <1>5 DEF TypeOK, natVars
<1>7. InsertOK' /\ RefreshOK' /\ MapsAgree'
  BY <1>1, <1>4 DEF InsertOK, RefreshOK, MapsAgree, Inserting, natVars, Readers
<1>8. SessionMapped' /\ RoutedToOwner' /\ OwnersAgree' /\ TimesOK'
  BY <1>1, <1>5 DEF SessionMapped, RoutedToOwner, OwnersAgree, TimesOK, natVars
<1> QED
  BY <1>3, <1>6, <1>7, <1>8

(* IInv is inductive. *)
LEMMA NextIInv == IInv /\ [Next]_vars => IInv'
<1> SUFFICES ASSUME IInv, [Next]_vars PROVE IInv'
  OBVIOUS
<1>1. ASSUME NEW f \in Flows, LookupHit(f) \/ LookupAllocate(f) PROVE IInv'
  BY <1>1, LookupHitIInv, LookupAllocateIInv
<1>2. CASE LookupInsert
  BY <1>2, LookupInsertIInv
<1>3. ASSUME NEW p \in Ports, AnswerLookup(p) \/ AcceptLookup(p) PROVE IInv'
  BY <1>3, LookupInverseIInv
<1>4. CASE AnswerRewrite \/ AcceptDispatch
  BY <1>4, RefreshIInv
<1>5. CASE Sweep
  BY <1>5, SweepIInv
<1>6. ASSUME NEW p \in Ports, AnswerUnknown(p) \/ AcceptUnknown(p) \/ ConnectionEnd(p) PROVE IInv'
  BY <1>6, SocketIInv
<1>7. CASE \/ AcceptForeign \/ ForeignConnect \/ Close \/ AcceptLoopEnd
           \/ SweepStart \/ SweepEnd \/ Tick \/ UNCHANGED vars
  BY <1>7, OtherIInv
<1> QED
  BY <1>1, <1>2, <1>3, <1>4, <1>5, <1>6, <1>7 DEF Next

(* IInv holds in every reachable state. *)
THEOREM Invariance == Spec => []IInv
  BY InitIInv, NextIInv, PTL DEF Spec

-----------------------------------------------------------------------------
(* Every variable of the NAT and of the kernel keeps its type; portIndex    *)
(* never enters the reserved range below 10000.                             *)
THEOREM TypeCorrect == Spec => []TypeOK
<1>1. IInv => TypeOK
  BY DEF IInv
<1> QED
  BY <1>1, Invariance, PTL

(* A session in portMap is the one addrMap gives for its flow, in every     *)
(* state, port reuse included: Lookup's two critical sections and           *)
(* checkTimeout's deletes cannot make two ports answer for a flow.          *)
THEOREM SessionsAreMapped == Spec => []SessionMapped
<1>1. IInv => SessionMapped
  BY DEF IInv
<1> QED
  BY <1>1, Invariance, PTL

(* The same for both maps: until a port in use is handed out again, a       *)
(* translated flow also has its session, so that no answer to it is         *)
(* dropped.                                                                 *)
THEOREM MapsAlwaysConsistent == Spec => []MapsConsistent
<1>1. IInv => MapsConsistent
  BY DEF IInv, MapsConsistent
<1> QED
  BY <1>1, Invariance, PTL

(* Until a port in use is handed out again, every connection and every      *)
(* answer is attributed to the flow that owns the socket.                   *)
THEOREM AlwaysRoutedToOwner == Spec => []RoutedToOwner
<1>1. IInv => RoutedToOwner
  BY DEF IInv
<1> QED
  BY <1>1, Invariance, PTL

(* checkTimeout never drops a session that was looked up less than the      *)
(* timeout, minus the refresh gap, ago.                                     *)
THEOREM OnlyIdleSwept == Spec => SweptWasIdle
<1>1. ASSUME IInv, [Next]_vars, NEW p \in Ports, sessFlow[p] # NoFlow, sessFlow'[p] = NoFlow
      PROVE  clock - lastUse[p] > Timeout - RefreshGap
  <2>1. sessFlow' # sessFlow
    BY <1>1
  <2>2. CASE LookupInsert
    <3>1. sessFlow' = [sessFlow EXCEPT ![rd["dev"].port] = rd["dev"].flow] /\ rd["dev"].flow \in Flows
      BY <1>1, <2>2 DEF LookupInsert, IInv, InsertOK
    <3> QED
      BY <1>1, <3>1, FlowAssumption DEF IInv, TypeOK, FlowAssumption
  <2>3. CASE Sweep
    <3>1. Expired(p)
      BY <1>1, <2>3 DEF Sweep
    <3>2. /\ clock \in Int /\ sweeper.now \in Int /\ lastActive[p] \in Int /\ lastUse[p] \in Int
          /\ Timeout \in Int /\ RefreshGap \in Int
      BY <1>1, TimeAssumption DEF IInv, TypeOK, TimeAssumption
    <3>3. sweeper.now <= clock /\ lastUse[p] - lastActive[p] <= RefreshGap
      BY <1>1 DEF IInv, TimesOK
    <3> QED
      BY <3>1, <3>2, <3>3 DEF Expired
  <2>4. LookupInsert \/ Sweep
    BY <1>1, <2>1
    DEF Next, LookupHit, LookupAllocate, AnswerUnknown, AnswerLookup, AnswerRewrite, AcceptForeign,
        AcceptUnknown, AcceptLookup, AcceptDispatch, AcceptLoopEnd, Close, SweepStart, SweepEnd, Tick,
        ConnectionEnd, ForeignConnect, natVars, vars
  <2> QED
    BY <2>2, <2>3, <2>4
<1>2. IInv /\ [Next]_vars =>
        [\A p \in Ports : sessFlow[p] # NoFlow /\ sessFlow'[p] = NoFlow
            => clock - lastUse[p] > Timeout - RefreshGap]_vars
  BY <1>1
<1> QED
  BY <1>2, Invariance, PTL DEF Spec, SweptWasIdle
=============================================================================
