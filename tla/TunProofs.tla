------------------------------- MODULE TunProofs -------------------------------
(***************************************************************************)
(* Proofs about a tun, in two halves.                                      *)
(*                                                                         *)
(* TunLifecycle, and with it TcpRelay, for any number of tuns and          *)
(* connections: the types, that a connection that has ended left nothing   *)
(* open, that a tun which NewTun2ray returned blocks what it is to block,  *)
(* and that its outbounds are kept out of it.                              *)
(*                                                                         *)
(* The inductive invariant IInv follows a connection through NewConnection *)
(* (OpenInv) and a tun through NewTun2ray (FieldsInv); relates the two for *)
(* connections accepted by a tun that was returned (CheckedInv); says what *)
(* a crash comes from (CrashInv); and, as long as one tun at a time uses   *)
(* the dialer of the process, whose dialer that is (DialerInv).            *)
(*                                                                         *)
(* TunDevices, for any addresses, buffers, requests and flags: the types,  *)
(* the system tun's buffer, that both implementations treat packets alike, *)
(* and that gvisor's dispatch does not call a nil dispatcher.  DeviceInv   *)
(* adds to these where answers go (HeaderInv) and what the dispatch        *)
(* goroutine knows of its packet at each place (PassedInv).                *)
(***************************************************************************)
EXTENDS TunLifecycle, TunDevices, FiniteSetTheorems, TLAPS

(* Where the two connections of a relay are, and its cancel. *)
OpenInv ==
    \A r \in Relays :
        /\ pc[r] \in {"none", "start", "uid", "stats", "register", "dial"} => proxyConn[r] = "none"
        /\ r \in connections => pc[r] \in {"dial", "run", "remove"} \/ (pc[r] = "done" /\ r \in failedDial)
        /\ pc[r] \in {"closeProxy", "done"} => conn[r] = "closed"
        /\ pc[r] = "done" => proxyConn[r] # "open"

Built == {"up", "closeDevice", "cancel", "closed"}

(* What the steps of NewTun2ray so far have set. *)
FieldsInv ==
    /\ blockedUIDs \subseteq blockList
    /\ \A t \in Tuns :
          /\ new[t] \in Built \cup {"dialer"} /\ t \in blockList => t \in blockedUIDs
          /\ new[t] \in Built \cup {"dialer", "block"} /\ NeedsDumper(t) => t \in uidDumper

(* A connection that came in when its tun was complete meets all its fields. *)
CheckedInv ==
    \A r \in Relays :
        /\ pc[r] = "none" => class[r] = "plain"
        /\ r \notin early /\ pc[r] # "none" =>
              /\ new[tun[r]] \in Built
              /\ class[r] = "blocked" /\ tun[r] \in blockList =>
                    pc[r] \in {"start", "uid", "done"} /\ proxyConn[r] = "none"

CrashInv == crashed => \E r \in early : pc[r] = "uid" /\ tun[r] \notin uidDumper

DialerInv ==
    ~shared =>
        /\ \A t, u \in Tuns : InUse(t) /\ InUse(u) => t = u
        /\ \A t \in Tuns : new[t] = "up" => systemDialer = TunDialer(t)
        /\ exposed = {}

IInv == TypeOK /\ OpenInv /\ FieldsInv /\ CheckedInv /\ CrashInv /\ DialerInv

-----------------------------------------------------------------------------
(* Types.                                                                   *)

PlaceType ==
    /\ pc \in [Relays -> RelayPlaces] /\ class \in [Relays -> Classes] /\ tun \in [Relays -> Tuns]
    /\ connections \cup cancelled \cup failedDial \cup early \cup exposed \subseteq Relays
    /\ crashed \in BOOLEAN

ConnType ==
    /\ conn \in [Relays -> {"none", "open", "closed"}] /\ proxyConn \in [Relays -> {"none", "open", "closed"}]
    /\ ended \in [Relays -> [Directions -> BOOLEAN]]
    /\ copy \in [Relays -> [Directions -> {"none", "running", "ended"}]]

TunType ==
    /\ dumpUID \cup uidDumper \cup blockedUIDs \cup blockList \subseteq Tuns
    /\ device \in [Tuns -> {"none", "open", "closed"}]
    /\ systemDialer \in {NoDialer, SystemDialer} \cup {TunDialer(t) : t \in Tuns}
    /\ new \in [Tuns -> TunPlaces]
    /\ shared \in BOOLEAN

LEMMA TypeSplit == TypeOK <=> PlaceType /\ ConnType /\ TunType
BY DEF TypeOK, PlaceType, ConnType, TunType

LEMMA PlaceTypeInductive ==
    ASSUME TypeOK, [Next]_vars
    PROVE  PlaceType'
<1>0. PlaceType /\ TunType
    BY TypeSplit
<1>1. CASE UNCHANGED <<pc, class, tun, connections, cancelled, failedDial, early, exposed, crashed>>
    BY <1>0, <1>1 DEF PlaceType
<1>2. ASSUME NEW r \in Relays, NEW t \in Tuns, NEW cl \in Classes, NEW isUp, Accepted(r, t, cl, isUp)
      PROVE  PlaceType'
    BY <1>0, <1>2 DEF Accepted, Goto, PlaceType, RelayPlaces
<1>3. ASSUME NEW r \in Relays, NewConnection(r) \/ CountStats(r)
      PROVE  PlaceType'
    <2>1. pc' \in [Relays -> RelayPlaces]
        BY <1>0, <1>3
           DEF NewConnection, RejectDns, SkipUID, DumpUid, Reject, Pass, CountStats, Register, DialFails, Dial,
               RunReturns, Remove, CloseConn, CloseProxy, Goto, PlaceType, RelayPlaces
    <2>2. UNCHANGED <<class, tun, cancelled, early, exposed>>
        BY <1>3
           DEF NewConnection, RejectDns, SkipUID, DumpUid, Reject, Pass, CountStats, Register, DialFails, Dial,
               RunReturns, Remove, CloseConn, CloseProxy, restVars
    <2>3. connections' \subseteq Relays /\ failedDial' \subseteq Relays
        BY <1>0, <1>3
           DEF NewConnection, RejectDns, SkipUID, DumpUid, Reject, Pass, CountStats, Register, DialFails, Dial,
               RunReturns, Remove, CloseConn, CloseProxy, PlaceType
    <2>4. crashed' \in BOOLEAN
        <3>1. CASE DumpUid(r)
            BY <3>1 DEF DumpUid
        <3>2. CASE ~DumpUid(r)
            BY <1>0, <1>3, <3>2
               DEF NewConnection, RejectDns, SkipUID, Reject, Pass, CountStats, Register, DialFails, Dial,
                   RunReturns, Remove, CloseConn, CloseProxy, PlaceType
        <3>3. QED
            BY <3>1, <3>2
    <2>5. QED
        BY <1>0, <2>1, <2>2, <2>3, <2>4 DEF PlaceType
<1>4. ASSUME NEW r \in Relays, NEW isUp, OutboundDials(r, isUp)
      PROVE  PlaceType'
    BY <1>0, <1>4 DEF OutboundDials, PlaceType
<1>5. ASSUME NEW t \in Tuns, CloseCancel(t)
      PROVE  PlaceType'
    BY <1>0, <1>5 DEF CloseCancel, restVars, PlaceType
<1>6. ASSUME NEW t \in Tuns, NEW config \in Configs[t], NewTun2ray(t, config)
      PROVE  UNCHANGED <<pc, class, tun, connections, cancelled, failedDial, early, exposed, crashed>>
    BY <1>6 DEF NewTun2ray, relayVars
<1>7. ASSUME NEW t \in Tuns, TunStep(t) \/ Close(t), ~CloseCancel(t)
      PROVE  UNCHANGED <<pc, class, tun, connections, cancelled, failedDial, early, exposed, crashed>>
    BY <1>7 DEF TunStep, NewDevice, NewDeviceFails, NewDumper, NewDumperFails, NewBlockedUIDs, NewDialer, Close,
                CloseDevice, relayVars
<1>8. ASSUME NEW r \in Relays, NEW d \in Directions, CopyEnds(r, d) \/ SenderEnds(r, d)
      PROVE  UNCHANGED <<pc, class, tun, connections, cancelled, failedDial, early, exposed, crashed>>
    BY <1>8 DEF CopyEnds, SenderEnds, restVars
<1>9. CASE OtherDialer
    BY <1>1, <1>9 DEF OtherDialer, relayVars
<1>10. QED
    BY <1>1, <1>2, <1>3, <1>4, <1>5, <1>6, <1>7, <1>8, <1>9 DEF Next, RelayNext, vars, relayVars

LEMMA ConnTypeInductive ==
    ASSUME TypeOK, [Next]_vars
    PROVE  ConnType'
<1>0. ConnType
    BY TypeSplit
<1>1. CASE UNCHANGED connVars
    BY <1>0, <1>1 DEF ConnType, connVars
<1>2. ASSUME NEW r \in Relays, NEW t \in Tuns, NEW cl \in Classes, NEW isUp, Accepted(r, t, cl, isUp)
      PROVE  ConnType'
    BY <1>0, <1>2 DEF Accepted, ConnType
<1>3. ASSUME NEW r \in Relays, RejectDns(r) \/ Reject(r) \/ DialFails(r) \/ CloseConn(r) \/ CloseProxy(r)
      PROVE  ConnType'
    BY <1>0, <1>3 DEF RejectDns, Reject, DialFails, CloseConn, CloseProxy, ConnType
<1>4. ASSUME NEW r \in Relays, Dial(r)
      PROVE  ConnType'
    <2>1. [d \in Directions |-> "running"] \in [Directions -> {"none", "running", "ended"}]
        OBVIOUS
    <2>2. copy' \in [Relays -> [Directions -> {"none", "running", "ended"}]]
        BY <1>0, <1>4, <2>1 DEF Dial, ConnType
    <2>3. QED
        BY <1>0, <1>4, <2>2 DEF Dial, ConnType
<1>5. ASSUME NEW r \in Relays, NEW d \in Directions, CopyEnds(r, d)
      PROVE  ConnType'
    <2>1. copy' \in [Relays -> [Directions -> {"none", "running", "ended"}]]
        BY <1>0, <1>5 DEF CopyEnds, ConnType
    <2>2. QED
        BY <1>0, <1>5, <2>1 DEF CopyEnds, ConnType
<1>6. ASSUME NEW r \in Relays, NEW d \in Directions, SenderEnds(r, d)
      PROVE  ConnType'
    <2>1. ended' \in [Relays -> [Directions -> BOOLEAN]]
        BY <1>0, <1>6 DEF SenderEnds, ConnType
    <2>2. QED
        BY <1>0, <1>6, <2>1 DEF SenderEnds, ConnType
<1>7. ASSUME NEW r \in Relays,
             SkipUID(r) \/ DumpUid(r) \/ Pass(r) \/ CountStats(r) \/ Register(r) \/ RunReturns(r) \/ Remove(r)
      PROVE  UNCHANGED connVars
    BY <1>7 DEF SkipUID, DumpUid, Pass, CountStats, Register, RunReturns, Remove
<1>8. ASSUME NEW r \in Relays, NEW isUp, OutboundDials(r, isUp)
      PROVE  UNCHANGED connVars
    BY <1>8 DEF OutboundDials
<1>9. ASSUME NEW t \in Tuns, NEW config \in Configs[t], NewTun2ray(t, config)
      PROVE  UNCHANGED connVars
    BY <1>9 DEF NewTun2ray, relayVars
<1>10. ASSUME NEW t \in Tuns, TunStep(t) \/ Close(t)
       PROVE  UNCHANGED connVars
    BY <1>10 DEF TunStep, NewDevice, NewDeviceFails, NewDumper, NewDumperFails, NewBlockedUIDs, NewDialer, Close,
                 CloseDevice, CloseCancel, relayVars
<1>11. CASE OtherDialer
    BY <1>1, <1>11 DEF OtherDialer, relayVars
<1>12. QED
    BY <1>1, <1>2, <1>3, <1>4, <1>5, <1>6, <1>7, <1>8, <1>9, <1>10, <1>11
       DEF Next, RelayNext, NewConnection, vars, relayVars

LEMMA RelaysKeepTuns ==
    ASSUME \/ \E r \in Relays : NewConnection(r) \/ CountStats(r)
           \/ \E r \in Relays, d \in Directions : CopyEnds(r, d) \/ SenderEnds(r, d)
           \/ \E r \in Relays, t \in Tuns, cl \in Classes : Accepted(r, t, cl, new[t] = "up")
           \/ \E r \in Relays : OutboundDials(r, new[tun[r]] = "up")
    PROVE  UNCHANGED fieldVars
<1>1. ASSUME NEW r \in Relays, NewConnection(r) \/ CountStats(r)
      PROVE  UNCHANGED fieldVars
    BY <1>1 DEF NewConnection, RejectDns, SkipUID, DumpUid, Reject, Pass, CountStats, Register, DialFails, Dial,
               RunReturns, Remove, CloseConn, CloseProxy, restVars
<1>2. ASSUME NEW r \in Relays, NEW d \in Directions, CopyEnds(r, d) \/ SenderEnds(r, d)
      PROVE  UNCHANGED fieldVars
    BY <1>2 DEF CopyEnds, SenderEnds, restVars
<1>3. QED
    BY <1>1, <1>2 DEF Accepted, OutboundDials

LEMMA TunTypeInductive ==
    ASSUME TypeOK, [Next]_vars
    PROVE  TunType'
<1>0. TunType
    BY TypeSplit
<1>1. CASE UNCHANGED <<fieldVars, tunVars>>
    BY <1>0, <1>1 DEF TunType, fieldVars, tunVars
<1>2. ASSUME NEW t \in Tuns, NEW config \in Configs[t], NewTun2ray(t, config)
      PROVE  TunType'
    BY <1>0, <1>2 DEF NewTun2ray, Step, TunType, TunPlaces
<1>3. ASSUME NEW t \in Tuns, NewDevice(t) \/ NewDeviceFails(t) \/ NewDumper(t) \/ NewDumperFails(t) \/ NewBlockedUIDs(t)
      PROVE  TunType'
    BY <1>0, <1>3 DEF NewDevice, NewDeviceFails, NewDumper, NewDumperFails, NewBlockedUIDs, Step, fieldVars,
                      TunType, TunPlaces
<1>4. ASSUME NEW t \in Tuns, NewDialer(t) \/ Close(t) \/ CloseDevice(t)
      PROVE  TunType'
    BY <1>0, <1>4 DEF NewDialer, Close, CloseDevice, Step, TunType, TunPlaces
<1>5. ASSUME NEW t \in Tuns, CloseCancel(t)
      PROVE  TunType'
    BY <1>0, <1>5 DEF CloseCancel, Step, restVars, fieldVars, TunType, TunPlaces
<1>6. CASE OtherDialer
    BY <1>0, <1>6 DEF OtherDialer, TunType
<1>7. QED
    BY <1>1, <1>2, <1>3, <1>4, <1>5, <1>6, RelaysKeepTuns
       DEF Next, RelayNext, TunStep, vars

LEMMA TypeInductive ==
    ASSUME TypeOK, [Next]_vars
    PROVE  TypeOK'
<1>1. PlaceType' /\ ConnType' /\ TunType'
    BY PlaceTypeInductive, ConnTypeInductive, TunTypeInductive
<1>2. QED
    BY <1>1 DEF TypeOK, PlaceType, ConnType, TunType

-----------------------------------------------------------------------------
(* A connection.                                                            *)

Open(r) ==
    /\ pc[r] \in {"none", "start", "uid", "stats", "register", "dial"} => proxyConn[r] = "none"
    /\ r \in connections => pc[r] \in {"dial", "run", "remove"} \/ (pc[r] = "done" /\ r \in failedDial)
    /\ pc[r] \in {"closeProxy", "done"} => conn[r] = "closed"
    /\ pc[r] = "done" => proxyConn[r] # "open"

LEMMA OpenInductive ==
    ASSUME TypeOK, OpenInv, [Next]_vars
    PROVE  OpenInv'
<1>0. PlaceType /\ ConnType
    BY TypeSplit
<1>1. SUFFICES ASSUME NEW q \in Relays PROVE Open(q)'
    BY DEF OpenInv, Open
<1>2. Open(q)
    BY DEF OpenInv, Open
<1>3. CASE UNCHANGED <<pc, conn, proxyConn, connections, failedDial>>
    BY <1>2, <1>3 DEF Open
<1>4. ASSUME NEW r \in Relays, NEW t \in Tuns, NEW cl \in Classes, NEW isUp, Accepted(r, t, cl, isUp)
      PROVE  Open(q)'
    BY <1>0, <1>2, <1>4 DEF Accepted, Goto, Open, PlaceType, ConnType
<1>5. ASSUME NEW r \in Relays, RejectDns(r) \/ Reject(r) \/ DialFails(r)
      PROVE  Open(q)'
    BY <1>0, <1>2, <1>5 DEF RejectDns, Reject, DialFails, Goto, Open, PlaceType, ConnType
<1>6. ASSUME NEW r \in Relays,
             SkipUID(r) \/ DumpUid(r) \/ Pass(r) \/ CountStats(r) \/ Register(r) \/ RunReturns(r) \/ Remove(r)
      PROVE  Open(q)'
    <2>1. UNCHANGED <<conn, proxyConn, failedDial>>
        BY <1>6 DEF SkipUID, DumpUid, Pass, CountStats, Register, RunReturns, Remove, connVars
    <2>2. CASE q # r
        <3>1. pc'[q] = pc[q] /\ (q \in connections' <=> q \in connections)
            BY <1>0, <1>6, <2>2
               DEF SkipUID, DumpUid, Pass, CountStats, Register, RunReturns, Remove, Goto, PlaceType
        <3>2. QED
            BY <1>2, <2>1, <3>1 DEF Open
    <2>3. CASE q = r
        <3>1. CASE SkipUID(r) \/ DumpUid(r) \/ Pass(r) \/ CountStats(r)
            BY <1>0, <1>2, <2>1, <2>3, <3>1 DEF SkipUID, DumpUid, Pass, CountStats, Goto, Open, PlaceType
        <3>2. CASE Register(r)
            BY <1>0, <1>2, <2>1, <2>3, <3>2 DEF Register, Goto, Open, PlaceType
        <3>3. CASE RunReturns(r)
            BY <1>0, <1>2, <2>1, <2>3, <3>3 DEF RunReturns, Goto, Open, PlaceType
        <3>4. CASE Remove(r)
            BY <1>0, <1>2, <2>1, <2>3, <3>4 DEF Remove, Goto, Open, PlaceType
        <3>5. QED
            BY <1>6, <3>1, <3>2, <3>3, <3>4
    <2>4. QED
        BY <2>2, <2>3
<1>7. ASSUME NEW r \in Relays, Dial(r) \/ CloseConn(r) \/ CloseProxy(r)
      PROVE  Open(q)'
    <2>1. CASE Dial(r)
        BY <1>0, <1>2, <2>1 DEF Dial, Goto, Open, PlaceType, ConnType
    <2>2. CASE CloseConn(r)
        BY <1>0, <1>2, <2>2 DEF CloseConn, Goto, Open, PlaceType, ConnType
    <2>3. CASE CloseProxy(r)
        BY <1>0, <1>2, <2>3 DEF CloseProxy, Goto, Open, PlaceType, ConnType
    <2>4. QED
        BY <1>7, <2>1, <2>2, <2>3
<1>8. ASSUME NEW r \in Relays, NEW d \in Directions, CopyEnds(r, d) \/ SenderEnds(r, d)
      PROVE  UNCHANGED <<pc, conn, proxyConn, connections, failedDial>>
    BY <1>8 DEF CopyEnds, SenderEnds
<1>9. ASSUME NEW r \in Relays, NEW isUp, OutboundDials(r, isUp)
      PROVE  UNCHANGED <<pc, conn, proxyConn, connections, failedDial>>
    BY <1>9 DEF OutboundDials, connVars
<1>10. ASSUME NEW t \in Tuns, NEW config \in Configs[t], NewTun2ray(t, config)
       PROVE  UNCHANGED <<pc, conn, proxyConn, connections, failedDial>>
    BY <1>10 DEF NewTun2ray, relayVars, connVars
<1>11. ASSUME NEW t \in Tuns, TunStep(t) \/ Close(t)
       PROVE  UNCHANGED <<pc, conn, proxyConn, connections, failedDial>>
    BY <1>11 DEF TunStep, NewDevice, NewDeviceFails, NewDumper, NewDumperFails, NewBlockedUIDs, NewDialer, Close,
                 CloseDevice, CloseCancel, relayVars, connVars
<1>12. CASE OtherDialer
    BY <1>3, <1>12 DEF OtherDialer, relayVars, connVars
<1>13. QED
    BY <1>3, <1>4, <1>5, <1>6, <1>7, <1>8, <1>9, <1>10, <1>11, <1>12
       DEF Next, RelayNext, NewConnection, vars, relayVars, connVars

-----------------------------------------------------------------------------
(* A tun.                                                                   *)

Fields(t) ==
    /\ new[t] \in Built \cup {"dialer"} /\ t \in blockList => t \in blockedUIDs
    /\ new[t] \in Built \cup {"dialer", "block"} /\ NeedsDumper(t) => t \in uidDumper

LEMMA FieldsInductive ==
    ASSUME TypeOK, FieldsInv, [Next]_vars
    PROVE  FieldsInv'
<1>0. TunType
    BY TypeSplit
<1>1. \A t \in Tuns : Fields(t)
    BY DEF FieldsInv, Fields
<1>2. blockedUIDs \subseteq blockList
    BY DEF FieldsInv
<1>3. SUFFICES blockedUIDs' \subseteq blockList' /\ \A t \in Tuns : Fields(t)'
    BY DEF FieldsInv, Fields
<1>4. CASE UNCHANGED <<fieldVars, tunVars>>
    BY <1>1, <1>2, <1>4 DEF Fields, NeedsDumper, fieldVars, tunVars
<1>5. ASSUME NEW t \in Tuns, NEW config \in Configs[t], NewTun2ray(t, config)
      PROVE  blockedUIDs' \subseteq blockList' /\ \A u \in Tuns : Fields(u)'
    <2>1. blockedUIDs' \subseteq blockList'
        BY <1>2, <1>5 DEF NewTun2ray
    <2>2. new'[t] = "device" /\ \A u \in Tuns : u # t => new'[u] = new[u]
        BY <1>0, <1>5 DEF NewTun2ray, Step, TunType
    <2>3. UNCHANGED <<uidDumper, blockedUIDs>>
        BY <1>5 DEF NewTun2ray
    <2>4. \A u \in Tuns : u # t => (u \in dumpUID' <=> u \in dumpUID) /\ (u \in blockList' <=> u \in blockList)
        BY <1>5 DEF NewTun2ray
    <2>5. ASSUME NEW u \in Tuns PROVE Fields(u)'
        <3>1. CASE u = t
            BY <2>2, <3>1 DEF Fields, Built
        <3>2. CASE u # t
            BY <1>1, <2>2, <2>3, <2>4, <3>2 DEF Fields, NeedsDumper
        <3>3. QED
            BY <3>1, <3>2
    <2>6. QED
        BY <2>1, <2>5
<1>6. ASSUME NEW t \in Tuns, TunStep(t) \/ Close(t)
      PROVE  blockedUIDs' \subseteq blockList' /\ \A u \in Tuns : Fields(u)'
    <2>1. UNCHANGED <<dumpUID, blockList>>
        BY <1>6 DEF TunStep, NewDevice, NewDeviceFails, NewDumper, NewDumperFails, NewBlockedUIDs, NewDialer, Close,
                    CloseDevice, CloseCancel, restVars, fieldVars
    <2>2. \A u \in Tuns : u # t => /\ new'[u] = new[u]
                                   /\ u \in uidDumper' <=> u \in uidDumper
                                   /\ u \in blockedUIDs' <=> u \in blockedUIDs
        BY <1>0, <1>6
           DEF TunStep, NewDevice, NewDeviceFails, NewDumper, NewDumperFails, NewBlockedUIDs, NewDialer, Close,
               CloseDevice, CloseCancel, Step, restVars, fieldVars, TunType
    <2>3. \A u \in Tuns : u # t => Fields(u)'
        BY <1>1, <2>1, <2>2 DEF Fields, NeedsDumper
    <2>4. Fields(t)
        BY <1>1
    <2>5. CASE NewDumper(t)
        <3>1. Fields(t)'
            BY <1>0, <2>1, <2>5 DEF NewDumper, Step, Fields, NeedsDumper, Built, TunType
        <3>2. QED
            BY <1>2, <2>3, <2>5, <3>1 DEF NewDumper
    <2>6. CASE NewBlockedUIDs(t)
        <3>1. Fields(t)'
            BY <1>0, <2>1, <2>4, <2>6 DEF NewBlockedUIDs, Step, Fields, NeedsDumper, Built, TunType
        <3>2. blockedUIDs' \subseteq blockList'
            BY <1>2, <2>1, <2>6 DEF NewBlockedUIDs
        <3>3. QED
            BY <2>3, <3>1, <3>2
    <2>7. CASE NewDevice(t) \/ NewDeviceFails(t) \/ NewDumperFails(t)
        <3>1. Fields(t)' /\ UNCHANGED blockedUIDs
            BY <1>0, <2>7 DEF NewDevice, NewDeviceFails, NewDumperFails, Step, Fields, Built, TunType, fieldVars
        <3>2. QED
            BY <1>2, <2>1, <2>3, <3>1
    <2>8. CASE NewDialer(t) \/ Close(t) \/ CloseDevice(t) \/ CloseCancel(t)
        <3>1. /\ UNCHANGED <<uidDumper, blockedUIDs>> /\ new[t] \in Built \cup {"dialer"}
            BY <2>8 DEF NewDialer, Close, CloseDevice, CloseCancel, Step, restVars, fieldVars, Built
        <3>2. Fields(t)'
            BY <2>1, <2>4, <3>1 DEF Fields, NeedsDumper
        <3>3. QED
            BY <1>2, <2>1, <2>3, <3>1, <3>2
    <2>9. QED
        BY <1>6, <2>5, <2>6, <2>7, <2>8 DEF TunStep
<1>7. CASE OtherDialer
    <2>1. UNCHANGED <<dumpUID, uidDumper, blockedUIDs, new, blockList>>
        BY <1>7 DEF OtherDialer
    <2>2. QED
        BY <1>1, <1>2, <2>1 DEF Fields, NeedsDumper
<1>8. QED
    BY <1>4, <1>5, <1>6, <1>7, RelaysKeepTuns DEF Next, RelayNext, vars

-----------------------------------------------------------------------------
(* A connection and its tun.                                                *)

Checked(r) ==
    /\ pc[r] = "none" => class[r] = "plain"
    /\ r \notin early /\ pc[r] # "none" =>
          /\ new[tun[r]] \in Built
          /\ class[r] = "blocked" /\ tun[r] \in blockList =>
                pc[r] \in {"start", "uid", "done"} /\ proxyConn[r] = "none"

(* What NewTun2ray and Close do to a tun that is built. *)
LEMMA BuiltStays ==
    ASSUME TypeOK, NEW t \in Tuns, new[t] \in Built,
           \/ \E u \in Tuns : \E config \in Configs[u] : NewTun2ray(u, config)
           \/ \E u \in Tuns : TunStep(u) \/ Close(u)
           \/ OtherDialer
    PROVE  new'[t] \in Built /\ (t \in blockList' <=> t \in blockList)
<1>0. TunType
    BY TypeSplit
<1>1. ASSUME NEW u \in Tuns, NEW config \in Configs[u], NewTun2ray(u, config)
      PROVE  new'[t] \in Built /\ (t \in blockList' <=> t \in blockList)
    BY <1>0, <1>1 DEF NewTun2ray, Step, TunType, Built
<1>2. ASSUME NEW u \in Tuns, TunStep(u) \/ Close(u)
      PROVE  new'[t] \in Built /\ (t \in blockList' <=> t \in blockList)
    <2>1. UNCHANGED blockList
        BY <1>2 DEF TunStep, NewDevice, NewDeviceFails, NewDumper, NewDumperFails, NewBlockedUIDs, NewDialer, Close,
                    CloseDevice, CloseCancel
    <2>2. new'[t] \in Built
        BY <1>0, <1>2
           DEF TunStep, NewDevice, NewDeviceFails, NewDumper, NewDumperFails, NewBlockedUIDs, NewDialer, Close,
               CloseDevice, CloseCancel, Step, TunType, Built
    <2>3. QED
        BY <2>1, <2>2
<1>3. CASE OtherDialer
    BY <1>3 DEF OtherDialer
<1>4. QED
    BY <1>1, <1>2, <1>3

(* The next step of a connection that is to be blocked. *)
LEMMA BlockedStep ==
    ASSUME TypeOK, OpenInv, FieldsInv, CheckedInv, NEW r \in Relays, NewConnection(r) \/ CountStats(r), r \notin early
    PROVE  /\ new[tun[r]] \in Built
           /\ class[r] = "blocked" /\ tun[r] \in blockList => RejectDns(r) \/ DumpUid(r) \/ Reject(r)
<1>0. PlaceType
    BY TypeSplit
<1>1. pc[r] # "none"
    BY DEF NewConnection, RejectDns, SkipUID, DumpUid, Reject, Pass, CountStats, Register, DialFails, Dial,
           RunReturns, Remove, CloseConn, CloseProxy, Goto
<1>2. new[tun[r]] \in Built /\ tun[r] \in Tuns
    BY <1>0, <1>1 DEF CheckedInv, PlaceType
<1>3. ASSUME class[r] = "blocked", tun[r] \in blockList
      PROVE  RejectDns(r) \/ DumpUid(r) \/ Reject(r)
    <2>1. pc[r] \in {"start", "uid", "done"}
        BY <1>1, <1>3 DEF CheckedInv
    <2>2. tun[r] \in blockedUIDs
        BY <1>2, <1>3 DEF FieldsInv
    <2>3. ~SkipUID(r) /\ ~Pass(r)
        BY <1>3, <2>2 DEF SkipUID, Pass, WantsUID, IsBlocked
    <2>4. QED
        BY <2>1, <2>3
           DEF NewConnection, CountStats, Register, DialFails, Dial, RunReturns, Remove, CloseConn, CloseProxy, Goto
<1>4. QED
    BY <1>2, <1>3

LEMMA CheckedInductive ==
    ASSUME TypeOK, OpenInv, FieldsInv, CheckedInv, [Next]_vars
    PROVE  CheckedInv'
<1>0. PlaceType /\ ConnType
    BY TypeSplit
<1>1. SUFFICES ASSUME NEW q \in Relays PROVE Checked(q)'
    BY DEF CheckedInv, Checked
<1>2. Checked(q) /\ tun[q] \in Tuns
    BY <1>0 DEF CheckedInv, Checked, PlaceType
<1>3. ASSUME UNCHANGED <<pc, class, tun, proxyConn, early, new, blockList>>
      PROVE  Checked(q)'
    BY <1>2, <1>3 DEF Checked
<1>4. ASSUME NEW r \in Relays, NEW t \in Tuns, NEW cl \in Classes, Accepted(r, t, cl, new[t] = "up"), UNCHANGED tunVars
      PROVE  Checked(q)'
    <2>1. CASE q # r
        <3>1. /\ pc'[q] = pc[q] /\ class'[q] = class[q] /\ tun'[q] = tun[q] /\ (q \in early' <=> q \in early)
              /\ UNCHANGED <<proxyConn, new, blockList>>
            BY <1>0, <1>4, <2>1 DEF Accepted, Goto, PlaceType, tunVars
        <3>2. QED
            BY <1>2, <3>1 DEF Checked
    <2>2. CASE q = r
        <3>1. proxyConn'[r] = "none"
            BY <1>4 DEF Accepted, Goto, OpenInv
        <3>2. /\ pc'[r] = "start" /\ tun'[r] = t /\ (new[t] = "up" \/ r \in early')
              /\ UNCHANGED <<new, blockList>>
            BY <1>0, <1>4 DEF Accepted, Goto, PlaceType, tunVars
        <3>3. QED
            BY <2>2, <3>1, <3>2 DEF Checked, Built
    <2>3. QED
        BY <2>1, <2>2
<1>5. ASSUME NEW r \in Relays, NewConnection(r) \/ CountStats(r), UNCHANGED tunVars
      PROVE  Checked(q)'
    <2>1. UNCHANGED <<class, tun, early, new, blockList>>
        BY <1>5
           DEF NewConnection, RejectDns, SkipUID, DumpUid, Reject, Pass, CountStats, Register, DialFails, Dial,
               RunReturns, Remove, CloseConn, CloseProxy, restVars, tunVars
    <2>2. CASE q # r
        <3>1. pc'[q] = pc[q] /\ proxyConn'[q] = proxyConn[q]
            BY <1>0, <1>5, <2>2
               DEF NewConnection, RejectDns, SkipUID, DumpUid, Reject, Pass, CountStats, Register, DialFails, Dial,
                   RunReturns, Remove, CloseConn, CloseProxy, Goto, connVars, PlaceType, ConnType
        <3>2. QED
            BY <1>2, <2>1, <3>1 DEF Checked
    <2>3. CASE q = r
        <3>1. pc'[r] # "none" /\ pc[r] # "none"
            BY <1>0, <1>5
               DEF NewConnection, RejectDns, SkipUID, DumpUid, Reject, Pass, CountStats, Register, DialFails, Dial,
                   RunReturns, Remove, CloseConn, CloseProxy, Goto, PlaceType
        <3>2. CASE r \in early
            BY <2>1, <2>3, <3>1, <3>2 DEF Checked
        <3>3. CASE r \notin early
            <4>1. new[tun[r]] \in Built
                BY <1>5, <3>3, BlockedStep
            <4>2. ASSUME class[r] = "blocked", tun[r] \in blockList
                  PROVE  pc'[r] \in {"start", "uid", "done"} /\ proxyConn'[r] = "none"
                <5>1. RejectDns(r) \/ DumpUid(r) \/ Reject(r)
                    BY <1>5, <3>3, <4>2, BlockedStep
                <5>2. proxyConn[r] = "none"
                    BY <1>2, <2>3, <3>1, <3>3, <4>2 DEF Checked
                <5>3. QED
                    BY <1>0, <5>1, <5>2 DEF RejectDns, DumpUid, Reject, Goto, connVars, PlaceType
            <4>3. QED
                BY <2>1, <2>3, <3>1, <4>1, <4>2 DEF Checked
        <3>4. QED
            BY <3>2, <3>3
    <2>4. QED
        BY <2>2, <2>3
<1>6. ASSUME NEW r \in Relays, NEW d \in Directions, CopyEnds(r, d) \/ SenderEnds(r, d), UNCHANGED tunVars
      PROVE  Checked(q)'
    BY <1>3, <1>6 DEF CopyEnds, SenderEnds, restVars, tunVars
<1>7. ASSUME NEW r \in Relays, NEW isUp, OutboundDials(r, isUp), UNCHANGED tunVars
      PROVE  Checked(q)'
    BY <1>3, <1>7 DEF OutboundDials, connVars, tunVars
<1>8. ASSUME \/ \E u \in Tuns : \E config \in Configs[u] : NewTun2ray(u, config)
             \/ \E u \in Tuns : TunStep(u) \/ Close(u)
             \/ OtherDialer
      PROVE  Checked(q)'
    <2>1. UNCHANGED <<pc, class, tun, proxyConn, early>>
        BY <1>8
           DEF NewTun2ray, TunStep, NewDevice, NewDeviceFails, NewDumper, NewDumperFails, NewBlockedUIDs, NewDialer,
               Close, CloseDevice, CloseCancel, OtherDialer, relayVars, connVars, restVars
    <2>2. new[tun[q]] \in Built => new'[tun[q]] \in Built /\ (tun[q] \in blockList' <=> tun[q] \in blockList)
        BY <1>2, <1>8, BuiltStays
    <2>3. QED
        BY <1>2, <2>1, <2>2 DEF Checked
<1>9. QED
    BY <1>3, <1>4, <1>5, <1>6, <1>7, <1>8 DEF Next, RelayNext, vars, relayVars, connVars, tunVars

(* The process ends by a connection that meets a nil uidDumper, which an    *)
(* unfinished tun alone has, and after that nothing changes its witness.    *)
LEMMA CrashInductive ==
    ASSUME TypeOK, OpenInv, FieldsInv, CheckedInv, CrashInv, [Next]_vars
    PROVE  CrashInv'
<1>0. PlaceType
    BY TypeSplit
<1>1. CASE UNCHANGED <<pc, tun, early, uidDumper, crashed>>
    BY <1>1 DEF CrashInv
<1>2. CASE ~crashed'
    BY <1>2 DEF CrashInv
<1>3. ASSUME NEW r \in Relays, DumpUid(r), crashed'
      PROVE  CrashInv'
    <2>1. /\ tun[r] \notin uidDumper /\ pc'[r] = "uid" /\ pc[r] = "start" /\ WantsUID(tun[r])
          /\ UNCHANGED <<tun, early, uidDumper>>
        BY <1>0, <1>3 DEF DumpUid, Goto, PlaceType, restVars, fieldVars
    <2>2. r \in early
        <3>1. SUFFICES ASSUME r \notin early PROVE FALSE
            OBVIOUS
        <3>2. new[tun[r]] \in Built /\ tun[r] \in Tuns
            BY <1>0, <2>1, <3>1 DEF CheckedInv, PlaceType
        <3>3. NeedsDumper(tun[r])
            BY <2>1 DEF WantsUID, NeedsDumper, FieldsInv
        <3>4. QED
            BY <2>1, <3>2, <3>3 DEF FieldsInv
    <2>3. QED
        BY <2>1, <2>2 DEF CrashInv
<1>4. ASSUME NEW r \in Relays, NewConnection(r) \/ CountStats(r), ~DumpUid(r)
      PROVE  ~crashed'
    BY <1>4
       DEF NewConnection, RejectDns, SkipUID, Reject, Pass, CountStats, Register, DialFails, Dial,
           RunReturns, Remove, CloseConn, CloseProxy, Goto
<1>5. ASSUME NEW r \in Relays, NEW d \in Directions, CopyEnds(r, d) \/ SenderEnds(r, d)
      PROVE  UNCHANGED <<pc, tun, early, uidDumper, crashed>>
    BY <1>5 DEF CopyEnds, SenderEnds, restVars, fieldVars
<1>6. ASSUME NEW r \in Relays, NEW t \in Tuns, NEW cl \in Classes, NEW isUp,
             Accepted(r, t, cl, isUp) \/ OutboundDials(r, isUp)
      PROVE  ~crashed'
    BY <1>6 DEF Accepted, OutboundDials, Goto
<1>7. ASSUME NEW r \in Relays, NEW isUp, OutboundDials(r, isUp)
      PROVE  ~crashed'
    BY <1>7 DEF OutboundDials
<1>8. ASSUME \/ \E u \in Tuns : \E config \in Configs[u] : NewTun2ray(u, config)
             \/ \E u \in Tuns : TunStep(u) \/ Close(u)
             \/ OtherDialer
      PROVE  ~crashed'
    BY <1>8
       DEF NewTun2ray, TunStep, NewDevice, NewDeviceFails, NewDumper, NewDumperFails, NewBlockedUIDs, NewDialer,
           Close, CloseDevice, CloseCancel, OtherDialer, Step, relayVars
<1>9. QED
    BY <1>1, <1>2, <1>3, <1>4, <1>5, <1>6, <1>7, <1>8 DEF Next, RelayNext, vars, relayVars, fieldVars

-----------------------------------------------------------------------------
(* The dialer.                                                              *)

LEMMA DialerInductive ==
    ASSUME TypeOK, DialerInv, [Next]_vars
    PROVE  DialerInv'
<1>0. TunType
    BY TypeSplit
<1>1. SUFFICES ASSUME ~shared'
               PROVE  /\ \A t, u \in Tuns : InUse(t)' /\ InUse(u)' => t = u
                      /\ \A t \in Tuns : new'[t] = "up" => systemDialer' = TunDialer(t)
                      /\ exposed' = {}
    BY DEF DialerInv
<1>2. ~shared
    <2>1. shared => shared'
        <3>1. UNCHANGED shared \/ (\E t \in Tuns : \E config \in Configs[t] : NewTun2ray(t, config)) \/ OtherDialer
            BY DEF Next, RelayNext, TunStep, NewDevice, NewDeviceFails, NewDumper, NewDumperFails, NewBlockedUIDs,
                   NewDialer, Close, CloseDevice, CloseCancel, vars, tunVars
        <3>2. QED
            BY <3>1 DEF NewTun2ray, OtherDialer
    <2>2. QED
        BY <1>1, <2>1
<1>3. /\ \A t, u \in Tuns : InUse(t) /\ InUse(u) => t = u
      /\ \A t \in Tuns : new[t] = "up" => systemDialer = TunDialer(t)
      /\ exposed = {}
    BY <1>2 DEF DialerInv
<1>4. CASE UNCHANGED <<new, systemDialer, exposed>>
    BY <1>3, <1>4 DEF InUse
<1>5. ASSUME NEW t \in Tuns, NEW config \in Configs[t], NewTun2ray(t, config)
      PROVE  DialerInv'
    <2>1. /\ \A u \in Tuns : ~InUse(u)
          /\ UNCHANGED <<systemDialer, exposed>>
        BY <1>1, <1>5 DEF NewTun2ray, relayVars
    <2>2. new'[t] = "device" /\ \A u \in Tuns : u # t => new'[u] = new[u]
        BY <1>0, <1>5 DEF NewTun2ray, Step, TunType
    <2>3. \A u \in Tuns : u # t => ~InUse(u)'
        BY <2>1, <2>2 DEF InUse
    <2>4. \A u \in Tuns : new'[u] # "up"
        BY <2>2, <2>3 DEF InUse
    <2>5. QED
        BY <1>3, <2>1, <2>3, <2>4 DEF DialerInv
<1>6. ASSUME NEW t \in Tuns, TunStep(t) \/ Close(t)
      PROVE  DialerInv'
    <2>1. InUse(t) /\ \A u \in Tuns : u # t => new'[u] = new[u]
        BY <1>0, <1>6
           DEF TunStep, NewDevice, NewDeviceFails, NewDumper, NewDumperFails, NewBlockedUIDs, NewDialer, Close,
               CloseDevice, CloseCancel, Step, InUse, TunType
    <2>2. \A u \in Tuns : u # t => ~InUse(u)'
        BY <1>3, <2>1 DEF InUse
    <2>3. new'[t] = "up" => systemDialer' = TunDialer(t)
        BY <1>0, <1>6
           DEF TunStep, NewDevice, NewDeviceFails, NewDumper, NewDumperFails, NewBlockedUIDs, NewDialer, Close,
               CloseDevice, CloseCancel, Step, TunType
    <2>4. UNCHANGED exposed
        BY <1>6
           DEF TunStep, NewDevice, NewDeviceFails, NewDumper, NewDumperFails, NewBlockedUIDs, NewDialer, Close,
               CloseDevice, CloseCancel, relayVars, restVars
    <2>5. \A u \in Tuns : new'[u] = "up" => systemDialer' = TunDialer(u)
        BY <2>2, <2>3 DEF InUse
    <2>6. QED
        BY <1>3, <2>2, <2>4, <2>5 DEF DialerInv
<1>7. CASE OtherDialer
    <2>1. \A u \in Tuns : ~InUse(u)
        BY <1>1, <1>7 DEF OtherDialer
    <2>2. UNCHANGED <<new, exposed>>
        BY <1>7 DEF OtherDialer, relayVars
    <2>3. QED
        BY <1>3, <2>1, <2>2 DEF InUse
<1>8. ASSUME NEW r \in Relays, OutboundDials(r, new[tun[r]] = "up"), UNCHANGED tunVars
      PROVE  DialerInv'
    <2>1. UNCHANGED <<new, systemDialer>>
        BY <1>8 DEF OutboundDials, fieldVars, tunVars
    <2>2. exposed' = {}
        <3>1. tun[r] \in Tuns
            BY TypeSplit DEF PlaceType
        <3>2. new[tun[r]] = "up" => systemDialer = TunDialer(tun[r])
            BY <1>3, <3>1
        <3>3. QED
            BY <1>3, <1>8, <3>2 DEF OutboundDials
    <2>3. QED
        BY <1>3, <2>1, <2>2 DEF DialerInv, InUse
<1>9. ASSUME RelayNext \/ (\E r \in Relays, t \in Tuns, cl \in Classes : Accepted(r, t, cl, new[t] = "up")),
             UNCHANGED tunVars
      PROVE  UNCHANGED <<new, systemDialer, exposed>>
    <2>1. UNCHANGED <<new, systemDialer>>
        BY <1>9, RelaysKeepTuns DEF RelayNext, fieldVars, tunVars
    <2>2. ASSUME NEW r \in Relays, NewConnection(r) \/ CountStats(r)
          PROVE  UNCHANGED exposed
        BY <2>2 DEF NewConnection, RejectDns, SkipUID, DumpUid, Reject, Pass, CountStats, Register, DialFails, Dial,
               RunReturns, Remove, CloseConn, CloseProxy, restVars
    <2>3. ASSUME NEW r \in Relays, NEW d \in Directions, CopyEnds(r, d) \/ SenderEnds(r, d)
          PROVE  UNCHANGED exposed
        BY <2>3 DEF CopyEnds, SenderEnds, restVars
    <2>4. QED
        BY <1>9, <2>1, <2>2, <2>3 DEF RelayNext, Accepted
<1>10. QED
    BY <1>1, <1>4, <1>5, <1>6, <1>7, <1>8, <1>9 DEF DialerInv, Next, vars, relayVars, fieldVars, tunVars

-----------------------------------------------------------------------------
(* The theorems.                                                            *)

LEMMA InitIInv == Init => IInv
<1> SUFFICES ASSUME Init PROVE IInv
    OBVIOUS
<1>1. PlaceType
    <2>1. 1 \in Tuns
        BY StatsAssumption DEF Tuns
    <2>2. pc \in [Relays -> RelayPlaces] /\ class \in [Relays -> Classes] /\ tun \in [Relays -> Tuns]
        BY <2>1 DEF Init, RelayInit, RelayPlaces, Classes
    <2>3. connections \cup cancelled \cup failedDial \cup early \cup exposed \subseteq Relays /\ crashed \in BOOLEAN
        BY DEF Init, RelayInit
    <2>4. QED
        BY <2>2, <2>3 DEF PlaceType
<1>2. ConnType
    BY DEF Init, RelayInit, ConnType
<1>3. TunType
    BY DEF Init, TunType, TunPlaces
<1>4. OpenInv
    BY DEF Init, RelayInit, OpenInv
<1>5. FieldsInv
    BY DEF Init, FieldsInv, Built
<1>6. CheckedInv /\ CrashInv
    BY DEF Init, RelayInit, CheckedInv, CrashInv
<1>7. DialerInv
    BY DEF Init, RelayInit, DialerInv, InUse
<1>8. QED
    BY <1>1, <1>2, <1>3, <1>4, <1>5, <1>6, <1>7, TypeSplit DEF IInv

LEMMA NextIInv == IInv /\ [Next]_vars => IInv'
<1> SUFFICES ASSUME IInv, [Next]_vars PROVE IInv'
    OBVIOUS
<1>1. TypeOK /\ OpenInv /\ FieldsInv /\ CheckedInv /\ CrashInv /\ DialerInv
    BY DEF IInv
<1>2. TypeOK' /\ OpenInv' /\ FieldsInv'
    BY <1>1, TypeInductive, OpenInductive, FieldsInductive
<1>3. CheckedInv' /\ CrashInv' /\ DialerInv'
    BY <1>1, CheckedInductive, CrashInductive, DialerInductive
<1>4. QED
    BY <1>2, <1>3 DEF IInv

LEMMA Invariance == Spec => []IInv
BY InitIInv, NextIInv, PTL DEF Spec

(* Every variable of a connection and of a tun keeps its type. *)
THEOREM TypeCorrect == Spec => []TypeOK
BY Invariance, PTL DEF IInv

(* Whichever way NewConnection is left (tun.go:196-356), it has closed both *)
(* connections and, unless dial failed, taken its cancel back.              *)
THEOREM NothingLeftOpenAlways == Spec => []NothingLeftOpen
<1>1. IInv => NothingLeftOpen
    BY DEF IInv, OpenInv, NothingLeftOpen
<1>2. QED
    BY <1>1, Invariance, PTL

(* A connection that comes in after NewTun2ray returned meets the block     *)
(* list and the UID dumper of its tun, while other tuns come and go.        *)
THEOREM ReturnedTunIsCompleteAlways == Spec => []ReturnedTunIsComplete
<1>1. IInv => ReturnedTunIsComplete
    <2> SUFFICES ASSUME IInv PROVE ReturnedTunIsComplete
        OBVIOUS
    <2>1. ASSUME NEW r \in Relays, class[r] = "blocked", tun[r] \in blockList, proxyConn[r] # "none"
          PROVE  r \in early
        BY <2>1 DEF IInv, CheckedInv
    <2>2. QED
        BY <2>1 DEF IInv, CrashInv, ReturnedTunIsComplete
<1>2. QED
    BY <1>1, Invariance, PTL

(* As long as no two users of the dialer of the process overlapped, each    *)
(* outbound of a tun that is up connected with that tun's dialer.           *)
THEOREM OutboundsProtectedAlways == Spec => []OutboundsProtected
<1>1. IInv => OutboundsProtected
    BY DEF IInv, DialerInv, OutboundsProtected
<1>2. QED
    BY <1>1, Invariance, PTL

-----------------------------------------------------------------------------
(* The device. *)

(* The types, and that only finitely many requests are in flight, which the *)
(* bound on their number needs.                                             *)
DeviceTypes ==
    /\ implementation \in Implementations
    /\ System!TypeOK
    /\ GVisor!TypeOK /\ IsFiniteSet(GVisor!InFlight)

(* The header of a session is addressed to the app whose datagram began it. *)
HeaderInv ==
    \A b \in System!Buffers :
        newHeader[b] # System!NoHeader => newHeader[b].destination = origin[b].source

(* What the dispatch goroutine of gvisor knows of its packet: past the      *)
(* filter, that it is not to be discarded; at the call, that the dispatcher *)
(* it has loaded is not nil; and that only datagrams have a length of their *)
(* own.                                                                     *)
PassedInv ==
    /\ ~nilCalled
    /\ stage \in {"load", "call"} => ~GVisor!Filtered(read6) /\ (read6 => current.version = 6)
    /\ stage = "call" => local
    /\ current.cut => current.proto = "udp"

DeviceInv == DeviceTypes /\ CacheIsOurs /\ HeaderInv /\ PassedInv /\ TreatedAlike

-----------------------------------------------------------------------------
(* Both implementations have the definitions of PacketFilter, and those of  *)
(* FiniteSets, under names of their own.                                    *)
LEMMA SameFilter ==
    /\ System!Versions = Versions /\ GVisor!Versions = Versions
    /\ System!Protocols = Protocols /\ GVisor!Protocols = Protocols
    /\ System!Undecided = Undecided /\ GVisor!Undecided = Undecided
    /\ \A p : System!IsICMP(p) = IsICMP(p) /\ GVisor!IsICMP(p) = IsICMP(p)
    /\ System!Outcomes = Outcomes /\ GVisor!Outcomes = Outcomes
BY DEF System!Versions, GVisor!Versions, Versions, System!Protocols, GVisor!Protocols, Protocols,
       System!Undecided, GVisor!Undecided, Undecided, System!IsICMP, GVisor!IsICMP, IsICMP,
       System!Outcomes, GVisor!Outcomes, Outcomes

LEMMA SameCardinality == \A S : GVisor!Cardinality(S) = Cardinality(S)
BY DEF GVisor!Cardinality, Cardinality

LEMMA DeviceInitInv == DeviceInit => DeviceInv
<1> SUFFICES ASSUME DeviceInit PROVE DeviceInv
    OBVIOUS
<1> USE DEF DeviceInit
<1>1. \E a \in Apps, p \in Peers : TRUE
    BY UseAssumption
<1>2. packet \in System!Packets
    <2>1. PICK a \in Apps, p \in Peers : TRUE
        BY <1>1
    <2>2. [version |-> 4, proto |-> "other", cut |-> FALSE, source |-> a, destination |-> p] \in System!Packets
        BY <2>1, SameFilter DEF System!Packets, Versions, Protocols
    <2>3. QED
        BY <2>2 DEF System!Init
<1>3. current \in GVisor!Packets /\ ~current.cut
    <2>1. PICK a \in Apps, p \in Peers : TRUE
        BY <1>1
    <2>2. [version |-> 4, proto |-> "other", cut |-> FALSE, request |-> GVisor!NoRequest,
           source |-> a, destination |-> p] \in GVisor!Packets
        BY <2>1, SameFilter DEF GVisor!Packets, Versions, Protocols
    <2>3. QED
        BY <2>2 DEF GVisor!Init
<1>4. verdict \in Outcomes
    BY SameFilter DEF System!Init, Undecided, Outcomes, Versions, Protocols
<1>5. System!TypeOK
    <2> USE DEF System!Init
    <2>1. loop = "read" /\ cache = 1 /\ discardIPv6 = FALSE
        OBVIOUS
    <2>2. owner \in [System!Buffers -> {"new", "loop", "handler", "pool", "lost"}]
        OBVIOUS
    <2>3. origin \in [System!Buffers -> System!Packets]
        BY <1>2
    <2>4. newHeader \in [System!Buffers -> [source : System!Addresses, destination : Apps \cup {NoAddr}]]
        BY DEF System!NoHeader, System!Addresses
    <2>5. answer \in [from : System!Addresses, to : System!Addresses,
                      peer : Peers \cup {NoAddr}, app : Apps \cup {NoAddr}]
        BY DEF System!Addresses
    <2>6. cache \in System!Buffers
        BY <2>1, BufferAssumption DEF System!Buffers
    <2>7. QED
        BY <1>2, <1>4, <2>1, <2>2, <2>3, <2>4, <2>5, <2>6, SameFilter DEF System!TypeOK
<1>6. GVisor!InFlight = {}
    BY DEF GVisor!Init, GVisor!InFlight
<1>7. GVisor!TypeOK /\ IsFiniteSet(GVisor!InFlight)
    <2>1. IsFiniteSet({}) /\ Cardinality({}) = 0
        BY FS_EmptySet
    <2>2. GVisor!Cardinality(GVisor!InFlight) <= MaxInFlight
        BY <2>1, <1>6, RequestAssumption, SameCardinality
    <2>3. QED
        BY <1>3, <1>6, <1>4, <2>1, <2>2, SameFilter DEF GVisor!Init, GVisor!TypeOK
<1>8. CacheIsOurs /\ HeaderInv /\ PassedInv
    BY <1>3, BufferAssumption
       DEF System!Init, GVisor!Init, CacheIsOurs, System!CacheIsOurs, System!Buffers, HeaderInv, PassedInv
<1>9. TreatedAlike
    BY SameFilter DEF System!Init, TreatedAlike, Undecided, Wanted, IsICMP
<1>10. QED
    BY <1>5, <1>7, <1>8, <1>9 DEF DeviceInv, DeviceTypes

-----------------------------------------------------------------------------
(* The system tun.                                                          *)

(* It leaves the variables of gvisor alone. *)
LEMMA GVisorStays ==
    ASSUME DeviceInv, UNCHANGED gvisorVars,
           discardIPv6' \in BOOLEAN,
           verdict' \in Outcomes
    PROVE  (GVisor!TypeOK /\ IsFiniteSet(GVisor!InFlight) /\ PassedInv)'
<1>1. UNCHANGED <<GVisor!InFlight, GVisor!Packets>>
    BY DEF gvisorVars, GVisor!InFlight, GVisor!Packets, GVisor!NoRequest
<1>2. PassedInv'
    BY DEF DeviceInv, PassedInv, gvisorVars, GVisor!Filtered
<1>3. QED
    BY <1>1, <1>2, SameFilter DEF DeviceInv, DeviceTypes, GVisor!TypeOK, gvisorVars

SystemMoves == implementation = "system" /\ UNCHANGED <<implementation, gvisorVars>>

LEMMA PacketFacts ==
    ASSUME DeviceInv
    PROVE  /\ packet.version \in Versions /\ packet.proto \in Protocols
           /\ packet.source \in Apps /\ packet.destination \in Peers /\ packet.cut \in BOOLEAN
BY SameFilter DEF DeviceInv, DeviceTypes, System!TypeOK, System!Packets

(* A decision of deliverPacket that is the reference's. *)
LEMMA SystemDecides ==
    ASSUME DeviceInv, SystemMoves, discardIPv6' = discardIPv6, NEW v, System!Verdict(v),
           v = Wanted(packet.version, packet.proto, discardIPv6, DiscardICMP["system"])
    PROVE  /\ verdict' \in Outcomes
           /\ verdict'.is = Wanted(verdict'.version, verdict'.proto, verdict'.discard6,
                                   DiscardICMP["system"])
<1>1. v \in {"connection", "packet", "reply", "drop"}
    BY DEF Wanted
<1>2. QED
    BY <1>1, PacketFacts DEF Outcomes, System!Verdict, DeviceInv, DeviceTypes, System!TypeOK

(* The verdict on a packet, and what a step of the system tun leaves to be  *)
(* shown after it.                                                          *)
LEMMA SystemStep ==
    ASSUME DeviceInv, SystemMoves, System!TypeOK', CacheIsOurs', HeaderInv',
           verdict'.is = Wanted(verdict'.version, verdict'.proto, verdict'.discard6, DiscardICMP["system"]),
           answer'.from = answer'.peer, answer'.to = answer'.app
    PROVE  DeviceInv'
<1>1. discardIPv6' \in BOOLEAN /\ verdict' \in Outcomes
    BY SameFilter DEF System!TypeOK, Outcomes
<1>2. (GVisor!TypeOK /\ IsFiniteSet(GVisor!InFlight) /\ PassedInv)'
    BY <1>1, GVisorStays DEF SystemMoves, Outcomes
<1>3. TreatedAlike'
    BY DEF TreatedAlike, SystemMoves
<1>4. QED
    BY <1>2, <1>3 DEF DeviceInv, DeviceTypes, SystemMoves

(* The loop keeps its buffer: what deliverPacket wrote, if anything, is an  *)
(* answer to an echo request.                                               *)
LEMMA KeepCacheInv ==
    ASSUME DeviceInv, SystemMoves, System!KeepCache,
           UNCHANGED <<owner, origin, newHeader, discardIPv6>>, loop = "deliver",
           NEW v, System!Verdict(v),
           v = Wanted(packet.version, packet.proto, discardIPv6, DiscardICMP["system"]),
           \/ UNCHANGED answer
           \/ answer' = [from |-> packet.destination, to |-> packet.source,
                         peer |-> packet.destination, app |-> packet.source]
    PROVE  DeviceInv'
<1>1. answer' \in [from : System!Addresses, to : System!Addresses,
                   peer : Peers \cup {NoAddr}, app : Apps \cup {NoAddr}]
    BY PacketFacts DEF DeviceInv, DeviceTypes, System!TypeOK, System!Addresses
<1>2. answer'.from = answer'.peer /\ answer'.to = answer'.app
    BY DEF DeviceInv, TreatedAlike
<1>3. System!TypeOK'
    BY <1>1, SystemDecides, SameFilter
       DEF DeviceInv, DeviceTypes, System!TypeOK, System!KeepCache, System!Addresses, System!Packets,
           System!Buffers, Outcomes
<1>4. CacheIsOurs' /\ HeaderInv'
    BY DEF DeviceInv, CacheIsOurs, System!CacheIsOurs, HeaderInv, System!KeepCache, System!Buffers,
           System!NoHeader
<1>5. QED
    BY <1>2, <1>3, <1>4, SystemDecides, SystemStep

(* The loop takes a new buffer, and the old one is somebody else's. *)
LEMMA RenewCacheInv ==
    ASSUME DeviceInv, SystemMoves, loop = "deliver", System!RenewCache,
           NEW o \in {"handler", "lost"}, owner' = [owner EXCEPT ![cache'] = "loop", ![cache] = o]
    PROVE  /\ cache' \in System!Buffers /\ cache' # cache
           /\ owner' \in [System!Buffers -> {"new", "loop", "handler", "pool", "lost"}]
           /\ CacheIsOurs'
<1>1. owner[cache] = "loop" /\ cache \in System!Buffers
    BY DEF DeviceInv, DeviceTypes, CacheIsOurs, System!CacheIsOurs, System!TypeOK
<1>2. cache' \in System!Buffers /\ owner[cache'] = "new"
    BY DEF System!RenewCache
<1>3. QED
    BY <1>1, <1>2 DEF DeviceInv, DeviceTypes, CacheIsOurs, System!CacheIsOurs, System!TypeOK

LEMMA ProcessUDPInv == ASSUME DeviceInv, SystemMoves, System!ProcessUDP PROVE DeviceInv'
<1> USE DEF System!ProcessUDP, System!Delivering, System!Discarded6
<1>1. "packet" = Wanted(packet.version, packet.proto, discardIPv6, DiscardICMP["system"])
    BY DEF Wanted, IsICMP
<1>2. /\ verdict' \in Outcomes
      /\ verdict'.is = Wanted(verdict'.version, verdict'.proto, verdict'.discard6, DiscardICMP["system"])
    BY <1>1, SystemDecides
<1>3. cache' \in System!Buffers /\ CacheIsOurs'
      /\ owner' \in [System!Buffers -> {"new", "loop", "handler", "pool", "lost"}]
    BY RenewCacheInv
<1>4. loop' = "read" /\ packet' = packet
    BY DEF System!RenewCache
<1>5. cache \in System!Buffers /\ packet \in System!Packets
      /\ origin \in [System!Buffers -> System!Packets]
      /\ newHeader \in [System!Buffers -> [source : System!Addresses, destination : Apps \cup {NoAddr}]]
    BY DEF DeviceInv, DeviceTypes, System!TypeOK
<1>6. origin' \in [System!Buffers -> System!Packets]
      /\ newHeader' \in [System!Buffers -> [source : System!Addresses, destination : Apps \cup {NoAddr}]]
    BY <1>5, PacketFacts DEF System!Addresses
<1>7. System!TypeOK'
    BY <1>2, <1>3, <1>4, <1>5, <1>6, SameFilter
       DEF DeviceInv, DeviceTypes, System!TypeOK, System!Packets, System!Addresses, System!Buffers, Outcomes
<1>8. HeaderInv'
    BY <1>5 DEF DeviceInv, HeaderInv, System!Buffers, System!NoHeader
<1>9. answer'.from = answer'.peer /\ answer'.to = answer'.app
    BY DEF DeviceInv, TreatedAlike
<1>10. QED
    BY <1>2, <1>3, <1>7, <1>8, <1>9, SystemStep

LEMMA DiscardUDPInv == ASSUME DeviceInv, SystemMoves, System!DiscardUDP PROVE DeviceInv'
<1> USE DEF System!DiscardUDP, System!Delivering, System!Discarded6
<1>1. "drop" = Wanted(packet.version, packet.proto, discardIPv6, DiscardICMP["system"])
    BY DEF Wanted
<1>2. /\ verdict' \in Outcomes
      /\ verdict'.is = Wanted(verdict'.version, verdict'.proto, verdict'.discard6, DiscardICMP["system"])
    BY <1>1, SystemDecides
<1>3. cache' \in System!Buffers /\ CacheIsOurs'
      /\ owner' \in [System!Buffers -> {"new", "loop", "handler", "pool", "lost"}]
    BY RenewCacheInv
<1>4. loop' = "read" /\ packet' = packet
    BY DEF System!RenewCache
<1>5. System!TypeOK'
    BY <1>2, <1>3, <1>4, SameFilter
       DEF DeviceInv, DeviceTypes, System!TypeOK, System!Packets, System!Addresses, System!Buffers, Outcomes
<1>6. HeaderInv' /\ answer'.from = answer'.peer /\ answer'.to = answer'.app
    BY DEF DeviceInv, HeaderInv, System!Buffers, System!NoHeader, TreatedAlike
<1>7. QED
    BY <1>2, <1>3, <1>5, <1>6, SystemStep

(* The cases of deliverPacket that leave the buffer to the loop. *)
LEMMA DeliverInv ==
    ASSUME DeviceInv, SystemMoves,
           System!ProcessTCP \/ System!DiscardTCP \/ System!ProcessICMP
               \/ System!DiscardICMPPacket \/ System!IgnoreOther
    PROVE  DeviceInv'
<1> USE SameFilter, PacketFacts DEF System!Delivering, System!Discarded6, Wanted, IsICMP
<1>1. CASE System!ProcessTCP
    <2>1. "connection" = Wanted(packet.version, packet.proto, discardIPv6, DiscardICMP["system"])
        BY <1>1 DEF System!ProcessTCP
    <2>2. System!Verdict("connection")
        BY <1>1 DEF System!ProcessTCP
    <2>3. QED
        BY <1>1, <2>1, <2>2, KeepCacheInv DEF System!ProcessTCP, System!bufferVars
<1>2. CASE System!DiscardTCP
    <2>1. "drop" = Wanted(packet.version, packet.proto, discardIPv6, DiscardICMP["system"])
        BY <1>2 DEF System!DiscardTCP
    <2>2. System!Verdict("drop")
        BY <1>2 DEF System!DiscardTCP
    <2>3. QED
        BY <1>2, <2>1, <2>2, KeepCacheInv DEF System!DiscardTCP, System!bufferVars
<1>3. CASE System!ProcessICMP
    <2>1. (IF packet.proto = "echo" THEN "reply" ELSE "drop") = Wanted(packet.version, packet.proto, discardIPv6, DiscardICMP["system"])
        BY <1>3 DEF System!ProcessICMP
    <2>2. System!Verdict((IF packet.proto = "echo" THEN "reply" ELSE "drop"))
        BY <1>3 DEF System!ProcessICMP
    <2>3. QED
        BY <1>3, <2>1, <2>2, KeepCacheInv DEF System!ProcessICMP, System!bufferVars
<1>4. CASE System!DiscardICMPPacket
    <2>1. "drop" = Wanted(packet.version, packet.proto, discardIPv6, DiscardICMP["system"])
        BY <1>4 DEF System!DiscardICMPPacket
    <2>2. System!Verdict("drop")
        BY <1>4 DEF System!DiscardICMPPacket
    <2>3. QED
        BY <1>4, <2>1, <2>2, KeepCacheInv DEF System!DiscardICMPPacket, System!bufferVars
<1>5. CASE System!IgnoreOther
    <2>1. "drop" = Wanted(packet.version, packet.proto, discardIPv6, DiscardICMP["system"])
        BY <1>5 DEF System!IgnoreOther
    <2>2. System!Verdict("drop")
        BY <1>5 DEF System!IgnoreOther
    <2>3. QED
        BY <1>5, <2>1, <2>2, KeepCacheInv DEF System!IgnoreOther, System!bufferVars
<1>6. QED
    BY <1>1, <1>2, <1>3, <1>4, <1>5

LEMMA SystemReadInv ==
    ASSUME DeviceInv, SystemMoves,
           System!NetworkChanges \/ (\E p \in System!Packets : System!Read(p)) \/ System!ReadFails
    PROVE  DeviceInv'
<1> USE DEF DeviceInv, DeviceTypes, System!TypeOK, System!loopVars, System!bufferVars, System!Packets,
            System!Addresses, System!Buffers, CacheIsOurs, System!CacheIsOurs, HeaderInv,
            System!NoHeader, TreatedAlike
<1>1. CASE System!NetworkChanges
    BY <1>1, SystemStep DEF System!NetworkChanges, SystemMoves
<1>2. CASE \E p \in System!Packets : System!Read(p)
    <2>1. verdict' = Undecided
        BY <1>2, SameFilter DEF System!Read
    <2>2. verdict' \in Outcomes
          /\ verdict'.is = Wanted(verdict'.version, verdict'.proto, verdict'.discard6, DiscardICMP["system"])
        BY <2>1 DEF Undecided, Wanted, IsICMP, Outcomes, Versions, Protocols
    <2>3. QED
        BY <1>2, <2>2, SystemStep, SameFilter DEF System!Read, Outcomes
<1>3. CASE System!ReadFails
    BY <1>3, SystemStep DEF System!ReadFails, SystemMoves
<1>4. QED
    BY <1>1, <1>2, <1>3

LEMMA ReleaseInv ==
    ASSUME DeviceInv, SystemMoves, NEW b \in System!Buffers, System!Release(b)
    PROVE  DeviceInv'
<1> USE DEF DeviceInv, DeviceTypes, System!TypeOK, System!loopVars, System!Packets,
            System!Addresses, System!Buffers, CacheIsOurs, System!CacheIsOurs, HeaderInv,
            System!NoHeader, TreatedAlike
<1>1. CacheIsOurs'
    BY DEF System!Release
<1>2. QED
    BY <1>1, SystemStep DEF System!Release, SystemMoves

LEMMA SystemWriteBackInv ==
    ASSUME DeviceInv, SystemMoves, NEW b \in System!Buffers, NEW addr \in Peers \cup {NoAddr},
           System!WriteBack(b, addr)
    PROVE  DeviceInv'
<1> DEFINE from == IF addr = NoAddr THEN origin[b].destination ELSE addr
<1>1. newHeader \in [System!Buffers -> [source : System!Addresses, destination : Apps \cup {NoAddr}]]
      /\ origin[b].source \in Apps /\ origin[b].destination \in Peers
    BY DEF DeviceInv, DeviceTypes, System!TypeOK, System!Packets
<1>2. from \in Peers
    BY <1>1
<1>3. newHeader[b].destination = origin[b].source
    BY DEF System!WriteBack, DeviceInv, HeaderInv
<1>4. newHeader' = [newHeader EXCEPT ![b].source = from]
      /\ answer' = [from |-> from, to |-> origin[b].source, peer |-> from, app |-> origin[b].source]
      /\ UNCHANGED <<loop, packet, cache, owner, origin, discardIPv6, verdict>>
    BY <1>3 DEF System!WriteBack, System!loopVars, System!bufferVars
<1> HIDE DEF from
<1>5. newHeader' \in [System!Buffers -> [source : System!Addresses, destination : Apps \cup {NoAddr}]]
    BY <1>1, <1>2, <1>4 DEF System!Addresses
<1>6. answer' \in [from : System!Addresses, to : System!Addresses,
                   peer : Peers \cup {NoAddr}, app : Apps \cup {NoAddr}]
    BY <1>1, <1>2, <1>4 DEF System!Addresses
<1>7. System!TypeOK'
    BY <1>4, <1>5, <1>6
       DEF DeviceInv, DeviceTypes, System!TypeOK, System!Packets, System!Addresses, System!Buffers
<1>8. \A c \in System!Buffers : newHeader'[c].destination = newHeader[c].destination
                               /\ (c # b => newHeader'[c] = newHeader[c])
    BY <1>1, <1>4
<1>9. HeaderInv'
    BY <1>3, <1>4, <1>8 DEF DeviceInv, HeaderInv, System!Buffers, System!NoHeader
<1>10. CacheIsOurs'
    BY <1>4 DEF DeviceInv, CacheIsOurs, System!CacheIsOurs
<1>11. QED
    BY <1>4, <1>7, <1>9, <1>10, SystemStep DEF DeviceInv, TreatedAlike, SystemMoves

LEMMA SystemNextInv == ASSUME DeviceInv, SystemMoves, System!Next PROVE DeviceInv'
BY DeliverInv, ProcessUDPInv, DiscardUDPInv, SystemReadInv, ReleaseInv, SystemWriteBackInv
   DEF System!Next

-----------------------------------------------------------------------------
(* The gvisor tun.                                                          *)

GVisorMoves == implementation = "gvisor" /\ UNCHANGED <<implementation, systemVars>>

(* It leaves the variables of the system tun alone. *)
LEMMA GVisorStep ==
    ASSUME DeviceInv, GVisorMoves, GVisor!TypeOK', IsFiniteSet(GVisor!InFlight'), PassedInv', TreatedAlike',
           answer' \in [from : System!Addresses, to : System!Addresses,
                        peer : Peers \cup {NoAddr}, app : Apps \cup {NoAddr}]
    PROVE  DeviceInv'
<1>1. discardIPv6' \in BOOLEAN /\ verdict' \in Outcomes
    BY SameFilter DEF GVisor!TypeOK, Outcomes
<1>2. System!TypeOK'
    BY <1>1, SameFilter
       DEF DeviceInv, DeviceTypes, GVisorMoves, systemVars, System!TypeOK, System!Packets,
           System!Addresses, System!Buffers, Outcomes
<1>3. CacheIsOurs' /\ HeaderInv'
    BY DEF DeviceInv, GVisorMoves, systemVars, CacheIsOurs, System!CacheIsOurs, HeaderInv,
           System!Buffers, System!NoHeader
<1>4. QED
    BY <1>2, <1>3 DEF DeviceInv, DeviceTypes, GVisorMoves

(* Steps that start no request. *)
LEMMA InFlightShrinks ==
    ASSUME DeviceInv, request' \in [Requests -> {"none", "asked", "created", "failed", "completed", "dropped"}],
           GVisor!InFlight' \subseteq GVisor!InFlight
    PROVE  /\ IsFiniteSet(GVisor!InFlight')
           /\ GVisor!Cardinality(GVisor!InFlight') <= MaxInFlight
<1>1. /\ IsFiniteSet(GVisor!InFlight) /\ Cardinality(GVisor!InFlight) <= MaxInFlight
    BY SameCardinality DEF DeviceInv, DeviceTypes, GVisor!TypeOK
<1>2. /\ IsFiniteSet(GVisor!InFlight')
      /\ Cardinality(GVisor!InFlight') <= Cardinality(GVisor!InFlight)
    BY <1>1, FS_Subset
<1>3. Cardinality(GVisor!InFlight) \in Nat /\ Cardinality(GVisor!InFlight') \in Nat
    BY <1>1, <1>2, FS_CardinalityType
<1>4. QED
    BY <1>1, <1>2, <1>3, SameCardinality, RequestAssumption

RequestStates == {"none", "asked", "created", "failed", "completed", "dropped"}
Answers == [from : System!Addresses, to : System!Addresses,
            peer : Peers \cup {NoAddr}, app : Apps \cup {NoAddr}]

(* Steps that neither start a request nor touch the one of another step, nor *)
(* call the dispatcher.                                                      *)
LEMMA QuietStep ==
    ASSUME DeviceInv, GVisorMoves, PassedInv', TreatedAlike',
           UNCHANGED <<request, handed>>, current' \in GVisor!Packets,
           stage' \in {"read", "filter", "load", "call", "stopped"}, local' \in BOOLEAN, attached' \in BOOLEAN,
           discardIPv6' \in BOOLEAN, read6' \in BOOLEAN,
           closing' \in {"no", "detached", "stopped", "done"}, verdict' \in Outcomes, answer' = answer,
           nilCalled' \in BOOLEAN
    PROVE  DeviceInv'
<1>1. answer' \in Answers
    BY DEF DeviceInv, DeviceTypes, System!TypeOK, Answers
<1>2. IsFiniteSet(GVisor!InFlight') /\ GVisor!Cardinality(GVisor!InFlight') <= MaxInFlight
    BY InFlightShrinks DEF GVisor!InFlight, DeviceInv, DeviceTypes, GVisor!TypeOK
<1>3. GVisor!TypeOK'
    BY <1>2, SameFilter, SameCardinality
       DEF DeviceInv, DeviceTypes, GVisor!TypeOK, GVisor!Packets, GVisor!NoRequest, Outcomes
<1>4. QED
    BY <1>1, <1>2, <1>3, GVisorStep DEF Answers

LEMMA GVisorFacts ==
    ASSUME DeviceInv
    PROVE  /\ stage \in {"read", "filter", "load", "call", "stopped"} /\ current \in GVisor!Packets
           /\ current.version \in Versions /\ current.proto \in Protocols
           /\ current.source \in Apps /\ current.destination \in Peers /\ current.cut \in BOOLEAN
           /\ local \in BOOLEAN /\ attached \in BOOLEAN /\ discardIPv6 \in BOOLEAN /\ read6 \in BOOLEAN
           /\ handed \subseteq GVisor!Packets /\ request \in [Requests -> RequestStates]
           /\ closing \in {"no", "detached", "stopped", "done"} /\ nilCalled = FALSE
           /\ verdict \in Outcomes /\ answer \in Answers
<1>1. GVisor!TypeOK /\ System!TypeOK /\ PassedInv
    BY DEF DeviceInv, DeviceTypes
<1>2. current.version \in Versions /\ current.proto \in Protocols
      /\ current.source \in Apps /\ current.destination \in Peers /\ current.cut \in BOOLEAN
    BY <1>1, SameFilter DEF GVisor!TypeOK, GVisor!Packets
<1>3. answer \in Answers
    BY <1>1 DEF System!TypeOK, Answers
<1>4. QED
    BY <1>1, <1>2, <1>3, SameFilter DEF GVisor!TypeOK, RequestStates, Outcomes, PassedInv

LEMMA GVisorReadInv ==
    ASSUME DeviceInv, GVisorMoves, GVisor!NetworkChanges \/ \E p \in GVisor!Packets : GVisor!Read(p)
    PROVE  DeviceInv'
<1>1. CASE GVisor!NetworkChanges
    <2>1. PassedInv' /\ TreatedAlike'
        BY <1>1 DEF DeviceInv, PassedInv, TreatedAlike, GVisor!NetworkChanges, GVisor!Filtered, GVisorMoves
    <2>2. QED
        BY <1>1, <2>1, GVisorFacts, QuietStep DEF GVisor!NetworkChanges
<1>2. CASE \E p \in GVisor!Packets : GVisor!Read(p)
    <2>1. PICK p \in GVisor!Packets : GVisor!Read(p)
        BY <1>2
    <2>2. verdict' = Undecided /\ Undecided \in Outcomes
        BY <2>1, SameFilter DEF GVisor!Read, Undecided, Outcomes, Versions, Protocols
    <2>3. PassedInv' /\ TreatedAlike'
        BY <2>1, <2>2
           DEF DeviceInv, PassedInv, TreatedAlike, GVisor!Read, GVisorMoves, Undecided, Wanted, IsICMP
    <2>4. QED
        BY <2>1, <2>2, <2>3, GVisorFacts, QuietStep DEF GVisor!Read
<1>3. QED
    BY <1>1, <1>2

(* The filter drops what the reference drops and remembers that it passed    *)
(* what it passed.                                                           *)
LEMMA FilterInv == ASSUME DeviceInv, GVisorMoves, GVisor!Filter PROVE DeviceInv'
<1>1. read6' = (current.version = 6 /\ discardIPv6) /\ read6' \in BOOLEAN
    BY DEF GVisor!Filter
<1>2. CASE GVisor!Filtered(read6')
    <2>1. stage' = "read" /\ verdict' = [version |-> current.version, proto |-> current.proto,
                                        cut |-> current.cut, discard6 |-> read6', is |-> "drop"]
        BY <1>2 DEF GVisor!Filter, GVisor!Verdict
    <2>2. Wanted(current.version, current.proto, read6', DiscardICMP["gvisor"]) = "drop"
        BY <1>2, SameFilter DEF GVisor!Filtered, Wanted
    <2>3. PassedInv' /\ TreatedAlike'
        BY <1>1, <2>1, <2>2 DEF DeviceInv, PassedInv, TreatedAlike, GVisor!Filter, GVisorMoves
    <2>4. verdict' \in Outcomes
        BY <1>1, <2>1, GVisorFacts DEF Outcomes
    <2>5. QED
        BY <1>1, <2>1, <2>3, <2>4, GVisorFacts, QuietStep DEF GVisor!Filter
<1>3. CASE ~GVisor!Filtered(read6')
    <2>1. stage' = "load" /\ verdict' = verdict
        BY <1>3 DEF GVisor!Filter
    <2>2. PassedInv' /\ TreatedAlike'
        BY <1>1, <1>3, <2>1
           DEF DeviceInv, PassedInv, TreatedAlike, GVisor!Filter, GVisor!Filtered, GVisorMoves
    <2>3. QED
        BY <1>1, <2>1, <2>2, GVisorFacts, QuietStep DEF GVisor!Filter
<1>4. QED
    BY <1>2, <1>3

LEMMA LoadInv == ASSUME DeviceInv, GVisorMoves, GVisor!Load PROVE DeviceInv'
<1>1. PassedInv' /\ TreatedAlike'
    BY GVisorFacts
       DEF DeviceInv, PassedInv, TreatedAlike, GVisor!Load, GVisor!Filtered, GVisorMoves
<1>2. QED
    BY <1>1, GVisorFacts, QuietStep DEF GVisor!Load

LEMMA CloseInvs ==
    ASSUME DeviceInv, GVisorMoves, GVisor!Detach \/ GVisor!StopDispatch \/ GVisor!StackClose
    PROVE  DeviceInv'
<1>1. PassedInv' /\ TreatedAlike'
    BY GVisorFacts
       DEF DeviceInv, PassedInv, TreatedAlike, GVisor!Detach, GVisor!StopDispatch, GVisor!StackClose,
           GVisor!Filtered, GVisorMoves
<1>2. QED
    BY <1>1, GVisorFacts, QuietStep DEF GVisor!Detach, GVisor!StopDispatch, GVisor!StackClose

(* Sessions, and the requests that the forwarder works on. *)
LEMMA SessionInv ==
    ASSUME DeviceInv, GVisorMoves, NEW d \in handed,
           GVisor!SessionEnds(d) \/ \E addr \in Peers \cup {NoAddr} : GVisor!WriteBack(d, addr)
    PROVE  DeviceInv'
<1>1. d.source \in Apps /\ d.destination \in Peers
    BY GVisorFacts DEF GVisor!Packets
<1>2. UNCHANGED <<stage, current, local, attached, discardIPv6, read6, request, closing, nilCalled, verdict>>
      /\ handed' \subseteq handed
    BY DEF GVisor!SessionEnds, GVisor!WriteBack
<1>3. answer' \in Answers /\ answer'.from = answer'.peer /\ answer'.to = answer'.app
    <2>1. CASE GVisor!SessionEnds(d)
        BY <2>1, GVisorFacts DEF GVisor!SessionEnds, DeviceInv, TreatedAlike
    <2>2. ASSUME NEW addr \in Peers \cup {NoAddr}, GVisor!WriteBack(d, addr)
          PROVE  answer' \in Answers /\ answer'.from = answer'.peer /\ answer'.to = answer'.app
        <3>1. (IF addr = NoAddr THEN d.destination ELSE addr) \in Peers
            BY <1>1
        <3>2. QED
            BY <1>1, <2>2, <3>1 DEF GVisor!WriteBack, Answers, System!Addresses
    <2>3. QED
        BY <2>1, <2>2
<1>4. PassedInv' /\ TreatedAlike'
    BY <1>2, <1>3 DEF DeviceInv, PassedInv, TreatedAlike, GVisor!Filtered, GVisorMoves
<1>5. IsFiniteSet(GVisor!InFlight') /\ GVisor!Cardinality(GVisor!InFlight') <= MaxInFlight
    BY <1>2, InFlightShrinks DEF GVisor!InFlight, DeviceInv, DeviceTypes, GVisor!TypeOK
<1>6. GVisor!TypeOK'
    BY <1>2, <1>5, SameCardinality
       DEF DeviceInv, DeviceTypes, GVisor!TypeOK, GVisor!Packets, GVisor!NoRequest, GVisor!InFlight
<1>7. QED
    BY <1>3, <1>4, <1>5, <1>6, GVisorStep DEF Answers

LEMMA ForwardInv ==
    ASSUME DeviceInv, GVisorMoves, NEW r \in Requests, GVisor!Forward(r)
    PROVE  DeviceInv'
<1> USE DEF GVisor!Forward, GVisor!CreateEndpoint, GVisor!CreateFails, GVisor!Complete
<1>1. UNCHANGED <<stage, current, local, attached, discardIPv6, read6, handed, answer, closing, nilCalled,
                verdict>>
    OBVIOUS
<1>2. request' \in [Requests -> RequestStates] /\ GVisor!InFlight' \subseteq GVisor!InFlight
    BY GVisorFacts DEF RequestStates, GVisor!InFlight
<1>3. PassedInv' /\ TreatedAlike'
    BY <1>1 DEF DeviceInv, PassedInv, TreatedAlike, GVisor!Filtered, GVisorMoves
<1>4. IsFiniteSet(GVisor!InFlight') /\ GVisor!Cardinality(GVisor!InFlight') <= MaxInFlight
    BY <1>2, InFlightShrinks DEF RequestStates
<1>5. GVisor!TypeOK'
    BY <1>1, <1>2, <1>4, SameCardinality
       DEF DeviceInv, DeviceTypes, GVisor!TypeOK, GVisor!Packets, GVisor!NoRequest, RequestStates
<1>6. QED
    BY <1>1, <1>3, <1>4, <1>5, GVisorStep, GVisorFacts DEF Answers

(* A request is taken only while fewer than MaxInFlight are in flight. *)
LEMMA RequestTaken ==
    ASSUME DeviceInv, GVisor!StackTCP
    PROVE  /\ request' \in [Requests -> RequestStates]
           /\ IsFiniteSet(GVisor!InFlight') /\ GVisor!Cardinality(GVisor!InFlight') <= MaxInFlight
<1>1. CASE request' = request
    BY <1>1, InFlightShrinks, GVisorFacts DEF GVisor!InFlight, RequestStates
<1>2. CASE request' # request
    <2>1. PICK r \in Requests : request[r] = "none" /\
              request' = [request EXCEPT ![r] = IF GVisor!Admits THEN "asked" ELSE "dropped"]
        BY <1>2, GVisorFacts DEF GVisor!StackTCP, GVisor!Packets, GVisor!NoRequest
    <2>2. request' \in [Requests -> RequestStates]
        BY <2>1, GVisorFacts DEF RequestStates
    <2>3. CASE ~GVisor!Admits
        <3>1. GVisor!InFlight' \subseteq GVisor!InFlight
            BY <2>1, <2>3, GVisorFacts DEF GVisor!InFlight
        <3>2. QED
            BY <2>2, <3>1, InFlightShrinks DEF RequestStates
    <2>4. CASE GVisor!Admits
        <3>1. GVisor!InFlight' = GVisor!InFlight \cup {r} /\ r \notin GVisor!InFlight
            BY <2>1, <2>4, GVisorFacts DEF GVisor!InFlight
        <3>2. IsFiniteSet(GVisor!InFlight) /\ Cardinality(GVisor!InFlight) < MaxInFlight
            BY <2>4, SameCardinality DEF GVisor!Admits, DeviceInv, DeviceTypes
        <3>3. IsFiniteSet(GVisor!InFlight')
              /\ Cardinality(GVisor!InFlight') = Cardinality(GVisor!InFlight) + 1
            BY <3>1, <3>2, FS_AddElement
        <3>4. Cardinality(GVisor!InFlight) \in Nat
            BY <3>2, FS_CardinalityType
        <3>5. QED
            BY <2>2, <3>2, <3>3, <3>4, SameCardinality, RequestAssumption
    <2>5. QED
        BY <2>3, <2>4
<1>3. QED
    BY <1>1, <1>2

(* What the stack makes of a packet that has passed the filter: what the    *)
(* reference says, but for the two exceptions.                              *)
LEMMA StackDecides ==
    ASSUME DeviceInv, GVisorMoves, GVisor!Call
    PROVE  verdict' \in Outcomes /\ verdict'.is =
               IF (verdict'.version = 6 /\ ~EnableIPv6) \/ verdict'.cut THEN "drop"
               ELSE Wanted(verdict'.version, verdict'.proto, verdict'.discard6, DiscardICMP["gvisor"])
<1>1. stage = "call" /\ ~GVisor!Filtered(read6) /\ (read6 => current.version = 6)
    BY DEF DeviceInv, PassedInv, GVisor!Call
<1>2. ~(current.version = 6 /\ read6) /\ ~(IsICMP(current.proto) /\ DiscardICMP["gvisor"])
    BY <1>1, SameFilter, GVisorFacts DEF GVisor!Filtered, Versions
<1>3. current.cut => current.proto = "udp"
    BY DEF DeviceInv, PassedInv
<1>4. ASSUME NEW v \in {"connection", "packet", "reply", "drop"}, GVisor!Verdict(v)
      PROVE  /\ verdict' \in Outcomes /\ verdict'.is = v /\ verdict'.cut = current.cut
             /\ verdict'.version = current.version /\ verdict'.proto = current.proto
             /\ verdict'.discard6 = read6
    BY <1>4, GVisorFacts DEF GVisor!Verdict, GVisor!Call, Outcomes
<1>5. GVisor!Known <=> ~(current.version = 6 /\ ~EnableIPv6)
    BY GVisorFacts DEF GVisor!Known, Versions
<1>6. CASE GVisor!StackTCP
    BY <1>2, <1>3, <1>4, <1>5, <1>6 DEF GVisor!StackTCP, Wanted, IsICMP
<1>7. CASE GVisor!StackDropsUDP
    BY <1>4, <1>7 DEF GVisor!StackDropsUDP
<1>8. CASE GVisor!StackUDP
    BY <1>2, <1>4, <1>5, <1>8 DEF GVisor!StackUDP, Wanted, IsICMP
<1>9. CASE GVisor!StackOther
    <2>1. CASE GVisor!Known /\ current.proto = "echo"
        BY <1>2, <1>3, <1>4, <1>5, <1>9, <2>1 DEF GVisor!StackOther, Wanted, IsICMP
    <2>2. CASE ~GVisor!Known
        BY <1>4, <1>5, <1>9, <2>2 DEF GVisor!StackOther
    <2>3. CASE GVisor!Known /\ current.proto \in {"icmp", "other"}
        BY <1>2, <1>3, <1>4, <1>5, <1>9, <2>3 DEF GVisor!StackOther, Wanted, IsICMP
    <2>4. QED
        BY <1>9, <2>1, <2>2, <2>3, GVisorFacts DEF GVisor!StackOther, Protocols
<1>10. QED
    BY <1>6, <1>7, <1>8, <1>9 DEF GVisor!Call

(* The dispatcher that is called is not nil. *)
LEMMA CallInv == ASSUME DeviceInv, GVisorMoves, GVisor!Call PROVE DeviceInv'
<1>1. stage = "call" /\ local
    BY DEF DeviceInv, PassedInv, GVisor!Call
<1>2. nilCalled' = FALSE /\ stage' = "read"
      /\ UNCHANGED <<current, local, attached, discardIPv6, read6, answer, closing>>
    BY <1>1, GVisorFacts DEF GVisor!Call
<1>3. PassedInv'
    BY <1>2 DEF DeviceInv, PassedInv
<1>4. TreatedAlike'
    BY <1>2, StackDecides DEF DeviceInv, TreatedAlike, GVisorMoves
<1>5. handed' \subseteq GVisor!Packets
    BY GVisorFacts
       DEF GVisor!Call, GVisor!StackTCP, GVisor!StackDropsUDP, GVisor!StackUDP, GVisor!StackOther
<1>6. request' \in [Requests -> RequestStates]
      /\ IsFiniteSet(GVisor!InFlight') /\ GVisor!Cardinality(GVisor!InFlight') <= MaxInFlight
    <2>1. CASE request' = request
        BY <2>1, InFlightShrinks, GVisorFacts DEF GVisor!InFlight, RequestStates
    <2>2. QED
        BY <2>1, RequestTaken DEF GVisor!Call, GVisor!StackDropsUDP, GVisor!StackUDP, GVisor!StackOther
<1>7. GVisor!TypeOK'
    BY <1>2, <1>5, <1>6, StackDecides, GVisorFacts, SameFilter, SameCardinality
       DEF GVisor!TypeOK, GVisor!Packets, GVisor!NoRequest, RequestStates
<1>8. QED
    BY <1>2, <1>3, <1>4, <1>6, <1>7, GVisorStep, GVisorFacts DEF Answers

LEMMA GVisorNextInv == ASSUME DeviceInv, GVisorMoves, GVisor!Next PROVE DeviceInv'
BY GVisorReadInv, FilterInv, LoadInv, CallInv, ForwardInv, SessionInv, CloseInvs
   DEF GVisor!Next, GVisor!Dispatch

-----------------------------------------------------------------------------
(* The theorems about the device. *)
LEMMA DeviceNextInv == DeviceInv /\ [DeviceNext]_deviceVars => DeviceInv'
<1> SUFFICES ASSUME DeviceInv, [DeviceNext]_deviceVars PROVE DeviceInv'
    OBVIOUS
<1>1. CASE implementation = "system" /\ System!Next /\ UNCHANGED <<implementation, gvisorVars>>
    BY <1>1, SystemNextInv DEF SystemMoves
<1>2. CASE implementation = "gvisor" /\ GVisor!Next /\ UNCHANGED <<implementation, systemVars>>
    BY <1>2, GVisorNextInv DEF GVisorMoves
<1>3. CASE UNCHANGED deviceVars
    <2>1. UNCHANGED <<System!TypeOK, GVisor!TypeOK, GVisor!InFlight>>
        BY <1>3 DEF deviceVars, systemVars, gvisorVars, System!TypeOK, GVisor!TypeOK, GVisor!InFlight,
                    System!Packets, GVisor!Packets, System!Buffers, System!Addresses, GVisor!NoRequest
    <2>2. QED
        BY <1>3, <2>1
           DEF deviceVars, systemVars, gvisorVars, DeviceInv, DeviceTypes, CacheIsOurs, System!CacheIsOurs,
               HeaderInv, System!Buffers, System!NoHeader, PassedInv, GVisor!Filtered, TreatedAlike
<1>4. QED
    BY <1>1, <1>2, <1>3 DEF DeviceNext

LEMMA DeviceInvariance == DeviceSpec => []DeviceInv
BY DeviceInitInv, DeviceNextInv, PTL DEF DeviceSpec

(* The variables of both implementations keep their types, and the TCP       *)
(* forwarder of gvisor (tcp.NewForwarder, gvisor/tcp.go) never holds more    *)
(* requests than MaxInFlight.                                               *)
THEOREM DeviceTypeCorrect == DeviceSpec => [](System!TypeOK /\ GVisor!TypeOK)
<1>1. DeviceInv => System!TypeOK /\ GVisor!TypeOK
    BY DEF DeviceInv, DeviceTypes
<1>2. QED
    BY <1>1, DeviceInvariance, PTL

(* The dispatch loop of the system tun (nat.go:66-92) only ever reads into,  *)
(* and releases, a buffer that it has neither handed over nor released.      *)
THEOREM CacheAlwaysOurs == DeviceSpec => []CacheIsOurs
<1>1. DeviceInv => CacheIsOurs
    BY DEF DeviceInv
<1>2. QED
    BY <1>1, DeviceInvariance, PTL

(* Whichever implementation a tun has, a packet is treated as PacketFilter    *)
(* says for the discardIPv6 of the moment; only gvisor's drops IPv6 if its   *)
(* stack has none, and a datagram whose UDP header says more than arrived    *)
(* (gvisor/udp.go:41).  And an answer reaches the app whose packet caused    *)
(* it, from the peer's address.                                              *)
THEOREM AlwaysTreatedAlike == DeviceSpec => []TreatedAlike
<1>1. DeviceInv => TreatedAlike
    BY DEF DeviceInv
<1>2. QED
    BY <1>1, DeviceInvariance, PTL

(* A dispatcher that GVisor.Close sets to nil during a delivery is not       *)
(* called (endpoint.go:74-79).                                               *)
THEOREM NilNeverDispatched == DeviceSpec => []NoNilDispatch
<1>1. DeviceInv => NoNilDispatch
    BY DEF DeviceInv, PassedInv, NoNilDispatch, GVisor!NoNilDispatch
<1>2. QED
    BY <1>1, DeviceInvariance, PTL
=============================================================================
