------------------------- MODULE SsrOutboundProofs -------------------------
(***************************************************************************)
(* The ids of the connections of a shadowsocksr outbound are unique for    *)
(* any number of handlers and connections, any threshold, and whatever     *)
(* connection ids are drawn with a new client id; and a datagram is padded *)
(* as its own seed says, unless it met another one.  Behind them, that the *)
(* two directions of a connection are Pipes, for the plugins that pass     *)
(* bytes on: no TLS, and the protocol origin.                              *)
(***************************************************************************)
EXTENDS SsrOutbound, SequenceTheorems, WellFoundedInduction, TLAPS

(* An outbound's protocol instance moves as SsrShared says, whatever its    *)
(* connection does beside it.                                               *)
THEOREM OutboundHasShared == OutboundSpec => SharedSpec
<1>1. OutboundInit => SharedInit
    BY DEF OutboundInit
<1>2. [OutboundNext]_all => [SharedNext]_sharedVars
    <2>1. ASSUME Connection(Next) PROVE UNCHANGED sharedVars
        BY <2>1 DEF Connection
    <2>2. ASSUME Instance(SharedNext) PROVE SharedNext
        BY <2>2 DEF Instance
    <2>3. ASSUME UNCHANGED all PROVE UNCHANGED sharedVars
        BY <2>3 DEF all
    <2> QED BY <2>1, <2>2, <2>3 DEF OutboundNext
<1> QED BY <1>1, <1>2, PTL DEF OutboundSpec, SharedSpec

-----------------------------------------------------------------------------
(* The ids. *)

Critical == {"renew", "increment", "copy"}
Elsewhere == {"idle", "lock", "encode", "decode", "drawEncode", "drawDecode"}

IdType ==
    /\ handlerPc \in [Handlers -> Critical \cup Elsewhere]
    /\ clientID \in Nat
    /\ connectionID \in Nat
    /\ \A a \in issued : a.client \in Nat /\ a.id \in Nat

(* Only the holder of the mutex is between the statements of next. *)
Excluded == \A h \in Handlers : handlerPc[h] \in Critical => mutex = {h}

(* What was issued under the present client id lies below connectionID, and *)
(* strictly below it between the increment and the copy.                    *)
IssuedBelow ==
    \A a \in issued :
        /\ a.client <= clientID
        /\ a.client = clientID => a.id <= connectionID
        /\ a.client = clientID =>
             \A h \in Handlers : handlerPc[h] = "copy" => a.id < connectionID

IdInv == IdType /\ Excluded /\ IssuedBelow /\ IdsAreUnique

(* The steps that take no part in next leave the ids alone. *)
LEMMA OtherSteps ==
    ASSUME IdInv, NEW h \in Handlers, NEW label \in Elsewhere,
           handlerPc' = [handlerPc EXCEPT ![h] = label],
           handlerPc[h] \notin Critical,
           UNCHANGED <<mutex, clientID, connectionID, issued>>
    PROVE  IdInv'
<1>1. IdType'
    BY DEF IdInv, IdType, Critical, Elsewhere
<1>2. Excluded'
    BY DEF IdInv, IdType, Excluded, Critical, Elsewhere
<1>3. IssuedBelow'
    BY DEF IdInv, IdType, IssuedBelow, Critical, Elsewhere
<1>4. IdsAreUnique'
    BY DEF IdInv, IdsAreUnique
<1> QED BY <1>1, <1>2, <1>3, <1>4 DEF IdInv

LEMMA IdInvInit == SharedInit => IdInv
<1> SUFFICES ASSUME SharedInit PROVE IdInv
    OBVIOUS
<1>1. IdType
    BY DEF SharedInit, IdType, Elsewhere, Critical
<1>2. Excluded
    BY DEF SharedInit, Excluded, Critical
<1>3. IssuedBelow /\ IdsAreUnique
    BY DEF SharedInit, IssuedBelow, IdsAreUnique
<1> QED BY <1>1, <1>2, <1>3 DEF IdInv

LEMMA IdInvStep ==
    ASSUME Starts \subseteq Nat, IdInv, [SharedNext]_sharedVars
    PROVE  IdInv'
<1>1. ASSUME NEW h \in Handlers, TakeJob(h)
      PROVE  IdInv'
    <2>1. PICK label \in {"lock"} \cup Uses : Goto(h, label)
        BY <1>1 DEF TakeJob
    <2>2. label \in Elsewhere
        BY DEF Uses, Elsewhere
    <2> QED BY <1>1, <2>1, <2>2, OtherSteps DEF TakeJob, Goto, Critical
<1>2. ASSUME NEW h \in Handlers, Lock(h)
      PROVE  IdInv'
    <2>1. IdType' /\ IdsAreUnique'
        BY <1>2 DEF Lock, Goto, AuthStep, IdInv, IdType, IdsAreUnique, Critical, Elsewhere
    <2>2. Excluded'
        BY <1>2 DEF Lock, Goto, IdInv, IdType, Excluded, Critical, Elsewhere
    <2>3. IssuedBelow'
        BY <1>2 DEF Lock, Goto, AuthStep, IdInv, IdType, IssuedBelow, Critical, Elsewhere
    <2> QED BY <2>1, <2>2, <2>3 DEF IdInv
<1>3. ASSUME NEW h \in Handlers, Renew(h)
      PROVE  IdInv'
    <2>0. clientID' \in Nat /\ connectionID' \in Nat
        <3>1. CASE connectionID > Threshold \/ connectionID = 0
            <4>1. clientID' = clientID + 1 /\ connectionID' \in Starts
                BY <1>3, <3>1, Zenon DEF Renew
            <4> QED BY <4>1 DEF IdInv, IdType
        <3>2. CASE ~(connectionID > Threshold \/ connectionID = 0)
            <4>1. clientID' = clientID /\ connectionID' = connectionID
                BY <1>3, <3>2, Zenon DEF Renew
            <4> QED BY <4>1 DEF IdInv, IdType
        <3> QED BY <3>1, <3>2
    <2>1. IdType'
        BY <1>3, <2>0 DEF Renew, Goto, IdInv, IdType, Critical, Elsewhere
    <2>2. Excluded'
        BY <1>3 DEF Renew, Goto, IdInv, IdType, Excluded, Critical, Elsewhere
    <2>3. \A i \in Handlers : handlerPc'[i] # "copy"
        BY <1>3 DEF Renew, Goto, IdInv, IdType, Excluded, Critical, Elsewhere
    <2>4. IssuedBelow'
        BY <1>3, <2>3 DEF Renew, Goto, AuthStep, IdInv, IdType, IssuedBelow, Critical, Elsewhere
    <2>5. IdsAreUnique'
        BY <1>3 DEF Renew, IdInv, IdsAreUnique
    <2> QED BY <2>1, <2>2, <2>4, <2>5 DEF IdInv
<1>4. ASSUME NEW h \in Handlers, Increment(h)
      PROVE  IdInv'
    <2>1. IdType' /\ IdsAreUnique'
        BY <1>4 DEF Increment, Goto, AuthStep, IdInv, IdType, IdsAreUnique, Critical, Elsewhere
    <2>2. Excluded'
        BY <1>4 DEF Increment, Goto, IdInv, IdType, Excluded, Critical, Elsewhere
    <2>3. IssuedBelow'
        BY <1>4 DEF Increment, Goto, AuthStep, IdInv, IdType, IssuedBelow, Critical, Elsewhere
    <2> QED BY <2>1, <2>2, <2>3 DEF IdInv
<1>5. ASSUME NEW h \in Handlers, CopyIDs(h)
      PROVE  IdInv'
    <2> DEFINE new == [conn |-> job[h], client |-> clientID, id |-> connectionID]
    <2>1. issued' = issued \cup {new}
        BY <1>5 DEF CopyIDs, Presented
    <2>2. IdType'
        BY <1>5, <2>1 DEF CopyIDs, Goto, AuthStep, IdInv, IdType, Critical, Elsewhere
    <2>3. \A i \in Handlers : handlerPc'[i] \notin Critical
        BY <1>5 DEF CopyIDs, Goto, IdInv, IdType, Excluded, Critical, Elsewhere
    <2>4. Excluded'
        BY <2>3 DEF Excluded
    <2>5. IssuedBelow'
        BY <1>5, <2>1, <2>3 DEF CopyIDs, IdInv, IdType, IssuedBelow, Critical, Elsewhere
    <2>6. \A a \in issued : a.client # clientID \/ a.id # connectionID
        BY <1>5 DEF CopyIDs, IdInv, IdType, IssuedBelow, Critical, Elsewhere
    <2>7. IdsAreUnique'
        BY <2>1, <2>6 DEF IdInv, IdsAreUnique
    <2> QED BY <2>2, <2>4, <2>5, <2>7 DEF IdInv
<1>6. ASSUME NEW h \in Handlers, NEW u \in Uses, Seed(h, u) \/ DrawLength(h, u)
      PROVE  IdInv'
    <2>1. /\ handlerPc[h] \notin Critical
          /\ UNCHANGED <<mutex, clientID, connectionID, issued>>
        BY <1>6 DEF Seed, DrawLength, DatagramStep, Draw, Uses, Critical
    <2>2. PICK label \in {"idle", "drawEncode", "drawDecode"} : Goto(h, label)
        BY <1>6 DEF Seed, DrawLength, Draw, Uses
    <2>3. label \in Elsewhere
        BY DEF Elsewhere
    <2> QED BY <2>1, <2>2, <2>3, OtherSteps DEF Goto
<1>7. ASSUME UNCHANGED sharedVars
      PROVE  IdInv'
    BY <1>7 DEF sharedVars, IdInv, IdType, Excluded, IssuedBelow, IdsAreUnique, Critical, Elsewhere
<1> QED BY <1>1, <1>2, <1>3, <1>4, <1>5, <1>6, <1>7 DEF SharedNext

(* next never hands the same client and connection ids to two connections.  *)
THEOREM IdsStayUnique == OutboundSpec => []IdsAreUnique
<1>1. IdInv /\ [SharedNext]_sharedVars => IdInv'
    BY StartsAssumption, IdInvStep
<1>2. IdInv => IdsAreUnique
    BY DEF IdInv
<1> QED BY OutboundHasShared, IdInvInit, <1>1, <1>2, PTL DEF SharedSpec

-----------------------------------------------------------------------------
(* The generators. *)

PadType ==
    /\ handlerPc \in [Handlers -> Critical \cup Elsewhere]
    /\ DOMAIN generator = Uses

(* Two handlers between seeding and drawing have met there. *)
MeetingsNoted ==
    \A u \in Uses : \A h, i \in Users(u) : h # i => job[h] \in overlapped

(* Otherwise the generator is as its datagram's seed left it. *)
SeedInPlace ==
    \A u \in Uses : \A h \in Users(u) :
        job[h] \in overlapped \/ generator[u] = [seed |-> job[h], drawn |-> 0]

PadInv == PadType /\ MeetingsNoted /\ SeedInPlace /\ PaddingAgrees

LEMMA PadInvInit == SharedInit => PadInv
<1> SUFFICES ASSUME SharedInit PROVE PadInv
    OBVIOUS
<1>1. PadType
    BY DEF SharedInit, PadType, Elsewhere
<1>2. \A u \in Uses : Users(u) = {}
    BY DEF SharedInit, Users, Draw, Uses
<1>3. MeetingsNoted /\ SeedInPlace /\ PaddingAgrees
    BY <1>2 DEF SharedInit, MeetingsNoted, SeedInPlace, PaddingAgrees
<1> QED BY <1>1, <1>3 DEF PadInv

(* A step that enters no draw changes nothing of this. *)
LEMMA OutsideDraws ==
    ASSUME PadInv, NEW h \in Handlers, NEW label \in Critical \cup {"idle", "lock", "encode", "decode"},
           handlerPc' = [handlerPc EXCEPT ![h] = label],
           \A i \in Handlers \ {h} : job'[i] = job[i],
           UNCHANGED <<generator, padded, overlapped>>
    PROVE  PadInv'
<1>1. PadType'
    BY DEF PadInv, PadType, Elsewhere
<1>2. \A u \in Uses : Users(u)' \subseteq Users(u) \ {h}
    BY DEF PadInv, PadType, Users, Draw, Uses, Critical
<1>3. \A u \in Uses : Users(u) \subseteq Handlers
    BY DEF Users
<1>4. MeetingsNoted'
    BY <1>2, <1>3 DEF PadInv, MeetingsNoted
<1>5. SeedInPlace'
    BY <1>2, <1>3 DEF PadInv, SeedInPlace
<1>6. PaddingAgrees'
    BY DEF PadInv, PaddingAgrees
<1> QED BY <1>1, <1>4, <1>5, <1>6 DEF PadInv

LEMMA PadInvStep ==
    ASSUME PadInv, [SharedNext]_sharedVars
    PROVE  PadInv'
<1>1. ASSUME NEW h \in Handlers,
             TakeJob(h) \/ Lock(h) \/ Renew(h) \/ Increment(h) \/ CopyIDs(h)
      PROVE  PadInv'
    <2>1. PICK label \in Critical \cup {"idle", "lock", "encode", "decode"} : Goto(h, label)
        BY <1>1 DEF TakeJob, Lock, Renew, Increment, CopyIDs, Uses, Critical
    <2>2. \A i \in Handlers \ {h} : job'[i] = job[i]
        <3>1. CASE TakeJob(h)
            BY <3>1 DEF TakeJob
        <3>2. CASE ~TakeJob(h)
            BY <1>1, <3>2 DEF Lock, Renew, Increment, CopyIDs, AuthStep
        <3> QED BY <3>1, <3>2
    <2>3. UNCHANGED <<generator, padded, overlapped>>
        BY <1>1 DEF TakeJob, Lock, Renew, Increment, CopyIDs, AuthStep
    <2> QED BY <2>1, <2>2, <2>3, OutsideDraws DEF Goto
<1>2. ASSUME NEW h \in Handlers, NEW u \in Uses, Seed(h, u)
      PROVE  PadInv'
    <2>1. PadType'
        BY <1>2 DEF Seed, Goto, Draw, Uses, PadInv, PadType, Elsewhere
    <2>2. /\ Users(u)' = Users(u) \cup {h}
          /\ \A v \in Uses \ {u} : Users(v)' = Users(v)
        BY <1>2 DEF Seed, Goto, Draw, Users, Uses, PadInv, PadType
    <2>3. /\ overlapped \subseteq overlapped'
          /\ Users(u) # {} => job[h] \in overlapped' /\ \A i \in Users(u) : job[i] \in overlapped'
          /\ job' = job
        BY <1>2 DEF Seed, DatagramStep
    <2>4. /\ generator'[u] = [seed |-> job[h], drawn |-> 0]
          /\ \A v \in Uses \ {u} : generator'[v] = generator[v]
        BY <1>2 DEF Seed, PadInv, PadType
    <2>5. MeetingsNoted'
        BY <2>2, <2>3 DEF PadInv, MeetingsNoted
    <2>6. SeedInPlace'
        BY <2>2, <2>3, <2>4 DEF PadInv, SeedInPlace
    <2>7. PaddingAgrees'
        BY <1>2, <2>3 DEF Seed, PadInv, PaddingAgrees
    <2> QED BY <2>1, <2>5, <2>6, <2>7 DEF PadInv
<1>3. ASSUME NEW h \in Handlers, NEW u \in Uses, DrawLength(h, u)
      PROVE  PadInv'
    <2>1. PadType'
        BY <1>3 DEF DrawLength, Goto, PadInv, PadType, Elsewhere
    <2>2. h \in Users(u)
        BY <1>3 DEF DrawLength, Users
    <2>3. /\ Users(u)' = Users(u) \ {h}
          /\ \A v \in Uses \ {u} : Users(v)' = Users(v)
        BY <1>3 DEF DrawLength, Goto, Draw, Users, Uses, PadInv, PadType
    <2>4. /\ job' = job
          /\ overlapped' = overlapped
          /\ \A v \in Uses \ {u} : generator'[v] = generator[v]
        BY <1>3 DEF DrawLength, DatagramStep, PadInv, PadType
    <2>5. MeetingsNoted'
        BY <2>3, <2>4 DEF PadInv, MeetingsNoted
    <2>6. \A i \in Users(u)' : job[i] \in overlapped
        BY <2>2, <2>3 DEF PadInv, MeetingsNoted
    <2>7. SeedInPlace'
        BY <2>3, <2>4, <2>6 DEF PadInv, SeedInPlace
    <2>8. PaddingAgrees'
        <3> DEFINE new == [packet |-> job[h], seed |-> generator[u].seed,
                           drawn |-> generator[u].drawn]
        <3>1. padded' = padded \cup {new}
            BY <1>3 DEF DrawLength
        <3>2. job[h] \in overlapped \/ generator[u] = [seed |-> job[h], drawn |-> 0]
            BY <2>2 DEF PadInv, SeedInPlace
        <3>3. new.packet \in overlapped \/ (new.seed = new.packet /\ new.drawn = 0)
            BY <3>2
        <3> QED BY <3>1, <3>3, <2>4 DEF PadInv, PaddingAgrees
    <2> QED BY <2>1, <2>5, <2>7, <2>8 DEF PadInv
<1>4. ASSUME UNCHANGED sharedVars
      PROVE  PadInv'
    BY <1>4 DEF sharedVars, PadInv, PadType, MeetingsNoted, SeedInPlace, PaddingAgrees, Users
<1> QED BY <1>1, <1>2, <1>3, <1>4 DEF SharedNext

(* A datagram handled while no other used the same generator is padded as   *)
(* its own seed says.                                                       *)
THEOREM PaddingAlwaysAgrees == OutboundSpec => []PaddingAgrees
<1>1. PadInv /\ [SharedNext]_sharedVars => PadInv'
    BY PadInvStep
<1>2. PadInv => PaddingAgrees
    BY DEF PadInv
<1> QED BY OutboundHasShared, PadInvInit, <1>1, <1>2, PTL DEF SharedSpec

-----------------------------------------------------------------------------
(* Sequences: induction with a set in the place of a predicate, and with it *)
(* what FlattenSeq is of one sequence more.                                 *)

LEMMA NatSetInduction ==
    ASSUME NEW G, 0 \in G, \A n \in Nat : n \in G => n + 1 \in G
    PROVE  \A n \in Nat : n \in G
<1> DEFINE R == OpToRel(<, Nat)
           Bad == {n \in Nat : n \notin G}
<1>1. SUFFICES ASSUME Bad # {} PROVE FALSE
    OBVIOUS
<1>2. IsWellFoundedOn(R, Nat)
    BY NatLessThanWellFounded, Zenon
<1>3. PICK m \in Bad : \A k \in Bad : ~(<<k, m>> \in R)
    <2>1. Bad \subseteq Nat
        OBVIOUS
    <2> HIDE DEF R, Bad
    <2>2. QED
        BY <1>1, <1>2, <2>1, WFMin
<1>4. m \in Nat /\ m # 0 /\ m \notin G
    OBVIOUS
<1>5. m - 1 \in Nat /\ m - 1 < m /\ (m - 1) + 1 = m
    BY <1>4
<1>6. m - 1 \notin Bad
    BY <1>3, <1>4, <1>5 DEF OpToRel
<1>7. m - 1 \in G
    BY <1>5, <1>6
<1>8. QED
    BY <1>4, <1>5, <1>7

FlatStep(s, f, i) == IF i = 1 THEN s[i] ELSE f[i - 1] \o s[i]
IsFlat(s, f, n) == f = [i \in 1..n |-> FlatStep(s, f, i)]

LEMMA FlattenUnfolds ==
    ASSUME NEW s
    PROVE  FlattenSeq(s) = IF Len(s) = 0 THEN s ELSE (CHOOSE f : IsFlat(s, f, Len(s)))[Len(s)]
BY DEF FlattenSeq, IsFlat, FlatStep

(* The recursion that defines FlattenSeq has a solution. *)
LEMMA FlatExists ==
    ASSUME NEW s, NEW n \in Nat
    PROVE  \E f : IsFlat(s, f, n)
<1> DEFINE G == {m \in Nat : \E f : IsFlat(s, f, m)}
<1>1. 0 \in G
    <2> DEFINE f == [i \in 1..0 |-> s[i]]
    <2>1. f = [i \in 1..0 |-> FlatStep(s, f, i)]
        OBVIOUS
    <2>2. QED
        BY <2>1 DEF IsFlat
<1>2. ASSUME NEW m \in Nat, m \in G
      PROVE  m + 1 \in G
    <2>1. PICK f : f = [i \in 1..m |-> FlatStep(s, f, i)]
        BY <1>2 DEF IsFlat
    <2> DEFINE h == [i \in 1 .. m + 1 |-> FlatStep(s, f, i)]
    <2>2. \A i \in 1..m : i \in 1 .. m + 1
        OBVIOUS
    <2>3. \A i \in 1..m : h[i] = f[i]
        BY <2>1, <2>2
    <2>4. \A i \in 1 .. m + 1 : i # 1 => i - 1 \in 1..m
        OBVIOUS
    <2>5. \A i \in 1 .. m + 1 : FlatStep(s, f, i) = FlatStep(s, h, i)
        BY <2>3, <2>4 DEF FlatStep
    <2>6. h = [i \in 1 .. m + 1 |-> FlatStep(s, h, i)]
        BY <2>5
    <2> HIDE DEF h
    <2>7. QED
        BY <2>6 DEF IsFlat
<1> HIDE DEF G
<1>3. n \in G
    BY <1>1, <1>2, NatSetInduction
<1>4. QED
    BY <1>3 DEF G

(* What the first n of M make up, one after the other. *)
Text(M, n) == FlattenSeq(SubSeq(M, 1, n))

LEMMA FlatSame ==
    ASSUME NEW s, NEW M, NEW n \in Nat, NEW f, NEW g, NEW m \in Nat, n <= m,
           \A i \in 1..n : s[i] = M[i], IsFlat(s, f, n), IsFlat(M, g, m)
    PROVE  \A i \in 1..n : f[i] = g[i]
<1> DEFINE G == {i \in Nat : i \in 1..n => f[i] = g[i]}
<1>0. \A i \in 1..n : f[i] = FlatStep(s, f, i)
    BY Zenon DEF IsFlat
<1>1. \A i \in 1..m : g[i] = FlatStep(M, g, i)
    BY Zenon DEF IsFlat
<1>2. 0 \in G
    OBVIOUS
<1>3. ASSUME NEW i \in Nat, i \in G
      PROVE  i + 1 \in G
    <2>1. SUFFICES ASSUME i + 1 \in 1..n PROVE f[i + 1] = g[i + 1]
        OBVIOUS
    <2>2. i + 1 \in 1..m /\ s[i + 1] = M[i + 1] /\ (i + 1) - 1 = i
        BY <2>1
    <2>3. i + 1 # 1 => f[i] = g[i]
        BY <1>3, <2>1
    <2>4. QED
        BY <1>0, <1>1, <2>1, <2>2, <2>3 DEF FlatStep
<1> HIDE DEF G
<1>4. \A i \in Nat : i \in G
    BY <1>2, <1>3, NatSetInduction
<1>5. QED
    BY <1>4 DEF G

LEMMA TextIs ==
    ASSUME NEW S, NEW M \in Seq(Seq(S))
    PROVE  /\ Text(M, 0) = <<>>
           /\ \A n \in 0 .. Len(M) : Text(M, n) \in Seq(S)
           /\ \A n \in Nat : n < Len(M) => Text(M, n + 1) = Text(M, n) \o M[n + 1]
<1> DEFINE l == Len(M)
<1>1. l \in Nat /\ \A i \in 1..l : M[i] \in Seq(S)
    BY LenProperties, ElementOfSeq
<1>2. PICK g : IsFlat(M, g, l)
    BY <1>1, FlatExists
<1> HIDE DEF l
<1>3. \A i \in 1..l : g[i] = IF i = 1 THEN M[i] ELSE g[i - 1] \o M[i]
    BY <1>2, Zenon DEF IsFlat, FlatStep
<1>4. ASSUME NEW n \in Nat, n <= l, n > 0
      PROVE  Text(M, n) = g[n]
    <2> DEFINE s == SubSeq(M, 1, n)
    <2>1. Len(s) = n /\ \A i \in 1..n : s[i] = M[i]
        <3>1. 1 \in Int /\ n \in Int /\ \A i \in 1..n : M[i] \in Seq(S)
            BY <1>1, <1>4
        <3>2. Len(s) = n - 1 + 1 /\ \A i \in 1 .. n - 1 + 1 : s[i] = M[1 + i - 1]
            BY <1>4, <3>1, SubSeqProperties
        <3>3. QED
            BY <3>2
    <2> HIDE DEF s
    <2>2. PICK f : f = CHOOSE h : IsFlat(s, h, n)
        OBVIOUS
    <2>3. IsFlat(s, f, n)
        BY <2>2, FlatExists, Zenon
    <2>4. \A i \in 1..n : f[i] = g[i]
        BY <1>1, <1>2, <1>4, <2>1, <2>3, FlatSame
    <2>5. FlattenSeq(s) = f[n]
        BY <1>4, <2>1, <2>2, FlattenUnfolds
    <2>6. n \in 1..n
        BY <1>4
    <2>7. QED
        BY <2>4, <2>5, <2>6 DEF Text, s
<1>5. Text(M, 0) = <<>>
    <2>1. SubSeq(M, 1, 0) = <<>> /\ Len(<<>>) = 0
        BY SubSeqEmpty
    <2>2. QED
        BY <2>1, FlattenUnfolds DEF Text
<1>6. \A n \in Nat : n < l => Text(M, n + 1) = Text(M, n) \o M[n + 1]
    <2> SUFFICES ASSUME NEW n \in Nat, n < l PROVE Text(M, n + 1) = Text(M, n) \o M[n + 1]
        OBVIOUS
    <2>1. n + 1 \in Nat /\ n + 1 <= l /\ n + 1 > 0 /\ n + 1 \in 1..l /\ (n + 1) - 1 = n
        BY <1>1
    <2>2. Text(M, n + 1) = g[n + 1]
        BY <1>4, <2>1
    <2>3. CASE n = 0
        <3>1. M[1] \in Seq(S) /\ g[1] = M[1]
            BY <1>1, <1>3, <2>1, <2>3
        <3>2. <<>> \o M[1] = M[1]
            BY <3>1, ConcatEmptySeq
        <3>3. QED
            BY <1>5, <2>2, <2>3, <3>1, <3>2
    <2>4. CASE n # 0
        <3>1. n <= l /\ n > 0 /\ n + 1 # 1
            BY <1>1, <2>4
        <3>2. Text(M, n) = g[n]
            BY <1>4, <3>1
        <3>3. QED
            BY <1>3, <2>1, <2>2, <3>1, <3>2
    <2>5. QED
        BY <2>3, <2>4
<1>7. \A n \in Nat : n <= l => Text(M, n) \in Seq(S)
    <2> DEFINE G == {n \in Nat : n <= l => Text(M, n) \in Seq(S)}
    <2>1. 0 \in G
        <3>1. <<>> \in Seq(S)
            OBVIOUS
        <3>2. QED
            BY <1>5, <3>1
    <2>2. ASSUME NEW n \in Nat, n \in G
          PROVE  n + 1 \in G
        <3>1. SUFFICES ASSUME n + 1 <= l PROVE Text(M, n + 1) \in Seq(S)
            OBVIOUS
        <3>2. n < l /\ n <= l /\ n + 1 \in 1..l
            BY <1>1, <3>1
        <3>3. Text(M, n) \in Seq(S) /\ M[n + 1] \in Seq(S)
            BY <1>1, <2>2, <3>2
        <3>4. Text(M, n) \o M[n + 1] \in Seq(S)
            BY <3>3, ConcatProperties
        <3>5. QED
            BY <1>6, <3>2, <3>4
    <2> HIDE DEF G
    <2>3. \A n \in Nat : n \in G
        BY <2>1, <2>2, NatSetInduction
    <2>4. QED
        BY <2>3 DEF G
<1>8. QED
    BY <1>1, <1>5, <1>6, <1>7 DEF l

(* Sequences cut in two. *)
LEMMA SplitSame ==
    ASSUME NEW S, NEW a \in Seq(S), NEW b \in Seq(S), NEW c \in Seq(S), NEW d \in Seq(S),
           a \o b = c \o d, Len(a) = Len(c)
    PROVE  a = c /\ b = d
<1>1. Len(a) \in Nat /\ Len(b) \in Nat
    BY LenProperties
<1>2. \A i \in 1 .. Len(a) : a[i] = c[i]
    <2> SUFFICES ASSUME NEW i \in 1 .. Len(a) PROVE a[i] = c[i]
        OBVIOUS
    <2>1. i \in 1 .. Len(a) + Len(b) /\ i \in 1 .. Len(c) + Len(d) /\ i <= Len(a) /\ i <= Len(c)
        BY <1>1, LenProperties
    <2>2. (a \o b)[i] = a[i]
        BY <2>1, ConcatProperties
    <2>3. (c \o d)[i] = c[i]
        BY <2>1, ConcatProperties
    <2>4. QED
        BY <2>2, <2>3
<1>3. a = c
    BY <1>2, SeqEqual
<1>4. QED
    BY <1>3, ConcatSimplifications

LEMMA TailMore ==
    ASSUME NEW S, NEW s \in Seq(S), NEW u \in Seq(S), s # <<>>
    PROVE  s \o u # <<>> /\ Tail(s \o u) = Tail(s) \o u
<1> DEFINE t == s \o u
<1>1. t \in Seq(S) /\ t # <<>>
    BY ConcatProperties, ConcatSimplifications
<1>2. \A x \in Seq(S) : x # <<>> => x = <<Head(x)>> \o Tail(x) /\ <<Head(x)>> \in Seq(S) /\ Tail(x) \in Seq(S)
                                    /\ Len(<<Head(x)>>) = 1
    <2> SUFFICES ASSUME NEW x \in Seq(S), x # <<>>
                 PROVE  x = <<Head(x)>> \o Tail(x) /\ <<Head(x)>> \in Seq(S) /\ Tail(x) \in Seq(S)
                        /\ Len(<<Head(x)>>) = 1
        OBVIOUS
    <2>1. Head(x) \in S /\ Tail(x) \in Seq(S)
        BY HeadTailProperties
    <2>2. 1 \in 1 .. Len(x) /\ Len(x) \in 1 .. Len(x) /\ Head(x) = x[1]
        <3>1. Len(x) \in Nat /\ Len(x) > 0
            BY EmptySeq
        <3>2. QED
            BY <3>1
    <2>3. SubSeq(x, 1, Len(x)) = <<x[1]>> \o SubSeq(x, 1 + 1, Len(x))
        BY <2>2, SubSeqRecursiveFirst
    <2>4. SubSeq(x, 1, Len(x)) = x /\ Tail(x) = SubSeq(x, 2, Len(x))
        BY SubSeqFull, TailIsSubSeq
    <2>5. x = <<Head(x)>> \o Tail(x)
        BY <2>2, <2>3, <2>4
    <2>6. QED
        BY <2>1, <2>5
<1>3. t = <<Head(s)>> \o (Tail(s) \o u)
    BY <1>2, ConcatAssociative
<1>4. t = <<Head(t)>> \o Tail(t) /\ Tail(s) \o u \in Seq(S) /\ Len(<<Head(s)>>) = Len(<<Head(t)>>)
    BY <1>1, <1>2, ConcatProperties
<1> HIDE DEF t
<1>5. Tail(t) = Tail(s) \o u
    BY <1>1, <1>2, <1>3, <1>4, SplitSame
<1>6. QED
    BY <1>1, <1>5 DEF t

LEMMA TakeDrop ==
    ASSUME NEW S, NEW s \in Seq(S), NEW n \in Nat
    PROVE  /\ Take(s, n) \in Seq(S) /\ Drop(s, n) \in Seq(S) /\ s = Take(s, n) \o Drop(s, n)
           /\ Len(Take(s, n)) = (IF n < Len(s) THEN n ELSE Len(s))
           /\ Len(s) <= n => Take(s, n) = s /\ Drop(s, n) = <<>>
<1> DEFINE k == Minimum(n, Len(s))
<1>1. Len(s) \in Nat /\ k = (IF n < Len(s) THEN n ELSE Len(s)) /\ k \in 0 .. Len(s)
    BY LenProperties DEF Minimum
<1>2. Take(s, n) = SubSeq(s, 1, k) /\ Drop(s, n) = SubSeq(s, k + 1, Len(s))
    BY DEF Take, Drop, From
<1> HIDE DEF k
<1>3. 1 \in 1 .. Len(s) + 1 /\ k \in 1 - 1 .. Len(s) /\ Len(s) \in k .. Len(s)
    BY <1>1
<1>4. SubSeq(s, 1, k) \o SubSeq(s, k + 1, Len(s)) = SubSeq(s, 1, Len(s))
    BY <1>3, ConcatAdjacentSubSeq
<1>5. SubSeq(s, 1, Len(s)) = s
    BY SubSeqFull
<1>6. \A i \in 1 .. Len(s) : s[i] \in S
    BY ElementOfSeq
<1>7. SubSeq(s, 1, k) \in Seq(S) /\ Len(SubSeq(s, 1, k)) = k
    <2>1. 1 \in Int /\ k \in Int /\ \A i \in 1..k : s[i] \in S
        BY <1>1, <1>6
    <2>2. SubSeq(s, 1, k) \in Seq(S) /\ Len(SubSeq(s, 1, k)) = IF 1 <= k THEN k - 1 + 1 ELSE 0
        BY <2>1, SubSeqProperties
    <2>3. QED
        BY <1>1, <2>2
<1>8. SubSeq(s, k + 1, Len(s)) \in Seq(S)
    <2>1. k + 1 \in Int /\ Len(s) \in Int /\ \A i \in k + 1 .. Len(s) : s[i] \in S
        BY <1>1, <1>6
    <2>2. QED
        BY <2>1, SubSeqProperties
<1>9. Len(s) <= n => k = Len(s)
    BY <1>1
<1>10. SubSeq(s, Len(s) + 1, Len(s)) = <<>>
    BY <1>1, SubSeqEmpty
<1>11. QED
    BY <1>1, <1>2, <1>4, <1>5, <1>7, <1>8, <1>9, <1>10

(* t begins with s. *)
Covers(S, s, t) == \E r \in Seq(S) : t = s \o r

LEMMA CoversIsPrefix ==
    ASSUME NEW S, NEW s \in Seq(S), NEW t, Covers(S, s, t)
    PROVE  IsPrefix(s, t)
<1>1. PICK r \in Seq(S) : t = s \o r
    BY DEF Covers
<1>2. Len(s) \in Nat /\ Len(r) \in Nat /\ Len(t) = Len(s) + Len(r)
    BY <1>1, LenProperties, ConcatProperties
<1>3. CASE Len(s) = 0
    <2>1. SubSeq(s, 1, 0) = <<>> /\ SubSeq(t, 1, 0) = <<>>
        BY SubSeqEmpty
    <2>2. QED
        BY <1>2, <1>3, <2>1 DEF IsPrefix
<1>4. CASE Len(s) # 0
    <2>1. 1 \in 1 .. Len(s) /\ Len(s) \in 1 .. Len(s)
        BY <1>2, <1>4
    <2>2. SubSeq(t, 1, Len(s)) = SubSeq(s, 1, Len(s))
        BY <1>1, <2>1, SubSeqOfConcat1
    <2>3. QED
        BY <1>2, <2>2 DEF IsPrefix
<1>5. QED
    BY <1>3, <1>4

-----------------------------------------------------------------------------
(* The layers that pass bytes on: all but TLS, under the protocol origin.   *)

ByteKinds == {"plain", "http_simple", "obfs_http", "random_head"}
HttpKinds == {"http_simple", "obfs_http"}
Bytes == kind \in ByteKinds /\ proto = "origin"

Names == {"data", "request", "random", "header", "crlf", "reply"}
Units == Names \X Nat \X Nat
Data == {"data"} \X Nat \X {0}

WritePlaces == {"check", "append", "flush", "clear"}
Places == {"idle", "read", "decode", "failed"} \cup WritePlaces

PlacesType ==
    /\ pc \in [Goroutines -> Places]
    /\ pc["writer"] \in {"idle", "failed"} \cup WritePlaces
    /\ pc["reader"] \in {"read", "decode", "failed"} \cup WritePlaces
    /\ kind # "random_head" => pc["writer"] \in {"idle", "failed", "check"}
                               /\ pc["reader"] \in {"read", "decode", "failed"}

ObfsType ==
    obfs \in [sent : BOOLEAN, recvd : BOOLEAN, rawSent : BOOLEAN, status : {0},
              pend : Seq(Units), left : Seq(Units), under : {<<>>}, remain : {0}]

WriteType ==
    /\ written \in 0 .. Len(Messages)
    /\ arg \in [Goroutines -> Seq(Units)] /\ arg["reader"] = <<>>
    /\ pc["writer"] \in {"idle", "failed"} => arg["writer"] = <<>>
    /\ up \in Seq(Units)
    /\ broken \in BOOLEAN /\ raced \in BOOLEAN

ReadType ==
    /\ answered \in 0 .. Len(Answers)
    /\ down \in Seq(Units) /\ got \in Seq(Units)
    /\ chunk \in Seq(Units) /\ Len(chunk) <= AppBuf /\ (pc["reader"] # "decode" => chunk = <<>>)
    /\ decoder = NewDecoder
    /\ greeted \in BOOLEAN /\ torn \in BOOLEAN

ByteType == Bytes /\ PlacesType /\ ObfsType /\ WriteType /\ ReadType

ServedIs == served = IF kind = "plain" \/ up = <<>> THEN up ELSE Tail(up)

(* Where the handshakes are. *)
HandshakeInv ==
    /\ kind # "plain" => (up # <<>> => obfs.sent) /\ (obfs.sent => up # <<>> \/ broken)
    /\ kind # "random_head" => ~obfs.rawSent /\ obfs.pend = <<>>
    /\ obfs.rawSent => obfs.sent /\ obfs.recvd
    /\ \A p \in Goroutines : pc[p] \in {"flush", "clear"} => obfs.sent /\ obfs.recvd
    /\ kind = "random_head" /\ served # <<>> => obfs.recvd

(* Until two Writes overlap, one goroutine at most is inside, and buf is    *)
(* empty from rawTransSent on.                                              *)
AloneInv ==
    ~raced => /\ \A p \in Goroutines : pc[p] \in Inside => pc[Other(p)] \notin Inside
              /\ obfs.rawSent => obfs.pend = <<>> /\ \A p \in Goroutines : pc[p] \notin Inside

(* What was written and has not reached the server: held back in buf, or    *)
(* the b of a Write that has not looked at it.                              *)
Held == IF \E p \in Goroutines : pc[p] = "clear" THEN <<>> ELSE obfs.pend
Unsent == IF pc["writer"] \in {"flush", "clear"} THEN <<>> ELSE arg["writer"]

UpTextInv ==
    ~raced => \E r \in Seq(Units) :
                 /\ Text(Messages, written) = served \o r
                 /\ ~broken => r = Held \o Unsent

UpInv == ServedIs /\ HandshakeInv /\ AloneInv /\ UpTextInv

LEMMA UnitsInRow ==
    \A x, y, z \in Seq(Units) : (x \o y) \o z = x \o (y \o z)
BY ConcatAssociative

LEMMA PayloadIs ==
    /\ Messages \in Seq(Seq(Units)) /\ Answers \in Seq(Seq(Data)) /\ Answers \in Seq(Seq(Units))
    /\ Len(Messages) \in Nat /\ Len(Answers) \in Nat
    /\ AppBuf \in Nat /\ AppBuf > 0 /\ RelayBuf \in Nat
<1>1. Messages \in Seq(Seq(Data)) /\ Answers \in Seq(Seq(Data)) /\ AppBuf \in Nat \ {0} /\ RelayBuf \in Nat \ {0}
    BY ObfsAssumption DEF ObfsAssumption, Data
<1>2. Data \subseteq Units
    BY DEF Data, Units, Names
<1>3. Seq(Data) \subseteq Seq(Units)
    BY <1>2, SeqMonotonic
<1>4. QED
    BY <1>1, <1>3, SeqMonotonic, LenProperties

LEMMA TextMore ==
    ASSUME NEW M, NEW S, M \in Seq(Seq(S)), NEW w \in Nat, w < Len(M)
    PROVE  /\ Text(M, w) \in Seq(S) /\ M[w + 1] \in Seq(S) /\ Text(M, w + 1) = Text(M, w) \o M[w + 1]
           /\ w + 1 \in 0 .. Len(M)
<1>1. Len(M) \in Nat
    BY LenProperties
<1>2. w \in 0 .. Len(M) /\ w + 1 \in 1 .. Len(M) /\ w + 1 \in 0 .. Len(M)
    BY <1>1
<1>3. QED
    BY <1>2, TextIs, ElementOfSeq

(* What a Write of u to the raw connection lets the server read. *)
LEMMA ConnWriteIs ==
    ASSUME Bytes, up \in Seq(Units), ServedIs, NEW u \in Seq(Units), ConnWrite(u), UNCHANGED <<kind, proto>>
    PROVE  /\ served \in Seq(Units) /\ up' \in Seq(Units) /\ ServedIs'
           /\ broken => up' = up /\ served' = served
           /\ ~broken => up' = up \o u
           /\ ~broken /\ (kind = "plain" \/ up # <<>>) => served' = served \o u
           /\ ~broken /\ kind # "plain" /\ up = <<>> /\ u # <<>> => served = <<>> /\ served' = Tail(u)
<1>1. served \in Seq(Units)
    BY HeadTailProperties DEF ServedIs
<1>2. CASE broken
    BY <1>1, <1>2 DEF ConnWrite, ServedIs
<1>3. CASE ~broken
    <2>1. up' = up \o u /\ served' = Plain(up')
        BY <1>3 DEF ConnWrite, Serve, Bytes
    <2>2. up' \in Seq(Units)
        BY <2>1, ConcatProperties
    <2>3. served' = IF kind = "plain" \/ up' = <<>> THEN up' ELSE Tail(up')
        BY <2>1 DEF Plain, Bytes, ByteKinds
    <2>4. up # <<>> => up' # <<>> /\ Tail(up') = Tail(up) \o u
        BY <2>1, TailMore
    <2>5. up = <<>> => up' = u
        BY <2>1, ConcatEmptySeq
    <2>6. QED
        BY <1>1, <1>3, <2>1, <2>2, <2>3, <2>4, <2>5 DEF ServedIs
<1>4. QED
    BY <1>2, <1>3

Grows == \E u \in Seq(Units) : served' = served \o u

LEMMA Prefixed ==
    ASSUME NEW S, NEW x \in S, NEW s \in Seq(S)
    PROVE  <<x>> \o s \in Seq(S) /\ <<x>> \o s # <<>> /\ Tail(<<x>> \o s) = s
<1>1. <<x>> \in Seq(S) /\ <<x>> # <<>> /\ Tail(<<x>>) = <<>>
    OBVIOUS
<1>2. Tail(<<x>> \o s) = <<>> \o s /\ <<x>> \o s # <<>>
    BY <1>1, TailMore
<1>3. QED
    BY <1>1, <1>2, ConcatProperties, ConcatEmptySeq

LEMMA ServedType == ASSUME ByteType, ServedIs PROVE served \in Seq(Units)
BY HeadTailProperties DEF ByteType, WriteType, ServedIs

(* A step of p inside Write leaves the reading side alone. *)
LEMMA WriteTypes ==
    ASSUME ByteType, NEW p \in Goroutines, pc[p] \in WritePlaces, WriteStep(p), PlacesType', ObfsType',
           \A q \in Goroutines : q # p => pc'[q] = pc[q],
           arg' \in [Goroutines -> Seq(Units)], arg'["reader"] = <<>>,
           pc'["writer"] \in {"idle", "failed"} => arg'["writer"] = <<>>,
           up' \in Seq(Units)
    PROVE  ByteType'
<1>1. UNCHANGED <<kind, proto, written, down, greeted, answered, chunk, decoder, got, torn, broken>>
      /\ raced' \in BOOLEAN
    BY DEF WriteStep, reading, ByteType, WriteType
<1>2. Bytes' /\ WriteType'
    BY <1>1 DEF ByteType, Bytes, WriteType
<1>3. pc'["reader"] # "decode" => chunk = <<>>
    BY DEF ByteType, ReadType, Goroutines, WritePlaces
<1>4. ReadType'
    BY <1>1, <1>3 DEF ByteType, ReadType
<1>5. QED
    BY <1>2, <1>4 DEF ByteType

LEMMA ReturnIs ==
    ASSUME ByteType, NEW p \in Goroutines, pc[p] \in WritePlaces, Return(p), kind' = kind
    PROVE  /\ PlacesType' /\ pc'[p] \notin WritePlaces
           /\ \A q \in Goroutines : q # p => pc'[q] = pc[q] /\ arg'[q] = arg[q]
           /\ arg' \in [Goroutines -> Seq(Units)] /\ arg'["reader"] = <<>> /\ arg'[p] = <<>>
           /\ pc'["writer"] \in {"idle", "failed"} => arg'["writer"] = <<>>
<1>0. <<>> \in Seq(Units)
    OBVIOUS
<1>1. CASE p = "reader"
    BY <1>0, <1>1 DEF Return, ByteType, PlacesType, WriteType, Places, WritePlaces, Goroutines
<1>2. CASE p = "writer"
    <2>1. CASE broken
        BY <1>0, <1>2, <2>1 DEF Return, ByteType, PlacesType, WriteType, Places, WritePlaces, Goroutines
    <2>2. CASE ~broken
        BY <1>0, <1>2, <2>2 DEF Return, ByteType, PlacesType, WriteType, Places, WritePlaces, Goroutines
    <2>3. QED
        BY <2>1, <2>2
<1>3. QED
    BY <1>1, <1>2 DEF Goroutines

LEMMA OtherIs ==
    ASSUME NEW p \in Goroutines
    PROVE  /\ Other(p) \in Goroutines /\ Other(p) # p /\ Other(Other(p)) = p
           /\ \A q \in Goroutines : q = p \/ q = Other(p)
           /\ p = "writer" \/ p = "reader"
BY DEF Goroutines, Other

LEMMA WriteThroughInv ==
    ASSUME ByteType, UpInv, NEW p \in Goroutines, WriteThrough(p)
    PROVE  ByteType' /\ UpInv' /\ Grows
<1> DEFINE T == Text(Messages, written)
<1>1. /\ pc[p] = "check" /\ PassesOn /\ ConnWrite(arg[p]) /\ Return(p) /\ WriteStep(p) /\ obfs' = obfs
      /\ UNCHANGED <<kind, proto, written, broken>> /\ raced' = (raced \/ pc[Other(p)] \in Inside)
    BY DEF WriteThrough, WriteStep
<1>2. /\ Bytes /\ up \in Seq(Units) /\ arg \in [Goroutines -> Seq(Units)] /\ arg[p] \in Seq(Units)
      /\ arg["reader"] = <<>> /\ obfs.sent \in BOOLEAN /\ broken \in BOOLEAN /\ raced \in BOOLEAN /\ ServedIs
    BY DEF ByteType, WriteType, UpInv, ObfsType
<1>3. pc[p] \in WritePlaces
    BY <1>1 DEF WritePlaces
<1>4. /\ served \in Seq(Units) /\ up' \in Seq(Units) /\ ServedIs'
      /\ broken => up' = up /\ served' = served
      /\ ~broken => up' = up \o arg[p]
      /\ ~broken /\ (kind = "plain" \/ up # <<>>) => served' = served \o arg[p]
    BY <1>1, <1>2, ConnWriteIs
<1>5. /\ PlacesType' /\ pc'[p] \notin WritePlaces
      /\ \A q \in Goroutines : q # p => pc'[q] = pc[q] /\ arg'[q] = arg[q]
      /\ arg' \in [Goroutines -> Seq(Units)] /\ arg'["reader"] = <<>> /\ arg'[p] = <<>>
      /\ pc'["writer"] \in {"idle", "failed"} => arg'["writer"] = <<>>
    BY <1>1, <1>3, ReturnIs
<1>6. ByteType'
    <2>1. ObfsType'
        BY <1>1 DEF ByteType, ObfsType
    <2>2. QED
        BY <1>1, <1>3, <1>4, <1>5, <2>1, WriteTypes
<1>7. ~broken => kind = "plain" \/ up # <<>>
    BY <1>1, <1>2 DEF PassesOn, UpInv, HandshakeInv
<1>8. Grows
    <2>1. served \o <<>> = served /\ <<>> \in Seq(Units)
        BY <1>4, ConcatEmptySeq
    <2>2. QED
        BY <1>2, <1>4, <1>7, <2>1 DEF Grows
<1>9. HandshakeInv'
    <2>1. kind # "plain" => (up' # <<>> => obfs.sent) /\ (obfs.sent => up' # <<>> \/ broken)
        <3>1. ~broken /\ up # <<>> => up' # <<>>
            BY <1>2, <1>4, ConcatSimplifications
        <3>2. kind # "plain" => obfs.sent
            BY <1>1, <1>2 DEF PassesOn, UpInv, HandshakeInv
        <3>3. QED
            BY <1>7, <3>1, <3>2
    <2>2. \A q \in Goroutines : pc'[q] \in {"flush", "clear"} => obfs.sent /\ obfs.recvd
        BY <1>5 DEF UpInv, HandshakeInv, WritePlaces
    <2>3. kind = "random_head" => obfs.recvd
        BY <1>1 DEF PassesOn, UpInv, HandshakeInv
    <2>4. QED
        BY <1>1, <2>1, <2>2, <2>3 DEF UpInv, HandshakeInv
<1>10. AloneInv'
    <2> SUFFICES ASSUME ~raced' PROVE AloneInv'
        BY DEF AloneInv
    <2>1. ~raced /\ pc[Other(p)] \notin Inside /\ pc'[p] \notin Inside /\ pc'[Other(p)] \notin Inside
        BY <1>1, <1>5, OtherIs DEF Inside, WritePlaces, PlacesType, Places
    <2>2. QED
        BY <1>1, <2>1, OtherIs DEF UpInv, AloneInv
<1>11. UpTextInv'
    <2> SUFFICES ASSUME ~raced'
                 PROVE  \E r \in Seq(Units) : T = served' \o r /\ (~broken => r = Held' \o Unsent')
        BY <1>1 DEF UpTextInv
    <2>1. PICK r \in Seq(Units) : T = served \o r /\ (~broken => r = Held \o Unsent)
        BY <1>1 DEF UpInv, UpTextInv
    <2> HIDE DEF T
    <2>2. CASE broken
        BY <1>4, <2>1, <2>2
    <2>3. CASE ~broken
        <3>1. obfs.pend = <<>>
            BY <1>1, <1>2 DEF PassesOn, UpInv, HandshakeInv, AloneInv
        <3>2. Held = <<>> /\ Held' = <<>>
            BY <1>1, <3>1 DEF Held
        <3>3. Unsent \in Seq(Units) /\ r = Unsent
            <4>1. Unsent \in Seq(Units)
                BY <1>2 DEF Unsent, Goroutines
            <4>2. QED
                BY <2>1, <2>3, <3>2, <4>1, ConcatEmptySeq
        <3>4. served' = served \o arg[p] /\ served' \in Seq(Units)
            BY <1>2, <1>4, <1>7, <2>3, ConcatProperties
        <3>5. CASE p = "writer"
            <4>1. Unsent = arg[p] /\ Unsent' = <<>>
                BY <1>1, <1>5, <3>5 DEF Unsent
            <4>2. T = served' \o <<>> /\ <<>> = Held' \o Unsent' /\ <<>> \in Seq(Units)
                BY <2>1, <3>2, <3>3, <3>4, <4>1, ConcatEmptySeq
            <4>3. QED
                BY <4>2
        <3>6. CASE p = "reader"
            <4>1. Unsent' = Unsent
                BY <1>5, <3>6 DEF Unsent, Goroutines
            <4>2. served' = served
                BY <1>2, <1>4, <3>4, <3>6, ConcatEmptySeq
            <4>3. QED
                BY <2>1, <2>3, <3>2, <4>1, <4>2
        <3>7. QED
            BY <3>5, <3>6, OtherIs
    <2>4. QED
        BY <2>2, <2>3
<1>12. QED
    BY <1>4, <1>6, <1>8, <1>9, <1>10, <1>11 DEF UpInv

LEMMA WriteHeaderInv ==
    ASSUME ByteType, UpInv, NEW p \in Goroutines, kind \in HttpKinds, pc[p] = "check", ~obfs.sent,
           NEW x \in Units, ConnWrite(<<x>> \o arg[p]), obfs' = [obfs EXCEPT !.sent = TRUE],
           Return(p), WriteStep(p)
    PROVE  ByteType' /\ UpInv' /\ Grows
<1> DEFINE T == Text(Messages, written)
<1>1. /\ UNCHANGED <<kind, proto, written, broken>> /\ raced' = (raced \/ pc[Other(p)] \in Inside)
      /\ kind # "plain" /\ kind # "random_head" /\ p = "writer" /\ pc[p] \in WritePlaces
    BY DEF WriteStep, HttpKinds, WritePlaces, ByteType, PlacesType, Goroutines
<1>2. /\ Bytes /\ up \in Seq(Units) /\ arg \in [Goroutines -> Seq(Units)] /\ arg[p] \in Seq(Units)
      /\ broken \in BOOLEAN /\ raced \in BOOLEAN /\ ServedIs /\ up = <<>> /\ ~obfs.rawSent /\ obfs.pend = <<>>
    BY <1>1 DEF ByteType, WriteType, UpInv, ObfsType, HandshakeInv
<1>3. <<x>> \o arg[p] \in Seq(Units) /\ <<x>> \o arg[p] # <<>> /\ Tail(<<x>> \o arg[p]) = arg[p]
    BY <1>2, Prefixed
<1>4. /\ served \in Seq(Units) /\ up' \in Seq(Units) /\ ServedIs'
      /\ broken => up' = up /\ served' = served
      /\ ~broken => up' = up \o (<<x>> \o arg[p]) /\ served = <<>> /\ served' = arg[p]
    <2> DEFINE u == <<x>> \o arg[p]
    <2>1. u \in Seq(Units) /\ u # <<>> /\ Tail(u) = arg[p] /\ ConnWrite(u)
        BY <1>3
    <2> HIDE DEF u
    <2>2. /\ served \in Seq(Units) /\ up' \in Seq(Units) /\ ServedIs'
          /\ broken => up' = up /\ served' = served
          /\ ~broken => up' = up \o u
          /\ ~broken /\ kind # "plain" /\ up = <<>> /\ u # <<>> => served = <<>> /\ served' = Tail(u)
        BY <1>1, <1>2, <2>1, ConnWriteIs
    <2>3. QED
        BY <1>1, <1>2, <2>1, <2>2 DEF u
<1>5. /\ PlacesType' /\ pc'[p] \notin WritePlaces
      /\ \A q \in Goroutines : q # p => pc'[q] = pc[q] /\ arg'[q] = arg[q]
      /\ arg' \in [Goroutines -> Seq(Units)] /\ arg'["reader"] = <<>> /\ arg'[p] = <<>>
      /\ pc'["writer"] \in {"idle", "failed"} => arg'["writer"] = <<>>
    BY <1>1, ReturnIs
<1>6. ByteType' /\ obfs'.sent = TRUE /\ obfs'.rawSent = FALSE /\ obfs'.pend = <<>> /\ obfs'.recvd = obfs.recvd
    <2>1. ObfsType' /\ obfs'.sent = TRUE /\ obfs'.rawSent = FALSE /\ obfs'.pend = <<>> /\ obfs'.recvd = obfs.recvd
        BY <1>2 DEF ByteType, ObfsType
    <2>2. QED
        BY <1>1, <1>4, <1>5, <2>1, WriteTypes
<1>7. Grows
    <2>1. served \o <<>> = served /\ <<>> \in Seq(Units) /\ <<>> \o arg[p] = arg[p]
        BY <1>2, <1>4, ConcatEmptySeq
    <2>2. QED
        BY <1>2, <1>4, <2>1 DEF Grows
<1>8. HandshakeInv'
    <2>1. ~broken => up' # <<>>
        BY <1>2, <1>3, <1>4, ConcatEmptySeq
    <2>2. \A q \in Goroutines : pc'[q] \notin {"flush", "clear"}
        BY <1>1, <1>5 DEF PlacesType, Goroutines
    <2>3. QED
        BY <1>1, <1>6, <2>1, <2>2 DEF HandshakeInv
<1>9. AloneInv'
    <2>1. \A q \in Goroutines : pc'[q] \notin Inside
        BY <1>1, <1>5 DEF PlacesType, Goroutines, Inside
    <2>2. QED
        BY <1>6, <2>1 DEF AloneInv
<1>10. UpTextInv'
    <2> SUFFICES ASSUME ~raced'
                 PROVE  \E r \in Seq(Units) : T = served' \o r /\ (~broken => r = Held' \o Unsent')
        BY <1>1 DEF UpTextInv
    <2>1. PICK r \in Seq(Units) : T = served \o r /\ (~broken => r = Held \o Unsent)
        BY <1>1 DEF UpInv, UpTextInv
    <2> HIDE DEF T
    <2>2. CASE broken
        BY <1>4, <2>1, <2>2
    <2>3. CASE ~broken
        <3>1. Held = <<>> /\ Held' = <<>>
            BY <1>2, <1>6 DEF Held
        <3>2. Unsent = arg[p] /\ Unsent' = <<>>
            BY <1>1, <1>5 DEF Unsent
        <3>3. r = arg[p] /\ T = r
            BY <1>2, <1>4, <2>1, <2>3, <3>1, <3>2, ConcatEmptySeq
        <3>4. T = served' \o <<>> /\ <<>> = Held' \o Unsent' /\ <<>> \in Seq(Units)
            BY <1>2, <1>4, <2>3, <3>1, <3>2, <3>3, ConcatEmptySeq
        <3>5. QED
            BY <3>4
    <2>4. QED
        BY <2>2, <2>3
<1>11. QED
    BY <1>4, <1>6, <1>7, <1>8, <1>9, <1>10 DEF UpInv

LEMMA HttpWriteInv ==
    ASSUME ByteType, UpInv, NEW p \in Goroutines, WriteHttpHeader(p) \/ WriteHttpRequest(p)
    PROVE  ByteType' /\ UpInv' /\ Grows
<1>1. /\ kind \in HttpKinds /\ pc[p] = "check" /\ ~obfs.sent /\ obfs' = [obfs EXCEPT !.sent = TRUE]
      /\ Return(p) /\ WriteStep(p)
    BY DEF WriteHttpHeader, WriteHttpRequest, HttpKinds
<1>2. PICK k \in Nat : ConnWrite(<<Unit("request", 0, k)>> \o arg[p])
    <2>1. CASE WriteHttpHeader(p)
        <3>1. PICK k \in 1 .. Len(arg[p]) : ConnWrite(<<Unit("request", 0, k)>> \o arg[p])
            BY <2>1 DEF WriteHttpHeader
        <3>2. Len(arg[p]) \in Nat
            BY LenProperties DEF ByteType, WriteType
        <3>3. k \in Nat
            BY <3>2
        <3>4. QED
            BY <3>1, <3>3
    <2>2. CASE WriteHttpRequest(p)
        BY <2>2 DEF WriteHttpRequest
    <2>3. QED
        BY <2>1, <2>2
<1>3. Unit("request", 0, k) \in Units
    BY DEF Unit, Units, Names
<1> DEFINE x == Unit("request", 0, k)
<1>4. x \in Units /\ ConnWrite(<<x>> \o arg[p])
    BY <1>2, <1>3
<1> HIDE DEF x
<1>5. QED
    BY <1>1, <1>4, WriteHeaderInv

LEMMA WriteHeldInv ==
    ASSUME ByteType, UpInv, NEW p \in Goroutines, WriteHeld(p)
    PROVE  ByteType' /\ UpInv' /\ Grows
<1>1. /\ UNCHANGED <<kind, proto, written, broken, arg, obfs, up, served>>
      /\ raced' = (raced \/ pc[Other(p)] \in Inside)
      /\ kind = "random_head" /\ ~obfs.rawSent /\ pc[p] = "check" /\ pc[p] \in WritePlaces
      /\ pc' = [pc EXCEPT ![p] = "append"] /\ WriteStep(p)
    BY DEF WriteHeld, Buffers, WriteStep, ByteType, Bytes, ByteKinds, WritePlaces
<1>2. PlacesType' /\ pc'[p] = "append" /\ \A q \in Goroutines : q # p => pc'[q] = pc[q]
    BY <1>1, OtherIs DEF ByteType, PlacesType, Places, WritePlaces, Goroutines
<1>3. ByteType'
    <2>1. ObfsType' /\ arg' \in [Goroutines -> Seq(Units)] /\ arg'["reader"] = <<>> /\ up' \in Seq(Units)
        BY <1>1 DEF ByteType, ObfsType, WriteType
    <2>2. pc'["writer"] \in {"idle", "failed"} => arg'["writer"] = <<>>
        BY <1>1, <1>2 DEF ByteType, WriteType, Goroutines
    <2>3. QED
        BY <1>1, <1>2, <2>1, <2>2, WriteTypes
<1>4. Grows
    <2>1. served \o <<>> = served /\ <<>> \in Seq(Units)
        BY ServedType, ConcatEmptySeq DEF UpInv
    <2>2. QED
        BY <1>1, <2>1 DEF Grows
<1>5. HandshakeInv' /\ ServedIs'
    BY <1>1, <1>2 DEF UpInv, HandshakeInv, ServedIs
<1>6. AloneInv'
    BY <1>1, <1>2, OtherIs DEF UpInv, AloneInv
<1>7. Held' = Held /\ Unsent' = Unsent
    BY <1>1, <1>2 DEF Held, Unsent, Goroutines
<1>8. UpTextInv'
    BY <1>1, <1>7 DEF UpInv, UpTextInv
<1>9. QED
    BY <1>3, <1>4, <1>5, <1>6, <1>8 DEF UpInv

(* While p is inside and no other is, buf is what is held. *)
LEMMA InsideFacts ==
    ASSUME ByteType, UpInv, NEW p \in Goroutines, pc[p] \in {"append", "flush", "clear"},
           raced' = (raced \/ pc[Other(p)] \in Inside), ~raced'
    PROVE  /\ ~raced /\ pc[Other(p)] \notin {"append", "flush", "clear"} /\ pc[Other(p)] \notin Inside
           /\ ~obfs.rawSent
           /\ Held = IF pc[p] = "clear" THEN <<>> ELSE obfs.pend
           /\ Unsent = IF pc[p] = "append" \/ p = "reader" THEN arg["writer"] ELSE <<>>
<1>1. ~raced /\ pc[Other(p)] \notin Inside
    OBVIOUS
<1>2. pc[Other(p)] \notin {"append", "flush", "clear"} /\ pc[p] \in Inside
    BY <1>1 DEF Inside
<1>3. ~obfs.rawSent
    BY <1>1, <1>2 DEF UpInv, AloneInv
<1>4. Held = IF pc[p] = "clear" THEN <<>> ELSE obfs.pend
    BY <1>2, OtherIs DEF Held
<1>5. p = "reader" => pc["writer"] \notin {"append", "flush", "clear"}
    BY <1>2 DEF Other
<1>6. Unsent = IF pc[p] = "append" \/ p = "reader" THEN arg["writer"] ELSE <<>>
    BY <1>5, OtherIs DEF Unsent
<1>7. QED
    BY <1>1, <1>2, <1>3, <1>4, <1>6

LEMMA RandomHeadAppendInv ==
    ASSUME ByteType, UpInv, NEW p \in Goroutines, RandomHeadAppend(p)
    PROVE  ByteType' /\ UpInv' /\ Grows
<1> DEFINE T == Text(Messages, written)
           a == arg[p]
           w == arg["writer"]
           pend == obfs.pend
<1>1. /\ pc[p] = "append" /\ kind = "random_head" /\ WriteStep(p) /\ pc[p] \in WritePlaces
      /\ obfs' = [obfs EXCEPT !.pend = pend \o a, !.sent = TRUE]
      /\ UNCHANGED <<kind, proto, written, broken>> /\ raced' = (raced \/ pc[Other(p)] \in Inside)
    BY DEF RandomHeadAppend, WriteStep, WritePlaces
<1>2. /\ Bytes /\ up \in Seq(Units) /\ arg \in [Goroutines -> Seq(Units)] /\ a \in Seq(Units) /\ w \in Seq(Units)
      /\ arg["reader"] = <<>> /\ pend \in Seq(Units) /\ served \in Seq(Units)
      /\ broken \in BOOLEAN /\ raced \in BOOLEAN /\ ServedIs /\ obfs.sent \in BOOLEAN
    BY ServedType DEF ByteType, WriteType, UpInv, ObfsType, Goroutines
<1>3. /\ ObfsType' /\ obfs'.sent = TRUE /\ obfs'.rawSent = obfs.rawSent /\ obfs'.recvd = obfs.recvd
      /\ obfs'.pend = pend \o a
    <2>1. pend \o a \in Seq(Units)
        BY <1>2, ConcatProperties
    <2> HIDE DEF a, pend
    <2>2. QED
        BY <1>1, <2>1 DEF ByteType, ObfsType
<1>4. \/ /\ Return(p)
         /\ \/ ~obfs.sent /\ ConnWrite(<<Unit("random", 0, 0)>>)
            \/ obfs.sent /\ UNCHANGED <<up, served>>
      \/ /\ pc' = [pc EXCEPT ![p] = "flush"] /\ UNCHANGED <<arg, up, served>> /\ obfs.sent /\ obfs.recvd
    <2>1. CASE obfs.sent
        BY <2>1 DEF RandomHeadAppend
    <2>2. CASE ~obfs.sent
        BY <2>2 DEF RandomHeadAppend
    <2>3. QED
        BY <2>1, <2>2
<1>5. /\ up' \in Seq(Units) /\ served' = served /\ ServedIs'
      /\ up' # <<>> \/ broken
    <2>1. CASE UNCHANGED <<up, served>> /\ obfs.sent
        BY <1>1, <1>2, <2>1 DEF ServedIs, UpInv, HandshakeInv
    <2>2. CASE ~obfs.sent /\ ConnWrite(<<Unit("random", 0, 0)>>)
        <3> DEFINE u == <<Unit("random", 0, 0)>>
        <3>1. u \in Seq(Units) /\ u # <<>> /\ Tail(u) = <<>>
            BY DEF Unit, Units, Names
        <3>2. ConnWrite(u) /\ up = <<>> /\ kind # "plain"
            BY <1>1, <2>2 DEF UpInv, HandshakeInv
        <3> HIDE DEF u
        <3>3. /\ up' \in Seq(Units) /\ ServedIs'
              /\ broken => served' = served
              /\ ~broken => up' = up \o u
              /\ ~broken /\ kind # "plain" /\ up = <<>> /\ u # <<>> => served = <<>> /\ served' = Tail(u)
            BY <1>1, <1>2, <3>1, <3>2, ConnWriteIs
        <3>4. ~broken => up' = u
            BY <3>1, <3>2, <3>3, ConcatEmptySeq
        <3>5. QED
            BY <1>2, <3>1, <3>2, <3>3, <3>4
    <2>3. QED
        BY <1>4, <2>1, <2>2
<1>6. /\ PlacesType' /\ (pc'[p] \notin WritePlaces \/ (pc'[p] = "flush" /\ obfs.recvd))
      /\ \A q \in Goroutines : q # p => pc'[q] = pc[q] /\ arg'[q] = arg[q]
      /\ arg' \in [Goroutines -> Seq(Units)] /\ arg'["reader"] = <<>>
      /\ (pc'[p] = "flush" \/ arg'[p] = <<>>)
      /\ pc'["writer"] \in {"idle", "failed"} => arg'["writer"] = <<>>
    <2>1. CASE Return(p)
        BY <1>1, <2>1, ReturnIs
    <2>2. CASE pc' = [pc EXCEPT ![p] = "flush"] /\ arg' = arg /\ obfs.recvd
        <3>1. PlacesType' /\ pc'[p] = "flush" /\ \A q \in Goroutines : q # p => pc'[q] = pc[q]
            BY <1>1, <2>2, OtherIs DEF ByteType, PlacesType, Places, WritePlaces, Goroutines
        <3>2. pc'["writer"] \in {"idle", "failed"} => arg'["writer"] = <<>>
            BY <2>2, <3>1 DEF ByteType, WriteType, Goroutines
        <3>3. QED
            BY <1>2, <2>2, <3>1, <3>2
    <2>3. QED
        BY <1>4, <2>1, <2>2
<1>7. ByteType'
    BY <1>1, <1>3, <1>5, <1>6, WriteTypes
<1>8. Grows
    <2>1. served \o <<>> = served /\ <<>> \in Seq(Units)
        BY <1>2, ConcatEmptySeq
    <2>2. QED
        BY <1>5, <2>1 DEF Grows
<1>9. HandshakeInv'
    <2>1. \A q \in Goroutines : pc'[q] \in {"flush", "clear"} => obfs.recvd
        BY <1>6 DEF UpInv, HandshakeInv, WritePlaces
    <2>2. QED
        BY <1>1, <1>3, <1>5, <2>1 DEF UpInv, HandshakeInv
<1> HIDE DEF a, w, pend
<1>10. ASSUME ~raced'
       PROVE  /\ AloneInv' /\ Held = pend /\ Held' = pend \o a /\ Unsent = w
              /\ Unsent' = IF p = "writer" THEN <<>> ELSE w
    <2>1. /\ ~raced /\ pc[Other(p)] \notin {"append", "flush", "clear"} /\ pc[Other(p)] \notin Inside
          /\ ~obfs.rawSent /\ Held = pend /\ Unsent = w
        BY <1>1, <1>10, InsideFacts DEF pend, w
    <2>2. pc'[Other(p)] \notin Inside /\ pc'[Other(p)] # "clear"
        BY <1>6, <2>1, OtherIs
    <2>3. AloneInv'
        BY <1>3, <2>1, <2>2, OtherIs DEF AloneInv
    <2>4. pc'[p] # "clear"
        BY <1>6 DEF WritePlaces
    <2>5. Held' = pend \o a
        BY <1>3, <2>2, <2>4, OtherIs DEF Held
    <2>6. p = "writer" => Unsent' = <<>>
        BY <1>6 DEF Unsent
    <2>7. p = "reader" => Unsent' = w
        BY <1>6, <2>1, OtherIs DEF Unsent, w, Other, Goroutines
    <2>8. QED
        BY <2>1, <2>3, <2>5, <2>6, <2>7, OtherIs
<1>11. UpTextInv'
    <2> SUFFICES ASSUME ~raced'
                 PROVE  \E r \in Seq(Units) : T = served' \o r /\ (~broken => r = Held' \o Unsent')
        BY <1>1 DEF UpTextInv
    <2>1. PICK r \in Seq(Units) : T = served \o r /\ (~broken => r = Held \o Unsent)
        BY <1>1 DEF UpInv, UpTextInv
    <2>2. Held \o Unsent = Held' \o Unsent'
        <3>1. CASE p = "writer"
            <4>1. a = w /\ pend \o a \in Seq(Units)
                BY <1>2, <3>1, ConcatProperties DEF a, w
            <4>2. QED
                BY <1>10, <3>1, <4>1, ConcatEmptySeq
        <3>2. CASE p = "reader"
            <4>1. pend \o a = pend
                BY <1>2, <3>2, ConcatEmptySeq DEF a
            <4>2. QED
                BY <1>10, <3>2, <4>1
        <3>3. QED
            BY <3>1, <3>2, OtherIs
    <2>3. QED
        BY <1>5, <2>1, <2>2
<1>12. QED
    BY <1>5, <1>7, <1>8, <1>9, <1>10, <1>11 DEF UpInv, AloneInv

LEMMA RandomHeadFlushInv ==
    ASSUME ByteType, UpInv, NEW p \in Goroutines, RandomHeadFlush(p)
    PROVE  ByteType' /\ UpInv' /\ Grows
<1> DEFINE T == Text(Messages, written)
           pend == obfs.pend
<1>1. /\ pc[p] = "flush" /\ WriteStep(p) /\ pc[p] \in WritePlaces /\ ConnWrite(pend)
      /\ pc' = [pc EXCEPT ![p] = "clear"] /\ UNCHANGED <<arg, obfs>>
      /\ UNCHANGED <<kind, proto, written, broken>> /\ raced' = (raced \/ pc[Other(p)] \in Inside)
    BY DEF RandomHeadFlush, WriteStep, WritePlaces
<1>2. /\ Bytes /\ up \in Seq(Units) /\ arg \in [Goroutines -> Seq(Units)] /\ kind = "random_head"
      /\ arg["reader"] = <<>> /\ pend \in Seq(Units) /\ served \in Seq(Units)
      /\ broken \in BOOLEAN /\ raced \in BOOLEAN /\ ServedIs /\ obfs.sent /\ obfs.recvd
    BY <1>1, ServedType DEF ByteType, WriteType, UpInv, ObfsType, PlacesType, HandshakeInv, Goroutines
<1> HIDE DEF pend
<1>3. /\ up' \in Seq(Units) /\ ServedIs' /\ (up' # <<>> \/ broken)
      /\ broken => served' = served
      /\ ~broken => served' = served \o pend
    <2>1. /\ up' \in Seq(Units) /\ ServedIs'
          /\ broken => up' = up /\ served' = served
          /\ ~broken => up' = up \o pend
          /\ ~broken /\ (kind = "plain" \/ up # <<>>) => served' = served \o pend
        BY <1>1, <1>2, ConnWriteIs
    <2>2. up # <<>> \/ broken
        BY <1>2 DEF UpInv, HandshakeInv
    <2>3. up # <<>> => up \o pend # <<>>
        BY <1>2, ConcatSimplifications
    <2>4. QED
        BY <1>2, <2>1, <2>2, <2>3
<1>4. PlacesType' /\ pc'[p] = "clear" /\ \A q \in Goroutines : q # p => pc'[q] = pc[q]
    BY <1>1, <1>2, OtherIs DEF ByteType, PlacesType, Places, WritePlaces, Goroutines
<1>5. ByteType'
    <2>1. ObfsType'
        BY <1>1 DEF ByteType, ObfsType
    <2>2. pc'["writer"] \in {"idle", "failed"} => arg'["writer"] = <<>>
        BY <1>1, <1>4 DEF ByteType, WriteType, Goroutines
    <2>3. QED
        BY <1>1, <1>2, <1>3, <1>4, <2>1, <2>2, WriteTypes
<1>6. Grows
    <2>1. served \o <<>> = served /\ <<>> \in Seq(Units)
        BY <1>2, ConcatEmptySeq
    <2>2. QED
        BY <1>2, <1>3, <2>1 DEF Grows
<1>7. HandshakeInv'
    BY <1>1, <1>2, <1>3 DEF HandshakeInv, ByteType, ObfsType
<1>8. ASSUME ~raced'
      PROVE  /\ AloneInv' /\ Held = pend /\ Held' = <<>> /\ Unsent' = Unsent /\ Unsent \in Seq(Units)
    <2>1. /\ ~raced /\ pc[Other(p)] \notin Inside /\ ~obfs.rawSent /\ Held = pend
        BY <1>1, <1>8, InsideFacts DEF pend
    <2>2. AloneInv'
        BY <1>1, <1>4, <2>1, OtherIs DEF AloneInv
    <2>3. Held' = <<>>
        BY <1>4 DEF Held
    <2>4. Unsent' = Unsent /\ Unsent \in Seq(Units)
        BY <1>1, <1>2, <1>4 DEF Unsent, Goroutines
    <2>5. QED
        BY <2>1, <2>2, <2>3, <2>4
<1>9. UpTextInv'
    <2> SUFFICES ASSUME ~raced'
                 PROVE  \E r \in Seq(Units) : T = served' \o r /\ (~broken => r = Held' \o Unsent')
        BY <1>1 DEF UpTextInv
    <2>1. PICK r \in Seq(Units) : T = served \o r /\ (~broken => r = Held \o Unsent)
        BY <1>1 DEF UpInv, UpTextInv
    <2> HIDE DEF T
    <2>2. CASE broken
        BY <1>3, <2>1, <2>2
    <2>3. CASE ~broken
        <3>1. T = served' \o Unsent
            <4>1. r = pend \o Unsent /\ served' = served \o pend
                BY <1>3, <1>8, <2>1, <2>3
            <4>2. served \in Seq(Units) /\ pend \in Seq(Units) /\ Unsent \in Seq(Units)
                BY <1>2, <1>8
            <4>3. (served \o pend) \o Unsent = served \o (pend \o Unsent)
                BY <4>2, UnitsInRow, Zenon
            <4>4. QED
                BY <2>1, <4>1, <4>3
        <3>2. <<>> \o Unsent = Unsent
            BY <1>8, ConcatEmptySeq
        <3>3. QED
            BY <1>8, <2>3, <3>1, <3>2
    <2>4. QED
        BY <2>2, <2>3
<1>10. QED
    BY <1>3, <1>5, <1>6, <1>7, <1>8, <1>9 DEF UpInv, AloneInv

LEMMA RandomHeadClearInv ==
    ASSUME ByteType, UpInv, NEW p \in Goroutines, RandomHeadClear(p)
    PROVE  ByteType' /\ UpInv' /\ Grows
<1>1. /\ pc[p] = "clear" /\ WriteStep(p) /\ pc[p] \in WritePlaces
      /\ Return(p) /\ obfs' = [obfs EXCEPT !.pend = <<>>, !.rawSent = TRUE] /\ UNCHANGED <<up, served>>
      /\ UNCHANGED <<kind, proto, written, broken>> /\ raced' = (raced \/ pc[Other(p)] \in Inside)
    BY DEF RandomHeadClear, WriteStep, WritePlaces
<1>2. /\ kind = "random_head" /\ up \in Seq(Units) /\ served \in Seq(Units) /\ ServedIs
      /\ broken \in BOOLEAN /\ raced \in BOOLEAN /\ obfs.sent /\ obfs.recvd
    BY <1>1, ServedType DEF ByteType, WriteType, UpInv, PlacesType, HandshakeInv, Goroutines
<1>3. /\ ObfsType' /\ obfs'.sent = obfs.sent /\ obfs'.rawSent = TRUE /\ obfs'.recvd = obfs.recvd
      /\ obfs'.pend = <<>>
    <2>1. <<>> \in Seq(Units)
        OBVIOUS
    <2>2. QED
        BY <1>1, <2>1 DEF ByteType, ObfsType
<1>4. /\ PlacesType' /\ pc'[p] \notin WritePlaces
      /\ \A q \in Goroutines : q # p => pc'[q] = pc[q] /\ arg'[q] = arg[q]
      /\ arg' \in [Goroutines -> Seq(Units)] /\ arg'["reader"] = <<>> /\ arg'[p] = <<>>
      /\ pc'["writer"] \in {"idle", "failed"} => arg'["writer"] = <<>>
    BY <1>1, ReturnIs
<1>5. ByteType'
    BY <1>1, <1>2, <1>3, <1>4, WriteTypes
<1>6. Grows
    <2>1. served \o <<>> = served /\ <<>> \in Seq(Units)
        BY <1>2, ConcatEmptySeq
    <2>2. QED
        BY <1>1, <2>1 DEF Grows
<1>7. HandshakeInv' /\ ServedIs'
    BY <1>1, <1>2, <1>3 DEF UpInv, HandshakeInv, ServedIs
<1>8. ASSUME ~raced'
      PROVE  AloneInv' /\ Held = <<>> /\ Held' = <<>> /\ Unsent' = Unsent
    <2>1. /\ ~raced /\ pc[Other(p)] \notin Inside /\ Held = <<>>
          /\ Unsent = IF p = "reader" THEN arg["writer"] ELSE <<>>
        BY <1>1, <1>8, InsideFacts
    <2>2. pc'[p] \notin Inside /\ pc'[Other(p)] \notin Inside
        BY <1>4, <2>1, OtherIs DEF Inside, WritePlaces, PlacesType, Places
    <2>3. AloneInv'
        BY <1>3, <2>2, OtherIs DEF AloneInv
    <2>4. Held' = <<>>
        BY <1>3 DEF Held
    <2>5. Unsent' = Unsent
        <3>1. CASE p = "writer"
            BY <1>4, <2>1, <3>1 DEF Unsent
        <3>2. CASE p = "reader"
            BY <1>4, <2>1, <2>2, <3>2, OtherIs DEF Unsent, Other, Inside, Goroutines
        <3>3. QED
            BY <3>1, <3>2, OtherIs
    <2>6. QED
        BY <2>1, <2>3, <2>4, <2>5
<1>9. UpTextInv'
    BY <1>1, <1>8 DEF UpInv, UpTextInv
<1>10. QED
    BY <1>5, <1>6, <1>7, <1>8, <1>9 DEF UpInv, AloneInv

(* The first state. *)
LEMMA BytesInit ==
    ASSUME Init, Bytes
    PROVE  ByteType /\ UpInv
<1>1. /\ <<>> \in Seq(Units) /\ Len(Messages) \in Nat /\ Len(Answers) \in Nat /\ AppBuf \in Nat /\ Len(<<>>) = 0
    BY PayloadIs
<1>2. pc = [p \in Goroutines |-> IF p = "writer" THEN "idle" ELSE "read"] /\ arg = [p \in Goroutines |-> <<>>]
    BY DEF Init
<1>3. pc["writer"] = "idle" /\ pc["reader"] = "read" /\ arg["writer"] = <<>> /\ arg["reader"] = <<>>
    BY <1>2 DEF Goroutines
<1>4. PlacesType
    BY <1>2, <1>3 DEF PlacesType, Places, Goroutines
<1>5. ObfsType /\ obfs.sent = FALSE /\ obfs.recvd = FALSE /\ obfs.rawSent = FALSE /\ obfs.pend = <<>>
    BY <1>1 DEF Init, ObfsType, NewObfs
<1>6. WriteType
    <2>1. written = 0 /\ up = <<>> /\ broken = FALSE /\ raced = FALSE
        BY DEF Init
    <2>2. written \in 0 .. Len(Messages)
        BY <1>1, <2>1
    <2>3. arg \in [Goroutines -> Seq(Units)]
        BY <1>1, <1>2
    <2>4. QED
        BY <1>1, <1>3, <2>1, <2>2, <2>3 DEF WriteType
<1>7. ReadType
    <2>1. /\ answered = 0 /\ down = <<>> /\ got = <<>> /\ chunk = <<>> /\ decoder = NewDecoder
          /\ greeted = FALSE /\ torn = FALSE
        BY DEF Init
    <2>2. answered \in 0 .. Len(Answers) /\ Len(chunk) <= AppBuf
        BY <1>1, <2>1
    <2>3. QED
        BY <1>1, <2>1, <2>2 DEF ReadType
<1>8. ServedIs /\ HandshakeInv /\ AloneInv
    BY <1>3, <1>5 DEF Init, ServedIs, HandshakeInv, AloneInv, Inside, Goroutines
<1>9. UpTextInv
    <2>1. Text(Messages, written) = <<>> /\ served = <<>>
        BY PayloadIs, TextIs DEF Init
    <2>2. Held = <<>> /\ Unsent = <<>>
        BY <1>3, <1>5 DEF Held, Unsent, Goroutines
    <2>3. <<>> \o <<>> = <<>>
        BY <1>1, ConcatEmptySeq
    <2>4. QED
        BY <1>1, <2>1, <2>2, <2>3 DEF UpTextInv
<1>10. QED
    BY <1>4, <1>5, <1>6, <1>7, <1>8, <1>9 DEF ByteType, UpInv

(* The app writes the next message. *)
LEMMA WriteMessageInv ==
    ASSUME ByteType, UpInv, WriteMessage
    PROVE  /\ ByteType' /\ UpInv'
           /\ \E m \in Seq(Units) : Text(Messages, written') = Text(Messages, written) \o m
           /\ Text(Messages, written) \in Seq(Units)
           /\ UNCHANGED <<served, raced, broken>> /\ Failed' = Failed
<1> DEFINE m == Messages[written + 1]
           T == Text(Messages, written)
           S == Text(Messages, written + 1)
<1>1. /\ pc["writer"] = "idle" /\ written < Len(Messages) /\ written' = written + 1
      /\ arg' = [arg EXCEPT !["writer"] = m] /\ pc' = [pc EXCEPT !["writer"] = "check"]
      /\ UNCHANGED <<kind, proto, obfs, up, served, down, greeted, answered, chunk, decoder, got, torn, broken, raced>>
    <2>1. \A e \in Encode(proto, encoder, m) : e.units = m
        BY DEF ByteType, Bytes, Encode
    <2> HIDE DEF m
    <2>2. QED
        BY <2>1 DEF WriteMessage, server, reading, m
<1>2. /\ Bytes /\ written \in Nat /\ arg \in [Goroutines -> Seq(Units)] /\ arg["reader"] = <<>>
      /\ arg["writer"] = <<>> /\ pc \in [Goroutines -> Places]
    BY <1>1, PayloadIs DEF ByteType, WriteType, PlacesType
<1>3. T \in Seq(Units) /\ m \in Seq(Units) /\ S = T \o m /\ written' \in 0 .. Len(Messages)
    BY <1>1, <1>2, PayloadIs, TextMore
<1> HIDE DEF m, T, S
<1>4. /\ PlacesType' /\ pc'["writer"] = "check" /\ pc'["reader"] = pc["reader"]
      /\ arg' \in [Goroutines -> Seq(Units)] /\ arg'["reader"] = <<>> /\ arg'["writer"] = m
    BY <1>1, <1>2, <1>3 DEF ByteType, PlacesType, Places, WritePlaces, Goroutines
<1>5. ByteType'
    <2>1. WriteType'
        BY <1>1, <1>3, <1>4 DEF ByteType, WriteType
    <2>2. ReadType'
        BY <1>1, <1>4 DEF ByteType, ReadType
    <2>3. ObfsType' /\ Bytes'
        BY <1>1 DEF ByteType, ObfsType, Bytes
    <2>4. QED
        BY <1>4, <2>1, <2>2, <2>3 DEF ByteType
<1>6. ServedIs' /\ HandshakeInv'
    BY <1>1, <1>4 DEF UpInv, ServedIs, HandshakeInv, Goroutines
<1>7. AloneInv'
    BY <1>1, <1>4 DEF UpInv, AloneInv, Inside, Goroutines, Other
<1>8. Held' = Held /\ Held \in Seq(Units) /\ Unsent = <<>> /\ Unsent' = m
    BY <1>1, <1>2, <1>4 DEF Held, Unsent, Goroutines, ByteType, ObfsType
<1>9. UpTextInv'
    <2> SUFFICES ASSUME ~raced'
                 PROVE  \E r \in Seq(Units) : S = served' \o r /\ (~broken' => r = Held' \o Unsent')
        BY <1>1 DEF UpTextInv, S
    <2>1. PICK r \in Seq(Units) : T = served \o r /\ (~broken => r = Held \o Unsent)
        BY <1>1 DEF UpInv, UpTextInv, T
    <2>2. served \in Seq(Units)
        BY ServedType DEF UpInv
    <2>3. (served \o r) \o m = served \o (r \o m)
        BY <1>3, <2>2, UnitsInRow, Zenon
    <2>4. r \o m \in Seq(Units)
        BY <1>3, ConcatProperties
    <2>5. ~broken => r = Held
        BY <1>8, <2>1, ConcatEmptySeq
    <2>6. S = served' \o (r \o m) /\ (~broken' => r \o m = Held' \o Unsent')
        BY <1>1, <1>3, <1>8, <2>1, <2>3, <2>5
    <2>7. QED
        BY <2>4, <2>6
<1>10. Failed' = Failed
    BY <1>1, <1>4 DEF Failed, Goroutines
<1>11. QED
    BY <1>1, <1>3, <1>5, <1>6, <1>7, <1>9, <1>10 DEF UpInv, S, T

(* A step inside Write of a byte-passing layer. *)
LEMMA WriteInv ==
    ASSUME ByteType, UpInv, NEW p \in Goroutines, Write(p)
    PROVE  ByteType' /\ UpInv' /\ Grows
<1>1. kind \in ByteKinds /\ pc[p] \in Places
    BY DEF ByteType, Bytes, PlacesType
<1>2. ~WriteTlsChunk(p) /\ ~TicketWrite(p) /\ ~TicketAppend(p)
    BY <1>1 DEF ByteKinds, WriteTlsChunk, TicketWrite, TicketAppend
<1>3. ~TicketSet8(p) /\ ~TicketSend(p)
    BY <1>1 DEF Places, WritePlaces, TicketSet8, TicketSend
<1>4. CASE WriteThrough(p)
    BY <1>4, WriteThroughInv
<1>5. CASE WriteHttpHeader(p) \/ WriteHttpRequest(p)
    BY <1>5, HttpWriteInv
<1>6. CASE WriteHeld(p)
    BY <1>6, WriteHeldInv
<1>7. CASE RandomHeadAppend(p)
    BY <1>7, RandomHeadAppendInv
<1>8. CASE RandomHeadFlush(p)
    BY <1>8, RandomHeadFlushInv
<1>9. CASE RandomHeadClear(p)
    BY <1>9, RandomHeadClearInv
<1>10. QED
    BY <1>2, <1>3, <1>4, <1>5, <1>6, <1>7, <1>8, <1>9 DEF Write

(* It fails no goroutine unless the connection has failed already. *)
LEMMA WriteFailsNot ==
    ASSUME ByteType, NEW p \in Goroutines, Write(p)
    PROVE  /\ Failed' = Failed /\ raced' = (raced \/ pc[Other(p)] \in Inside)
           /\ UNCHANGED <<kind, proto, written, down, greeted, answered, chunk, decoder, got, torn, broken>>
           /\ pc[p] \in WritePlaces /\ pc' = [pc EXCEPT ![p] = pc'[p]]
<1>1. /\ raced' = (raced \/ pc[Other(p)] \in Inside)
      /\ UNCHANGED <<kind, proto, written, down, greeted, answered, chunk, decoder, got, torn, broken>>
    <2>1. WriteStep(p)
        BY DEF Write, WriteThrough, WriteHttpHeader, WriteHttpRequest, WriteTlsChunk, WriteHeld,
               RandomHeadAppend, RandomHeadFlush, RandomHeadClear, TicketWrite, TicketAppend,
               TicketSet8, TicketSend
    <2>2. QED
        BY <2>1 DEF WriteStep, reading
<1>2. kind \in ByteKinds /\ pc \in [Goroutines -> Places] /\ pc[p] \in Places
    BY DEF ByteType, Bytes, PlacesType
<1>3. pc[p] \in WritePlaces
    BY <1>2 DEF Write, WriteThrough, WriteHttpHeader, WriteHttpRequest, WriteTlsChunk, WriteHeld,
                RandomHeadAppend, RandomHeadFlush, RandomHeadClear, TicketWrite, TicketAppend,
                TicketSet8, TicketSend, WritePlaces, Places
<1>4. \/ Return(p)
      \/ \E x \in {"append", "flush", "clear"} : pc' = [pc EXCEPT ![p] = x]
    <2>1. ~WriteTlsChunk(p) /\ ~TicketAppend(p)
        BY <1>2 DEF ByteKinds, WriteTlsChunk, TicketAppend
    <2>2. ~TicketSet8(p)
        BY <1>2 DEF TicketSet8, Places, WritePlaces
    <2>3. CASE WriteThrough(p) \/ WriteHttpHeader(p) \/ WriteHttpRequest(p) \/ RandomHeadClear(p)
               \/ TicketWrite(p) \/ TicketSend(p)
        BY <2>3 DEF WriteThrough, WriteHttpHeader, WriteHttpRequest, RandomHeadClear, TicketWrite, TicketSend
    <2>4. CASE WriteHeld(p) \/ RandomHeadFlush(p)
        BY <2>4 DEF WriteHeld, RandomHeadFlush
    <2>5. CASE RandomHeadAppend(p)
        BY <2>5 DEF RandomHeadAppend
    <2>6. QED
        BY <2>1, <2>2, <2>3, <2>4, <2>5 DEF Write
<1>5. \E x : pc' = [pc EXCEPT ![p] = x] /\ (x # "failed" \/ broken)
    <2>1. CASE Return(p)
        <3> DEFINE x == IF p = "reader" THEN "read" ELSE IF broken THEN "failed" ELSE "idle"
        <3>1. pc' = [pc EXCEPT ![p] = x]
            BY <2>1 DEF Return
        <3>2. x # "failed" \/ broken
            OBVIOUS
        <3> HIDE DEF x
        <3>3. QED
            BY <3>1, <3>2
    <2>2. CASE \E x \in {"append", "flush", "clear"} : pc' = [pc EXCEPT ![p] = x]
        BY <2>2
    <2>3. QED
        BY <1>4, <2>1, <2>2
<1>6. PICK x : pc' = [pc EXCEPT ![p] = x] /\ (x # "failed" \/ broken)
    BY <1>5
<1>7. pc'[p] = x /\ \A q \in Goroutines : q # p => pc'[q] = pc[q]
    BY <1>2, <1>6
<1>8. pc[p] # "failed"
    BY <1>3 DEF WritePlaces
<1>9. Failed' = Failed
    <2>1. CASE broken
        BY <1>1, <2>1 DEF Failed
    <2>2. CASE ~broken
        BY <1>1, <1>6, <1>7, <1>8, <2>2 DEF Failed
    <2>3. QED
        BY <2>1, <2>2
<1>10. QED
    BY <1>1, <1>3, <1>6, <1>7, <1>9

(* What a read of the raw connection takes, and what it leaves. *)
LEMMA ArrivedIs ==
    ASSUME NEW S, down \in Seq(S), NEW n \in Nat, NEW b \in Arrived(n)
    PROVE  /\ b \in Seq(S) /\ b # <<>> /\ Len(b) <= n
           /\ Drop(down, Len(b)) \in Seq(S) /\ down = b \o Drop(down, Len(b))
<1>1. Len(down) \in Nat
    BY LenProperties
<1>2. PICK k \in 1 .. Minimum(n, Len(down)) : b = Take(down, k)
    BY DEF Arrived
<1>3. k \in Nat /\ k > 0 /\ k <= n /\ k <= Len(down)
    BY <1>1, <1>2 DEF Minimum
<1>4. /\ b \in Seq(S) /\ Drop(down, k) \in Seq(S) /\ down = b \o Drop(down, k)
      /\ Len(b) = (IF k < Len(down) THEN k ELSE Len(down))
    BY <1>2, <1>3, TakeDrop
<1>5. Len(b) = k
    BY <1>1, <1>3, <1>4
<1>6. b # <<>>
    <2>1. Len(<<>>) = 0
        OBVIOUS
    <2>2. QED
        BY <1>3, <1>5, <2>1
<1>7. QED
    BY <1>3, <1>4, <1>5, <1>6

(* What a step of the reader outside Write may change. *)
ReaderMoves ==
    /\ UNCHANGED <<kind, proto, written, arg, up, served, greeted, answered, broken, raced>>
    /\ pc["reader"] \in {"read", "decode"}
    /\ \E x \in {"read", "decode", "failed", "check"} :
           pc' = [pc EXCEPT !["reader"] = x] /\ (x = "check" => kind = "random_head")
    /\ \E r \in BOOLEAN, l \in Seq(Units) :
           obfs' = [obfs EXCEPT !.recvd = r, !.left = l] /\ (obfs.recvd => r)

LEMMA ReaderMovesTypes ==
    ASSUME ByteType, ReaderMoves, chunk' \in Seq(Units), Len(chunk') <= AppBuf,
           pc'["reader"] # "decode" => chunk' = <<>>, down' \in Seq(Units), got' \in Seq(Units),
           decoder' = NewDecoder, torn' \in BOOLEAN
    PROVE  ByteType'
<1>1. UNCHANGED <<kind, proto, written, arg, up, greeted, answered, broken, raced>>
    BY DEF ReaderMoves
<1>2. PICK x \in {"read", "decode", "failed", "check"} :
          pc' = [pc EXCEPT !["reader"] = x] /\ (x = "check" => kind = "random_head")
    BY DEF ReaderMoves
<1>3. PlacesType' /\ pc'["writer"] = pc["writer"]
    BY <1>1, <1>2 DEF ByteType, PlacesType, Places, WritePlaces, Goroutines
<1>4. PICK r \in BOOLEAN, l \in Seq(Units) : obfs' = [obfs EXCEPT !.recvd = r, !.left = l]
    BY DEF ReaderMoves
<1>5. ObfsType'
    BY <1>4 DEF ByteType, ObfsType
<1>6. Bytes' /\ WriteType'
    BY <1>1, <1>3 DEF ByteType, Bytes, WriteType
<1>7. ReadType'
    BY <1>1 DEF ByteType, ReadType
<1>8. QED
    BY <1>3, <1>5, <1>6, <1>7 DEF ByteType

(* What has to do with the other direction survives every step that is not  *)
(* one of the writer's, or of the reader inside Write.                      *)
LEMMA UpInvKept ==
    ASSUME ByteType, UpInv, UNCHANGED <<kind, written, arg, up, served, raced>>,
           broken => broken', pc'["writer"] = pc["writer"],
           pc'["reader"] = pc["reader"]
             \/ (pc["reader"] \in {"read", "decode"} /\ pc'["reader"] \in {"read", "decode", "failed", "check"}),
           UNCHANGED <<obfs.sent, obfs.rawSent, obfs.pend>>, obfs.recvd => obfs'.recvd
    PROVE  UpInv'
<1>1. \A q \in Goroutines : pc'[q] \in Inside => pc[q] \in Inside
    BY DEF Goroutines, Inside
<1>2. \A q \in Goroutines : pc'[q] \in {"flush", "clear"} => pc[q] \in {"flush", "clear"}
    BY DEF Goroutines
<1>3. \A q \in Goroutines : pc'[q] = "clear" <=> pc[q] = "clear"
    BY DEF Goroutines
<1>4. ServedIs' /\ HandshakeInv'
    BY <1>2 DEF UpInv, ServedIs, HandshakeInv
<1>5. AloneInv'
    BY <1>1, OtherIs DEF UpInv, AloneInv
<1>6. Held' = Held /\ Unsent' = Unsent
    BY <1>3 DEF Held, Unsent
<1>7. UpTextInv'
    BY <1>6 DEF UpInv, UpTextInv
<1>8. QED
    BY <1>4, <1>5, <1>7 DEF UpInv

LEMMA ReaderMovesUp ==
    ASSUME ByteType, UpInv, ReaderMoves
    PROVE  /\ UpInv' /\ UNCHANGED <<written, served, raced, broken, answered>>
           /\ Failed => Failed'
<1>1. UNCHANGED <<kind, written, arg, up, served, raced, broken, answered>>
    BY DEF ReaderMoves
<1>2. PICK x \in {"read", "decode", "failed", "check"} : pc' = [pc EXCEPT !["reader"] = x]
    BY DEF ReaderMoves
<1>3. /\ pc'["writer"] = pc["writer"] /\ pc'["reader"] \in {"read", "decode", "failed", "check"}
      /\ pc["reader"] \in {"read", "decode"}
    BY <1>2 DEF ByteType, PlacesType, Goroutines, ReaderMoves
<1>4. PICK r \in BOOLEAN, l \in Seq(Units) :
          obfs' = [obfs EXCEPT !.recvd = r, !.left = l] /\ (obfs.recvd => r)
    BY DEF ReaderMoves
<1>5. UNCHANGED <<obfs.sent, obfs.rawSent, obfs.pend>> /\ (obfs.recvd => obfs'.recvd)
    BY <1>4 DEF ByteType, ObfsType
<1>6. UpInv'
    BY <1>1, <1>3, <1>5, UpInvKept
<1>7. Failed => Failed'
    BY <1>1, <1>3 DEF Failed, Goroutines
<1>8. QED
    BY <1>1, <1>6, <1>7

(* The actions of Read that a byte-passing layer has. *)
LEMMA ReadsOf ==
    ASSUME ByteType, Read
    PROVE  /\ ReadThrough \/ ReadLeft \/ (kind \in HttpKinds /\ TakeHeader) \/ ReadGreeting
              \/ ReadFails \/ DecodeChunk
           /\ Room = AppBuf
<1>1. kind \in ByteKinds /\ proto = "origin" /\ Room = AppBuf
    BY DEF ByteType, Bytes, Room
<1>2. ~ReadHandshake /\ ~ReadRecords /\ ~ReadTlsRecord /\ ~ReadTlsRemain /\ ~ReadDecoded
    BY <1>1 DEF ByteKinds, ReadHandshake, ReadRecords, ReadTlsRecord, ReadTlsRemain, ReadDecoded
<1>3. ReadHttpHeader \/ ReadHttpResponse => kind \in HttpKinds /\ TakeHeader
    BY DEF ReadHttpHeader, ReadHttpResponse, HttpKinds
<1>4. QED
    BY <1>1, <1>2, <1>3 DEF Read

LEMMA ReadThroughMoves ==
    ASSUME ByteType, ReadThrough
    PROVE  /\ ByteType' /\ ReaderMoves /\ UNCHANGED <<got, torn, obfs>>
           /\ pc["reader"] = "read" /\ pc'["reader"] = "decode"
           /\ down # <<>> /\ down = chunk' \o down'
<1>1. PICK b \in Arrived(Room) : Returns(b) /\ down' = Drop(down, Len(b))
    BY DEF ReadThrough
<1>2. /\ UNCHANGED <<kind, proto, written, arg, up, served, greeted, answered, broken, raced>>
      /\ UNCHANGED <<obfs, decoder, got, torn>> /\ pc["reader"] = "read"
    BY DEF ReadThrough, ReadStep, Reading
<1>3. Room \in Nat /\ Room = AppBuf /\ down \in Seq(Units)
    BY PayloadIs DEF Room, ByteType, Bytes, ReadType
<1>4. /\ b \in Seq(Units) /\ b # <<>> /\ Len(b) <= AppBuf
      /\ down' \in Seq(Units) /\ down = b \o down'
    BY <1>1, <1>3, ArrivedIs
<1>5. chunk' = b /\ pc' = [pc EXCEPT !["reader"] = "decode"]
    BY <1>1 DEF Returns
<1>6. ReaderMoves
    <2>1. obfs' = [obfs EXCEPT !.recvd = obfs.recvd, !.left = obfs.left]
          /\ obfs.recvd \in BOOLEAN /\ obfs.left \in Seq(Units)
        BY <1>2 DEF ByteType, ObfsType
    <2>2. QED
        BY <1>2, <1>5, <2>1 DEF ReaderMoves
<1>7. pc'["reader"] = "decode"
    BY <1>5 DEF ByteType, PlacesType, Goroutines
<1>8. ByteType'
    <2>1. got \in Seq(Units) /\ decoder = NewDecoder /\ torn \in BOOLEAN
        BY DEF ByteType, ReadType
    <2>2. QED
        BY <1>2, <1>4, <1>5, <1>6, <1>7, <2>1, ReaderMovesTypes
<1>9. down # <<>>
    BY <1>4, ConcatSimplifications
<1>10. QED
    BY <1>2, <1>4, <1>5, <1>6, <1>7, <1>8, <1>9

LEMMA ReadLeftMoves ==
    ASSUME ByteType, ReadLeft
    PROVE  /\ ByteType' /\ ReaderMoves /\ UNCHANGED <<got, torn, down>>
           /\ pc["reader"] = "read" /\ pc'["reader"] = "decode"
           /\ obfs.left = chunk' \o obfs'.left /\ obfs'.recvd = obfs.recvd /\ obfs.left # <<>>
<1>1. /\ UNCHANGED <<kind, proto, written, arg, up, served, greeted, answered, broken, raced>>
      /\ UNCHANGED <<down, decoder, got, torn>> /\ pc["reader"] = "read" /\ obfs.left # <<>>
    BY DEF ReadLeft, ReadStep, Reading
<1>2. Room \in Nat /\ Room = AppBuf /\ obfs.left \in Seq(Units) /\ obfs.recvd \in BOOLEAN
    BY PayloadIs DEF Room, ByteType, Bytes, ObfsType
<1> DEFINE l == Drop(obfs.left, Room)
<1>3. /\ chunk' = Take(obfs.left, Room) /\ pc' = [pc EXCEPT !["reader"] = "decode"]
      /\ obfs' = [obfs EXCEPT !.left = l]
    BY DEF ReadLeft, Returns
<1>4. /\ Take(obfs.left, Room) \in Seq(Units) /\ l \in Seq(Units) /\ obfs.left = Take(obfs.left, Room) \o l
      /\ Len(Take(obfs.left, Room)) = (IF Room < Len(obfs.left) THEN Room ELSE Len(obfs.left))
    BY <1>2, TakeDrop
<1>5. Len(Take(obfs.left, Room)) <= AppBuf
    <2>1. Len(obfs.left) \in Nat
        BY <1>2, LenProperties
    <2>2. QED
        BY <1>2, <1>4, <2>1
<1> HIDE DEF l
<1>6. obfs' = [obfs EXCEPT !.recvd = obfs.recvd, !.left = l] /\ obfs'.left = l /\ obfs'.recvd = obfs.recvd
    BY <1>3 DEF ByteType, ObfsType
<1>7. ReaderMoves
    BY <1>1, <1>2, <1>3, <1>4, <1>6 DEF ReaderMoves
<1>8. pc'["reader"] = "decode"
    BY <1>3 DEF ByteType, PlacesType, Goroutines
<1>9. ByteType'
    <2>1. got \in Seq(Units) /\ decoder = NewDecoder /\ torn \in BOOLEAN /\ down \in Seq(Units)
        BY DEF ByteType, ReadType
    <2>2. QED
        BY <1>1, <1>3, <1>4, <1>5, <1>7, <1>8, <2>1, ReaderMovesTypes
<1>10. QED
    BY <1>1, <1>3, <1>4, <1>6, <1>7, <1>8, <1>9

Crlf == Unit("crlf", 0, 0)

LEMMA TakeHeaderMoves ==
    ASSUME ByteType, kind \in HttpKinds, TakeHeader
    PROVE  /\ ByteType' /\ ReaderMoves /\ UNCHANGED <<got, torn>>
           /\ pc["reader"] = "read" /\ ~obfs.recvd
           /\ \E b \in Seq(Units) :
                /\ b # <<>> /\ down = b \o down'
                /\ \/ pc'["reader"] = "failed" /\ UNCHANGED <<obfs, chunk>>
                   \/ /\ pc'["reader"] = "decode" /\ obfs'.recvd
                      /\ \E pos \in 1 .. Len(b) : b[pos] = Crlf /\ Drop(b, pos) = chunk' \o obfs'.left
<1>1. PICK b \in Arrived(RelayBuf) :
           /\ down' = Drop(down, Len(b))
           /\ \/ Fails /\ UNCHANGED <<obfs, chunk>>
              \/ \E pos \in 1 .. Len(b) :
                     /\ b[pos] = Crlf
                     /\ Returns(Take(Drop(b, pos), Room))
                     /\ obfs' = [obfs EXCEPT !.recvd = TRUE, !.left = Drop(Drop(b, pos), Room)]
    BY DEF TakeHeader, Crlf
<1>2. /\ UNCHANGED <<kind, proto, written, arg, up, served, greeted, answered, broken, raced>>
      /\ UNCHANGED <<decoder, got, torn>> /\ pc["reader"] = "read" /\ ~obfs.recvd
    BY DEF TakeHeader, ReadStep, Reading
<1>3. /\ Room \in Nat /\ Room = AppBuf /\ RelayBuf \in Nat /\ down \in Seq(Units) /\ chunk = <<>>
      /\ obfs.left \in Seq(Units) /\ obfs.recvd \in BOOLEAN /\ got \in Seq(Units) /\ decoder = NewDecoder
      /\ torn \in BOOLEAN /\ Len(<<>>) <= AppBuf
    BY <1>2, PayloadIs DEF Room, ByteType, Bytes, ReadType, ObfsType
<1>4. b \in Seq(Units) /\ b # <<>> /\ down' \in Seq(Units) /\ down = b \o down'
    BY <1>1, <1>3, ArrivedIs
<1>5. CASE Fails /\ UNCHANGED <<obfs, chunk>>
    <2>1. pc' = [pc EXCEPT !["reader"] = "failed"] /\ obfs' = [obfs EXCEPT !.recvd = obfs.recvd, !.left = obfs.left]
        BY <1>5 DEF Fails, ByteType, ObfsType
    <2>2. ReaderMoves
        BY <1>2, <1>3, <2>1 DEF ReaderMoves
    <2>3. ByteType'
        BY <1>2, <1>3, <1>4, <1>5, <2>2, ReaderMovesTypes
    <2>4. pc'["reader"] = "failed"
        BY <2>1 DEF ByteType, PlacesType, Goroutines
    <2>5. QED
        BY <1>2, <1>4, <1>5, <2>2, <2>3, <2>4
<1>6. ASSUME NEW pos \in 1 .. Len(b), b[pos] = Crlf, Returns(Take(Drop(b, pos), Room)),
             obfs' = [obfs EXCEPT !.recvd = TRUE, !.left = Drop(Drop(b, pos), Room)]
      PROVE  /\ ByteType' /\ ReaderMoves /\ pc'["reader"] = "decode" /\ obfs'.recvd
             /\ Drop(b, pos) = chunk' \o obfs'.left
    <2> DEFINE d == Drop(b, pos)
               l == Drop(d, Room)
    <2>1. d \in Seq(Units)
        <3>1. pos \in Nat
            BY <1>4, LenProperties
        <3>2. QED
            BY <1>4, <3>1, TakeDrop
    <2>2. chunk' = Take(d, Room) /\ pc' = [pc EXCEPT !["reader"] = "decode"]
          /\ obfs' = [obfs EXCEPT !.recvd = TRUE, !.left = l]
        BY <1>6 DEF Returns
    <2> HIDE DEF d
    <2>3. /\ Take(d, Room) \in Seq(Units) /\ l \in Seq(Units) /\ d = Take(d, Room) \o l
          /\ Len(Take(d, Room)) = (IF Room < Len(d) THEN Room ELSE Len(d))
        BY <1>3, <2>1, TakeDrop
    <2> HIDE DEF l
    <2>4. Len(Take(d, Room)) <= AppBuf
        <3>1. Len(d) \in Nat
            BY <2>1, LenProperties
        <3>2. QED
            BY <1>3, <2>3, <3>1
    <2>5. obfs'.left = l /\ obfs'.recvd
        BY <2>2 DEF ByteType, ObfsType
    <2>6. ReaderMoves
        BY <1>2, <2>2, <2>3 DEF ReaderMoves
    <2>7. pc'["reader"] = "decode"
        BY <2>2 DEF ByteType, PlacesType, Goroutines
    <2>8. ByteType'
        BY <1>2, <1>3, <1>4, <2>2, <2>3, <2>4, <2>6, <2>7, ReaderMovesTypes
    <2>9. QED
        BY <2>2, <2>3, <2>5, <2>6, <2>7, <2>8 DEF d
<1>7. CASE \E pos \in 1 .. Len(b) :
               /\ b[pos] = Crlf
               /\ Returns(Take(Drop(b, pos), Room))
               /\ obfs' = [obfs EXCEPT !.recvd = TRUE, !.left = Drop(Drop(b, pos), Room)]
    <2>1. PICK pos \in 1 .. Len(b) :
               /\ b[pos] = Crlf
               /\ Returns(Take(Drop(b, pos), Room))
               /\ obfs' = [obfs EXCEPT !.recvd = TRUE, !.left = Drop(Drop(b, pos), Room)]
        BY <1>7
    <2>2. /\ ByteType' /\ ReaderMoves /\ pc'["reader"] = "decode" /\ obfs'.recvd
          /\ Drop(b, pos) = chunk' \o obfs'.left
        BY <1>6, <2>1, Zenon
    <2>3. QED
        BY <1>2, <1>4, <2>1, <2>2
<1>8. QED
    BY <1>1, <1>5, <1>7

LEMMA ReadGreetingMoves ==
    ASSUME ByteType, ReadGreeting
    PROVE  /\ ByteType' /\ ReaderMoves /\ UNCHANGED <<got, chunk>> /\ chunk = <<>>
           /\ pc["reader"] = "read" /\ pc'["reader"] = "check" /\ kind = "random_head"
           /\ ~obfs.recvd /\ obfs'.recvd /\ obfs'.left = obfs.left
           /\ \/ /\ torn' = (down' # <<>>)
                 /\ \E b \in Seq(Units) : b # <<>> /\ down = b \o down'
              \/ broken /\ UNCHANGED <<down, torn>>
<1>1. /\ UNCHANGED <<kind, proto, written, arg, up, served, greeted, answered, broken, raced>>
      /\ UNCHANGED <<chunk, decoder, got>> /\ pc["reader"] = "read" /\ ~obfs.recvd /\ kind = "random_head"
      /\ obfs' = [obfs EXCEPT !.recvd = TRUE] /\ pc' = [pc EXCEPT !["reader"] = "check"]
    BY DEF ReadGreeting, ReadStep, Reading
<1>2. /\ RelayBuf \in Nat /\ down \in Seq(Units) /\ chunk = <<>> /\ chunk \in Seq(Units) /\ Len(chunk) <= AppBuf
      /\ got \in Seq(Units) /\ decoder = NewDecoder /\ torn \in BOOLEAN
      /\ obfs.left \in Seq(Units)
    BY <1>1, PayloadIs DEF ByteType, ReadType, ObfsType
<1>3. obfs' = [obfs EXCEPT !.recvd = TRUE, !.left = obfs.left] /\ obfs'.recvd /\ obfs'.left = obfs.left
    BY <1>1 DEF ByteType, ObfsType
<1>4. ReaderMoves
    BY <1>1, <1>2, <1>3 DEF ReaderMoves
<1>5. /\ down' \in Seq(Units) /\ torn' \in BOOLEAN
      /\ \/ /\ torn' = (down' # <<>>)
            /\ \E b \in Seq(Units) : b # <<>> /\ down = b \o down'
         \/ broken /\ UNCHANGED <<down, torn>>
    <2>1. CASE broken /\ UNCHANGED <<down, torn>>
        BY <1>2, <2>1
    <2>2. CASE \E b \in Arrived(RelayBuf) : down' = Drop(down, Len(b)) /\ torn' = (down' # <<>>)
        <3>1. PICK b \in Arrived(RelayBuf) : down' = Drop(down, Len(b)) /\ torn' = (down' # <<>>)
            BY <2>2
        <3>2. b \in Seq(Units) /\ b # <<>> /\ down' \in Seq(Units) /\ down = b \o down'
            BY <1>2, <3>1, ArrivedIs
        <3>3. torn' \in BOOLEAN
            BY <3>1
        <3>4. QED
            BY <3>1, <3>2, <3>3
    <2>3. QED
        BY <2>1, <2>2 DEF ReadGreeting
<1>6. pc'["reader"] = "check"
    BY <1>1 DEF ByteType, PlacesType, Goroutines
<1>7. ByteType'
    BY <1>1, <1>2, <1>4, <1>5, ReaderMovesTypes
<1>8. QED
    BY <1>1, <1>2, <1>3, <1>4, <1>5, <1>6, <1>7

LEMMA ReadFailsMoves ==
    ASSUME ByteType, ReadFails
    PROVE  /\ ByteType' /\ ReaderMoves /\ UNCHANGED <<got, torn, obfs, down, chunk>>
           /\ broken /\ pc["reader"] = "read" /\ pc'["reader"] = "failed"
<1>1. /\ UNCHANGED <<kind, proto, written, arg, up, served, greeted, answered, broken, raced>>
      /\ UNCHANGED <<obfs, down, chunk, decoder, got, torn>> /\ pc["reader"] = "read" /\ broken
      /\ pc' = [pc EXCEPT !["reader"] = "failed"]
    BY DEF ReadFails, ReadStep, Reading, Fails, reading
<1>2. /\ down \in Seq(Units) /\ chunk = <<>> /\ chunk \in Seq(Units) /\ Len(chunk) <= AppBuf
      /\ got \in Seq(Units) /\ decoder = NewDecoder /\ torn \in BOOLEAN
      /\ obfs.left \in Seq(Units) /\ obfs.recvd \in BOOLEAN
    BY <1>1 DEF ByteType, ReadType, ObfsType
<1>3. obfs' = [obfs EXCEPT !.recvd = obfs.recvd, !.left = obfs.left]
    BY <1>1 DEF ByteType, ObfsType
<1>4. ReaderMoves
    BY <1>1, <1>2, <1>3 DEF ReaderMoves
<1>5. pc'["reader"] = "failed"
    BY <1>1 DEF ByteType, PlacesType, Goroutines
<1>6. ByteType'
    BY <1>1, <1>2, <1>4, ReaderMovesTypes
<1>7. QED
    BY <1>1, <1>4, <1>5, <1>6

LEMMA DecodeChunkMoves ==
    ASSUME ByteType, DecodeChunk
    PROVE  /\ ByteType' /\ ReaderMoves /\ UNCHANGED <<torn, obfs, down>>
           /\ pc["reader"] = "decode" /\ pc'["reader"] = "read"
           /\ got' = got \o chunk /\ chunk' = <<>>
<1>1. /\ UNCHANGED <<kind, proto, written, arg, up, served, greeted, answered, broken, raced>>
      /\ UNCHANGED <<obfs, down, torn>> /\ pc["reader"] = "decode" /\ chunk' = <<>>
    BY DEF DecodeChunk, ReadStep
<1>2. /\ down \in Seq(Units) /\ chunk \in Seq(Units) /\ Len(chunk) <= AppBuf /\ AppBuf \in Nat
      /\ got \in Seq(Units) /\ decoder = NewDecoder /\ torn \in BOOLEAN /\ proto = "origin"
      /\ obfs.left \in Seq(Units) /\ obfs.recvd \in BOOLEAN
      /\ <<>> \in Seq(Units) /\ Len(<<>>) <= AppBuf
    BY PayloadIs DEF ByteType, Bytes, ReadType, ObfsType
<1>3. <<>> \o chunk = chunk
    BY <1>2, ConcatEmptySeq
<1>4. [decoder EXCEPT !.src = @ \o chunk] = [src |-> chunk, dst |-> <<>>, recvID |-> 1, rawTrans |-> FALSE, err |-> FALSE]
    <2>1. decoder = [src |-> <<>>, dst |-> <<>>, recvID |-> 1, rawTrans |-> FALSE, err |-> FALSE]
        BY <1>2 DEF NewDecoder
    <2> DEFINE s == decoder.src \o chunk
    <2>2. s = chunk
        <3>1. decoder.src = <<>>
            BY <2>1
        <3>2. QED
            BY <1>3, <3>1
    <2> HIDE DEF s
    <2>3. ASSUME NEW e, e = [decoder EXCEPT !.src = s]
          PROVE  e = [src |-> chunk, dst |-> <<>>, recvID |-> 1, rawTrans |-> FALSE, err |-> FALSE]
        BY <2>1, <2>2, <2>3
    <2>4. QED
        BY <2>3, Zenon DEF s
<1>5. Decode(proto, TRUE, [decoder EXCEPT !.src = @ \o chunk])
        = [src |-> <<>>, dst |-> chunk, recvID |-> 1, rawTrans |-> FALSE, err |-> FALSE]
    BY <1>2, <1>3, <1>4 DEF Decode
<1>6. Take(chunk, AppBuf) = chunk /\ Drop(chunk, AppBuf) = <<>>
    BY <1>2, TakeDrop
<1>7. got' = got \o chunk /\ pc' = [pc EXCEPT !["reader"] = "read"] /\ decoder' = NewDecoder
    <2> DEFINE d == Decode(proto, TRUE, [decoder EXCEPT !.src = @ \o chunk])
    <2>1. /\ IF d.err THEN Fails /\ UNCHANGED got
             ELSE /\ pc' = [pc EXCEPT !["reader"] = "read"]
                  /\ got' = got \o Take(d.dst, AppBuf)
          /\ decoder' = IF d.err THEN d ELSE [d EXCEPT !.dst = Drop(@, AppBuf)]
        BY DEF DecodeChunk
    <2>2. d = [src |-> <<>>, dst |-> chunk, recvID |-> 1, rawTrans |-> FALSE, err |-> FALSE]
        BY <1>5
    <2> HIDE DEF d
    <2>3. ~d.err /\ d.dst = chunk
        BY <2>2
    <2>4. decoder' = [d EXCEPT !.dst = <<>>]
        BY <1>6, <2>1, <2>3
    <2>5. decoder' = NewDecoder
        BY <2>2, <2>4 DEF NewDecoder
    <2>6. QED
        BY <1>6, <2>1, <2>3, <2>5
<1>8. got' \in Seq(Units)
    BY <1>2, <1>7, ConcatProperties
<1>9. ReaderMoves
    <2>1. obfs' = [obfs EXCEPT !.recvd = obfs.recvd, !.left = obfs.left]
        BY <1>1 DEF ByteType, ObfsType
    <2>2. QED
        BY <1>1, <1>2, <1>7, <2>1 DEF ReaderMoves
<1>10. pc'["reader"] = "read"
    BY <1>7 DEF ByteType, PlacesType, Goroutines
<1>11. ByteType'
    BY <1>1, <1>2, <1>7, <1>8, <1>9, ReaderMovesTypes
<1>12. QED
    BY <1>1, <1>7, <1>9, <1>10, <1>11

LEMMA ReadMoves ==
    ASSUME ByteType, Read
    PROVE  ByteType' /\ ReaderMoves
BY ReadsOf, ReadThroughMoves, ReadLeftMoves, TakeHeaderMoves, ReadGreetingMoves, ReadFailsMoves, DecodeChunkMoves

LEMMA ServerTypes ==
    ASSUME ByteType, UNCHANGED <<kind, proto, written, pc, arg, obfs, up, chunk, decoder, got, torn, raced>>,
           broken' \in BOOLEAN, greeted' \in BOOLEAN, answered' \in 0 .. Len(Answers), down' \in Seq(Units)
    PROVE  ByteType'
<1>1. Bytes' /\ ObfsType'
    BY DEF ByteType, Bytes, ObfsType
<1>2. PlacesType'
    BY DEF ByteType, PlacesType
<1>3. WriteType'
    BY DEF ByteType, WriteType
<1>4. ReadType'
    BY DEF ByteType, ReadType
<1>5. QED
    BY <1>1, <1>2, <1>3, <1>4 DEF ByteType

LEMMA GreetMoves ==
    ASSUME ByteType, Greet
    PROVE  /\ ByteType' /\ kind = "random_head" /\ ~greeted /\ greeted' /\ ~broken
           /\ down' = <<Unit("reply", 0, 0), Unit("reply", 0, 0)>>
           /\ UNCHANGED <<kind, proto, written, pc, arg, obfs, up, served, answered, chunk, decoder, got, torn,
                          broken, raced>>
<1>1. /\ UNCHANGED <<kind, proto, written, pc, arg, obfs, up, served, answered, chunk, decoder, got, torn,
                     broken, raced>>
      /\ kind = "random_head" /\ ~greeted /\ greeted' = TRUE /\ ~broken
      /\ down' = <<Unit("reply", 0, 0), Unit("reply", 0, 0)>>
    BY DEF Greet, ServerStep, client, reading, ByteType, Bytes, ByteKinds
<1>2. down' \in Seq(Units)
    BY <1>1 DEF Unit, Units, Names
<1>3. answered' \in 0 .. Len(Answers) /\ broken' \in BOOLEAN
    BY <1>1 DEF ByteType, ReadType, WriteType
<1>4. ByteType'
    BY <1>1, <1>2, <1>3, ServerTypes
<1>5. QED
    BY <1>1, <1>4

HeaderUnits == <<Unit("header", 0, 0), Unit("crlf", 0, 0)>>

LEMMA AnswerMoves ==
    ASSUME ByteType, Answer
    PROVE  /\ ByteType' /\ served # <<>> /\ ~broken /\ answered' = answered + 1
           /\ UNCHANGED <<kind, proto, written, pc, arg, obfs, up, served, greeted, chunk, decoder, got, torn,
                          broken, raced>>
           /\ Text(Answers, answered) \in Seq(Units)
           /\ \E m \in Seq(Data) :
                /\ Text(Answers, answered') = Text(Answers, answered) \o m
                /\ down' = IF kind \in HttpKinds /\ answered = 0 THEN (down \o HeaderUnits) \o m ELSE down \o m
<1> DEFINE m == Answers[answered + 1]
<1>1. /\ UNCHANGED <<kind, proto, written, pc, arg, obfs, up, served, greeted, chunk, decoder, got, torn,
                     broken, raced>>
      /\ served # <<>> /\ ~broken /\ answered' = answered + 1 /\ answered < Len(Answers)
    BY DEF Answer, ServerStep, client, reading
<1>2. /\ answered \in Nat /\ down \in Seq(Units) /\ kind \in ByteKinds /\ proto = "origin"
    BY PayloadIs DEF ByteType, Bytes, ReadType
<1>3. /\ Text(Answers, answered) \in Seq(Data) /\ m \in Seq(Data)
      /\ Text(Answers, answered + 1) = Text(Answers, answered) \o m /\ answered' \in 0 .. Len(Answers)
    BY <1>1, <1>2, PayloadIs, TextMore
<1>4. Seq(Data) \subseteq Seq(Units) /\ HeaderUnits \in Seq(Units)
    <2>1. Data \subseteq Units
        BY DEF Data, Units, Names
    <2>2. HeaderUnits \in Seq(Units)
        BY DEF HeaderUnits, Unit, Units, Names
    <2>3. QED
        BY <2>1, <2>2, SeqMonotonic
<1>5. down' = IF kind \in HttpKinds /\ answered = 0 THEN (down \o HeaderUnits) \o m ELSE down \o m
    <2>1. ServerFrame(proto, answered + 1, 1, Answers[answered + 1]) = m
        BY <1>2 DEF ServerFrame
    <2> HIDE DEF m
    <2>2. CASE kind \in {"plain", "random_head"}
        BY <2>1, <2>2 DEF Answer, HttpKinds
    <2>3. CASE kind \in HttpKinds
        <3>1. down' = down \o (IF answered = 0 THEN HeaderUnits ELSE <<>>) \o m
            BY <2>1, <2>3 DEF Answer, HttpKinds, HeaderUnits
        <3>2. down \o <<>> = down
            BY <1>2, ConcatEmptySeq
        <3>3. QED
            BY <2>3, <3>1, <3>2
    <2>4. QED
        BY <1>2, <2>2, <2>3 DEF ByteKinds, HttpKinds
<1> HIDE DEF m
<1>6. down' \in Seq(Units)
    <2>1. m \in Seq(Units) /\ down \o m \in Seq(Units) /\ down \o HeaderUnits \in Seq(Units)
        BY <1>2, <1>3, <1>4, ConcatProperties
    <2>2. (down \o HeaderUnits) \o m \in Seq(Units)
        BY <2>1, ConcatProperties
    <2>3. QED
        BY <1>5, <2>1, <2>2
<1>7. ByteType'
    <2>1. greeted' \in BOOLEAN /\ broken' \in BOOLEAN
        BY <1>1 DEF ByteType, ReadType, WriteType
    <2>2. QED
        BY <1>1, <1>3, <1>6, <2>1, ServerTypes
<1>8. QED
    BY <1>1, <1>3, <1>4, <1>5, <1>7

LEMMA NetFailsMoves ==
    ASSUME ByteType, NetFails
    PROVE  /\ ByteType' /\ ~broken /\ broken' /\ down' = <<>>
           /\ UNCHANGED <<kind, proto, written, pc, arg, obfs, up, served, greeted, answered, chunk, decoder, got,
                          torn, raced>>
<1>1. /\ ~broken /\ broken' = TRUE /\ down' = <<>>
      /\ UNCHANGED <<kind, proto, written, pc, arg, obfs, up, served, greeted, answered, chunk, decoder, got,
                     torn, raced>>
    BY DEF NetFails, client, reading
<1>2. <<>> \in Seq(Units)
    OBVIOUS
<1>3. answered' \in 0 .. Len(Answers) /\ greeted' \in BOOLEAN
    BY <1>1 DEF ByteType, ReadType
<1>4. ByteType'
    BY <1>1, <1>2, <1>3, ServerTypes
<1>5. QED
    BY <1>1, <1>4

(* Steps of the server and of the net leave the other direction alone. *)
LEMMA ServerUpInv ==
    ASSUME ByteType, UpInv, Server \/ NetFails
    PROVE  ByteType' /\ UpInv'
<1>1. /\ ByteType' /\ (broken => broken')
      /\ UNCHANGED <<kind, written, pc, arg, obfs, up, served, raced>>
    BY GreetMoves, AnswerMoves, NetFailsMoves DEF Server
<1>2. QED
    BY <1>1, UpInvKept

LEMMA StutterKeeps ==
    ASSUME ByteType, UpInv, UNCHANGED vars
    PROVE  /\ ByteType' /\ UpInv' /\ Failed' = Failed
           /\ UNCHANGED <<kind, pc, obfs, written, served, answered, got, raced, torn, down, chunk, greeted, broken>>
<1>1. UNCHANGED <<kind, proto, written, pc, arg, obfs, up, served, down, greeted, answered, chunk, decoder, got,
                  torn, broken, raced>>
    BY DEF vars, client, server, reading
<1>2. ByteType'
    <2>1. /\ answered' \in 0 .. Len(Answers) /\ greeted' \in BOOLEAN /\ broken' \in BOOLEAN
          /\ down' \in Seq(Units)
        BY <1>1 DEF ByteType, ReadType, WriteType
    <2>2. QED
        BY <1>1, <2>1, ServerTypes
<1>3. UpInv'
    BY <1>1, UpInvKept
<1>4. QED
    BY <1>1, <1>2, <1>3 DEF Failed

-----------------------------------------------------------------------------
(* The upload of the byte-passing layers. *)

LEMMA ServedIsText ==
    ASSUME ByteType, UpInv, ~raced
    PROVE  IsPrefix(served, Text(Messages, written))
<1>1. Covers(Units, served, Text(Messages, written))
    BY DEF UpInv, UpTextInv, Covers
<1>2. served \in Seq(Units)
    BY ServedType DEF UpInv
<1>3. QED
    BY <1>1, <1>2, CoversIsPrefix

LEMMA PrefixMore ==
    ASSUME NEW S, NEW s \in Seq(S), NEW m \in Seq(S), NEW t, t = s \o m
    PROVE  t = s \/ IsStrictPrefix(s, t)
<1>1. Covers(S, s, t)
    BY DEF Covers
<1>2. IsPrefix(s, t)
    BY <1>1, CoversIsPrefix
<1>3. QED
    BY <1>2 DEF IsStrictPrefix

UploadVars == <<Text(Messages, written), served, Failed, raced>>

LEMMA UploadStep ==
    ASSUME ByteType, UpInv, [OutboundNext]_all
    PROVE  ByteType' /\ UpInv' /\ [Upload!Next]_(Upload!vars)
<1>1. Upload!vars = UploadVars /\ Upload!vars' = UploadVars'
    BY DEF Upload!vars, UploadVars, Text
<1>2. raced' => Upload!Next
    BY DEF Upload!Next, Upload!Void
<1>3. CASE UNCHANGED vars
    BY <1>1, <1>3, StutterKeeps DEF UploadVars
<1>4. CASE WriteMessage
    <2>1. /\ ByteType' /\ UpInv' /\ UNCHANGED <<served, raced>> /\ Failed' = Failed
        BY <1>4, WriteMessageInv
    <2>2. Text(Messages, written') = Text(Messages, written)
          \/ IsStrictPrefix(Text(Messages, written), Text(Messages, written'))
        BY <1>4, WriteMessageInv, PrefixMore
    <2>3. CASE Text(Messages, written') = Text(Messages, written)
        BY <1>1, <2>1, <2>3 DEF UploadVars
    <2>4. CASE IsStrictPrefix(Text(Messages, written), Text(Messages, written'))
        <3>1. Upload!Send
            BY <2>1, <2>4 DEF Upload!Send, Text, Upload!IsStrictPrefix, Upload!IsPrefix, IsStrictPrefix, IsPrefix
        <3>2. QED
            BY <2>1, <3>1 DEF Upload!Next
    <2>5. QED
        BY <2>2, <2>3, <2>4
<1>5. ASSUME NEW p \in Goroutines, Write(p)
      PROVE  ByteType' /\ UpInv' /\ [Upload!Next]_(Upload!vars)
    <2>1. ByteType' /\ UpInv' /\ Grows
        BY <1>5, WriteInv
    <2>2. Failed' = Failed /\ written' = written /\ raced' = (raced \/ pc[Other(p)] \in Inside)
        BY <1>5, WriteFailsNot
    <2>3. CASE raced'
        BY <1>2, <2>1, <2>3
    <2>4. CASE ~raced'
        <3>1. raced' = raced
            BY <2>2, <2>4 DEF ByteType, WriteType
        <3>2. served \in Seq(Units)
            BY ServedType DEF UpInv
        <3>3. served' = served \/ IsStrictPrefix(served, served')
            BY <2>1, <3>2, PrefixMore DEF Grows
        <3>4. IsPrefix(served', Text(Messages, written))
            <4>1. (IsPrefix(served, Text(Messages, written)))'
                BY <2>1, <2>4, ServedIsText, PTL
            <4>2. QED
                BY <2>2, <4>1
        <3>5. CASE served' = served
            BY <1>1, <2>1, <2>2, <3>1, <3>5 DEF UploadVars
        <3>6. CASE IsStrictPrefix(served, served')
            <4>1. Upload!Deliver
                BY <2>2, <3>1, <3>4, <3>6 DEF Upload!Deliver, Text, Upload!IsStrictPrefix, Upload!IsPrefix, IsStrictPrefix,
                                            IsPrefix
            <4>2. QED
                BY <2>1, <4>1 DEF Upload!Next
        <3>7. QED
            BY <3>3, <3>5, <3>6
    <2>5. QED
        BY <2>3, <2>4
<1>6. CASE Read
    <2>1. ByteType' /\ ReaderMoves
        BY <1>6, ReadMoves
    <2>2. UpInv' /\ UNCHANGED <<written, served, raced>> /\ (Failed => Failed')
        BY <2>1, ReaderMovesUp
    <2>3. CASE Failed'
        <3>1. Upload!Cut
            BY <2>2, <2>3 DEF Upload!Cut
        <3>2. QED
            BY <2>1, <2>2, <3>1 DEF Upload!Next
    <2>4. CASE ~Failed'
        BY <1>1, <2>1, <2>2, <2>4 DEF UploadVars, Failed
    <2>5. QED
        BY <2>3, <2>4
<1>7. CASE Server
    <2>1. ByteType' /\ UpInv'
        BY <1>7, ServerUpInv
    <2>2. UNCHANGED <<written, served, raced, pc, broken>>
        BY <1>7, GreetMoves, AnswerMoves DEF Server
    <2>3. QED
        BY <1>1, <2>1, <2>2 DEF UploadVars, Failed
<1>8. CASE NetFails
    <2>1. ByteType' /\ UpInv'
        BY <1>8, ServerUpInv
    <2>2. UNCHANGED <<written, served, raced>> /\ Failed'
        BY <1>8, NetFailsMoves DEF Failed
    <2>3. Upload!Cut
        BY <2>2 DEF Upload!Cut
    <2>4. QED
        BY <2>1, <2>3 DEF Upload!Next
<1>9. Next \/ UNCHANGED vars
    BY DEF OutboundNext, Connection, Instance, all
<1>10. QED
    BY <1>3, <1>4, <1>5, <1>6, <1>7, <1>8, <1>9 DEF Next

(* An unobfuscated connection, the http obfuscations and random_head, under *)
(* the protocol origin: what the app writes comes out at the server once    *)
(* and in order, through the handshake and the writes that random_head      *)
(* holds back, up to the failure of the connection or the reader's          *)
(* Write(nil) within another Write.                                         *)
THEOREM BytesUploadIsPipe ==
    OutboundSpec /\ Bytes => Upload!Safe
<1>1. OutboundInit /\ Bytes => ByteType /\ UpInv /\ Upload!Init
    <2> SUFFICES ASSUME OutboundInit, Bytes PROVE ByteType /\ UpInv /\ Upload!Init
        OBVIOUS
    <2>1. Init
        BY DEF OutboundInit
    <2>2. Text(Messages, written) = <<>> /\ served = <<>> /\ ~raced
        BY <2>1, PayloadIs, TextIs DEF Init
    <2>3. ~Failed
        BY <2>1 DEF Init, Failed, Goroutines
    <2>4. QED
        BY <2>1, <2>2, <2>3, BytesInit DEF Upload!Init, Text
<1>2. ByteType /\ UpInv /\ [OutboundNext]_all => ByteType' /\ UpInv' /\ [Upload!Next]_(Upload!vars)
    BY UploadStep
<1>3. QED
    BY <1>1, <1>2, PTL DEF OutboundSpec, Upload!Safe

-----------------------------------------------------------------------------
(* The download of the byte-passing layers. *)

ReplyUnits == <<Unit("reply", 0, 0), Unit("reply", 0, 0)>>

(* What the server's obfuscation put before the answers and the reader has  *)
(* not read.                                                                *)
Heading ==
    IF obfs.recvd THEN <<>>
    ELSE IF kind \in HttpKinds /\ answered > 0 THEN HeaderUnits
    ELSE IF kind = "random_head" /\ greeted THEN ReplyUnits
    ELSE <<>>

(* What the connection has taken out of the raw one. *)
Taken == (got \o chunk) \o obfs.left

DownStateInv ==
    /\ broken => down = <<>>
    /\ ~obfs.recvd \/ kind \notin HttpKinds => obfs.left = <<>>
    /\ kind \in HttpKinds /\ obfs.recvd => answered > 0
    /\ kind = "random_head" => (answered > 0 => obfs.recvd) /\ (obfs.recvd => greeted \/ broken)
    /\ torn => kind = "random_head" /\ obfs.recvd

(* What the server answered is what was taken, and then what is under way,  *)
(* unless the reader has failed on it or the connection has lost it.        *)
DownTextInv ==
    ~torn => \E r \in Seq(Data) :
                /\ Text(Answers, answered) = Taken \o r
                /\ ~broken /\ pc["reader"] # "failed" => down = Heading \o r

DownInv == DownStateInv /\ DownTextInv

LEMMA DataUnits ==
    /\ Seq(Data) \subseteq Seq(Units) /\ HeaderUnits \in Seq(Units) /\ ReplyUnits \in Seq(Units)
    /\ <<>> \in Seq(Data) /\ <<>> \in Seq(Units)
    /\ HeaderUnits # <<>> /\ ReplyUnits # <<>> /\ Len(HeaderUnits) = 2
<1>1. Data \subseteq Units
    BY DEF Data, Units, Names
<1>2. Seq(Data) \subseteq Seq(Units)
    BY <1>1, SeqMonotonic
<1>3. QED
    BY <1>2 DEF HeaderUnits, ReplyUnits, Unit, Units, Names

LEMMA UnitsEmpty ==
    \A x \in Seq(Units) : x \o <<>> = x /\ <<>> \o x = x
BY ConcatEmptySeq

LEMMA RestIn ==
    ASSUME NEW S, NEW T, NEW a \in Seq(T), NEW b \in Seq(T), a \o b \in Seq(S)
    PROVE  b \in Seq(S)
<1>1. Len(a) \in Nat /\ Len(b) \in Nat /\ Len(a \o b) = Len(a) + Len(b)
    BY LenProperties, ConcatProperties
<1>2. \A i \in 1 .. Len(b) : b[i] \in S
    <2> SUFFICES ASSUME NEW i \in 1 .. Len(b) PROVE b[i] \in S
        OBVIOUS
    <2>1. Len(a) + i \in 1 .. Len(a) + Len(b) /\ ~(Len(a) + i <= Len(a)) /\ (Len(a) + i) - Len(a) = i
        BY <1>1
    <2>2. (a \o b)[Len(a) + i] = b[i]
        BY <2>1, ConcatProperties
    <2>3. (a \o b)[Len(a) + i] \in S
        BY <1>1, <2>1, ElementOfSeq
    <2>4. QED
        BY <2>2, <2>3
<1>3. b \in [1 .. Len(b) -> S]
    BY <1>2, LenProperties
<1>4. QED
    BY <1>1, <1>3, SeqDef

(* The types that the steps need. *)
LEMMA DownTypes ==
    ASSUME ByteType
    PROVE  /\ got \in Seq(Units) /\ chunk \in Seq(Units) /\ obfs.left \in Seq(Units) /\ down \in Seq(Units)
           /\ got \o chunk \in Seq(Units) /\ Taken \in Seq(Units) /\ Heading \in Seq(Units)
           /\ Text(Answers, answered) \in Seq(Units) /\ Text(Answers, 0) = <<>>
           /\ answered \in Nat /\ torn \in BOOLEAN /\ broken \in BOOLEAN /\ raced \in BOOLEAN
           /\ (pc["reader"] # "decode" => chunk = <<>>)
<1>1. /\ got \in Seq(Units) /\ chunk \in Seq(Units) /\ obfs.left \in Seq(Units) /\ down \in Seq(Units)
      /\ answered \in 0 .. Len(Answers) /\ torn \in BOOLEAN /\ broken \in BOOLEAN /\ raced \in BOOLEAN
      /\ (pc["reader"] # "decode" => chunk = <<>>)
    BY DEF ByteType, ReadType, WriteType, ObfsType
<1>2. answered \in Nat /\ Text(Answers, answered) \in Seq(Units) /\ Text(Answers, 0) = <<>>
    BY <1>1, PayloadIs, TextIs
<1>3. got \o chunk \in Seq(Units)
    BY <1>1, ConcatProperties
<1>4. Taken \in Seq(Units)
    BY <1>1, <1>3, ConcatProperties DEF Taken
<1>5. Heading \in Seq(Units)
    BY DataUnits DEF Heading
<1>6. QED
    BY <1>1, <1>2, <1>3, <1>4, <1>5

LEMMA NothingAnswered ==
    ASSUME ByteType, answered = 0, NEW r \in Seq(Data), Text(Answers, answered) = Taken \o r
    PROVE  r = <<>> /\ Taken = <<>>
<1>1. Taken \o r = <<>> /\ Taken \in Seq(Units) /\ r \in Seq(Units)
    BY DownTypes, DataUnits
<1>2. QED
    BY <1>1, ConcatSimplifications

LEMMA DownKept ==
    ASSUME ByteType, DownInv,
           UNCHANGED <<kind, answered, greeted, got, chunk, down, torn, broken, obfs.recvd, obfs.left>>,
           pc["reader"] = "failed" => pc'["reader"] = "failed"
    PROVE  DownInv'
<1>1. DownStateInv'
    BY DEF DownInv, DownStateInv
<1>2. Heading' = Heading /\ Taken' = Taken
    BY DEF Heading, Taken
<1>3. DownTextInv'
    BY <1>2 DEF DownInv, DownTextInv
<1>4. QED
    BY <1>1, <1>3 DEF DownInv

LEMMA DownInit ==
    ASSUME Init, ByteType
    PROVE  DownInv
<1>1. /\ obfs.recvd = FALSE /\ obfs.left = <<>> /\ answered = 0 /\ torn = FALSE /\ down = <<>> /\ greeted = FALSE
      /\ got = <<>> /\ chunk = <<>>
    BY DEF Init, NewObfs
<1>2. DownStateInv
    BY <1>1 DEF DownStateInv
<1>3. Taken = <<>> /\ Heading = <<>> /\ <<>> \o <<>> = <<>> /\ Text(Answers, answered) = <<>>
    BY <1>1, UnitsEmpty, DataUnits, DownTypes DEF Taken, Heading
<1>4. DownTextInv
    BY <1>1, <1>3, DataUnits DEF DownTextInv
<1>5. QED
    BY <1>2, <1>4 DEF DownInv

LEMMA WriteObfs ==
    ASSUME ByteType, NEW p \in Goroutines, Write(p)
    PROVE  obfs'.recvd = obfs.recvd /\ obfs'.left = obfs.left
<1>1. kind \in ByteKinds /\ pc[p] \in Places
    BY DEF ByteType, Bytes, PlacesType
<1>2. ~WriteTlsChunk(p) /\ ~TicketWrite(p) /\ ~TicketAppend(p) /\ ~TicketSet8(p) /\ ~TicketSend(p)
    BY <1>1 DEF ByteKinds, WriteTlsChunk, TicketWrite, TicketAppend, Places, WritePlaces, TicketSet8, TicketSend
<1>3. CASE WriteThrough(p) \/ WriteHeld(p) \/ RandomHeadFlush(p)
    BY <1>3 DEF WriteThrough, WriteHeld, RandomHeadFlush
<1>4. CASE WriteHttpHeader(p) \/ WriteHttpRequest(p)
    <2>1. obfs' = [obfs EXCEPT !.sent = TRUE]
        BY <1>4 DEF WriteHttpHeader, WriteHttpRequest
    <2>2. QED
        BY <2>1 DEF ByteType, ObfsType
<1>5. CASE RandomHeadAppend(p)
    <2>1. obfs' = [obfs EXCEPT !.pend = @ \o arg[p], !.sent = TRUE]
        BY <1>5 DEF RandomHeadAppend
    <2>2. QED
        BY <2>1 DEF ByteType, ObfsType
<1>6. CASE RandomHeadClear(p)
    <2>1. obfs' = [obfs EXCEPT !.pend = <<>>, !.rawSent = TRUE]
        BY <1>6 DEF RandomHeadClear
    <2>2. QED
        BY <2>1 DEF ByteType, ObfsType
<1>7. QED
    BY <1>2, <1>3, <1>4, <1>5, <1>6 DEF Write

LEMMA DownThrough ==
    ASSUME ByteType, DownInv, ReadThrough
    PROVE  DownInv'
<1>1. /\ ByteType' /\ UNCHANGED <<got, torn, obfs, kind, answered, greeted, broken>>
      /\ pc["reader"] = "read" /\ down # <<>> /\ down = chunk' \o down'
    BY ReadThroughMoves DEF ReaderMoves
<1>2. ~broken /\ chunk = <<>> /\ obfs.left = <<>> /\ Heading = <<>> /\ Heading' = <<>>
    <2>1. ~broken /\ chunk = <<>>
        BY <1>1, DownTypes DEF DownInv, DownStateInv
    <2>2. \/ kind \notin HttpKinds /\ kind # "random_head"
          \/ kind \in HttpKinds /\ obfs.recvd /\ obfs.left = <<>>
          \/ kind = "random_head" /\ obfs.recvd /\ kind \notin HttpKinds
        BY DEF ReadThrough, HttpKinds
    <2>3. QED
        BY <1>1, <2>1, <2>2 DEF DownInv, DownStateInv, Heading
<1>3. DownStateInv'
    BY <1>1, <1>2 DEF DownInv, DownStateInv
<1>4. DownTextInv'
    <2> SUFFICES ASSUME ~torn'
                 PROVE  \E r \in Seq(Data) :
                           /\ Text(Answers, answered) = Taken' \o r
                           /\ down' = Heading' \o r
        BY <1>1 DEF DownTextInv
    <2>1. PICK r \in Seq(Data) : Text(Answers, answered) = Taken \o r /\ down = Heading \o r
        BY <1>1, <1>2 DEF DownInv, DownTextInv
    <2>2. got \in Seq(Units) /\ chunk' \in Seq(Units) /\ down' \in Seq(Units) /\ r \in Seq(Units)
          /\ got \o chunk' \in Seq(Units)
        BY <1>1, DownTypes, DataUnits, ConcatProperties DEF ByteType, ReadType
    <2>3. r = chunk' \o down'
        BY <1>1, <1>2, <2>1, <2>2, UnitsEmpty
    <2>4. Taken = got /\ Taken' = got \o chunk'
        BY <1>1, <1>2, <2>2, UnitsEmpty DEF Taken
    <2>5. (got \o chunk') \o down' = got \o (chunk' \o down')
        BY <2>2, UnitsInRow, Zenon
    <2>6. down' \in Seq(Data)
        BY <2>2, <2>3, RestIn
    <2>7. down' = Heading' \o down'
        BY <1>2, <2>2, UnitsEmpty
    <2>8. QED
        BY <2>1, <2>3, <2>4, <2>5, <2>6, <2>7
<1>5. QED
    BY <1>3, <1>4 DEF DownInv

LEMMA DownLeft ==
    ASSUME ByteType, DownInv, ReadLeft
    PROVE  DownInv'
<1>1. /\ ByteType' /\ UNCHANGED <<got, torn, down, kind, answered, greeted, broken>>
      /\ pc["reader"] = "read" /\ chunk = <<>>
      /\ obfs.left = chunk' \o obfs'.left /\ obfs'.recvd = obfs.recvd /\ obfs.left # <<>>
    BY ReadLeftMoves, DownTypes DEF ReaderMoves
<1>2. DownStateInv' /\ Heading' = Heading
    BY <1>1 DEF DownInv, DownStateInv, Heading
<1>3. Taken' = Taken
    <2>1. got \in Seq(Units) /\ chunk' \in Seq(Units) /\ obfs'.left \in Seq(Units)
        BY <1>1, DownTypes DEF ByteType, ReadType, ObfsType
    <2>2. Taken = got \o obfs.left /\ Taken' = (got \o chunk') \o obfs'.left
        BY <1>1, <2>1, UnitsEmpty DEF Taken
    <2>3. (got \o chunk') \o obfs'.left = got \o (chunk' \o obfs'.left)
        BY <2>1, UnitsInRow, Zenon
    <2>4. QED
        BY <1>1, <2>2, <2>3
<1>4. DownTextInv'
    BY <1>1, <1>2, <1>3 DEF DownInv, DownTextInv
<1>5. QED
    BY <1>2, <1>4 DEF DownInv

(* The end of the response header is the second unit of what was sent. *)
LEMMA HeaderCut ==
    ASSUME NEW r \in Seq(Data), NEW b \in Seq(Units), NEW d \in Seq(Units), HeaderUnits \o r = b \o d,
           NEW pos \in 1 .. Len(b), b[pos] = Crlf
    PROVE  r = Drop(b, pos) \o d /\ Drop(b, pos) \in Seq(Units)
<1>1. /\ r \in Seq(Units) /\ HeaderUnits \in Seq(Units) /\ Len(HeaderUnits) = 2
      /\ Len(b) \in Nat /\ Len(d) \in Nat /\ Len(r) \in Nat
    BY DataUnits, LenProperties
<1>2. pos \in Nat /\ pos >= 1 /\ pos <= Len(b) /\ pos \in 1 .. Len(b) + Len(d)
    BY <1>1
<1>3. (b \o d)[pos] = Crlf
    BY <1>2, ConcatProperties
<1>4. Len(b) + Len(d) = 2 + Len(r)
    <2>1. Len(HeaderUnits \o r) = Len(HeaderUnits) + Len(r)
        BY <1>1, ConcatProperties
    <2>2. Len(b \o d) = Len(b) + Len(d)
        BY ConcatProperties
    <2>3. QED
        BY <1>1, <2>1, <2>2
<1>5. (HeaderUnits \o r)[pos] = IF pos <= 2 THEN HeaderUnits[pos] ELSE r[pos - 2]
    BY <1>1, <1>2, <1>4, ConcatProperties
<1>6. pos = 2
    <2>1. CASE pos > 2
        <3>1. pos - 2 \in 1 .. Len(r) /\ ~(pos <= 2)
            BY <1>1, <1>2, <1>4, <2>1
        <3>2. r[pos - 2] \in Data
            BY <3>1, ElementOfSeq
        <3>3. r[pos - 2] = Crlf
            BY <1>3, <1>5, <3>1
        <3>4. QED
            BY <3>2, <3>3 DEF Data, Crlf, Unit
    <2>2. CASE pos = 1
        <3>1. HeaderUnits[1] = Crlf
            BY <1>3, <1>5, <2>2
        <3>2. QED
            BY <3>1 DEF HeaderUnits, Crlf, Unit
    <2>3. QED
        BY <1>2, <2>1, <2>2
<1>7. /\ Take(b, 2) \in Seq(Units) /\ Drop(b, 2) \in Seq(Units) /\ b = Take(b, 2) \o Drop(b, 2)
      /\ Len(Take(b, 2)) = (IF 2 < Len(b) THEN 2 ELSE Len(b))
    BY TakeDrop
<1>8. Len(Take(b, 2)) = 2
    <2>1. Len(b) \in Nat /\ 2 <= Len(b)
        BY <1>1, <1>2, <1>6
    <2>2. Len(Take(b, 2)) = (IF 2 < Len(b) THEN 2 ELSE Len(b))
        BY <1>7
    <2>3. CASE 2 < Len(b)
        BY <2>2, <2>3, Zenon
    <2>4. CASE ~(2 < Len(b))
        <3>1. Len(b) = 2
            <4>1. \A n \in Nat : 2 <= n /\ ~(2 < n) => n = 2
                OBVIOUS
            <4>2. QED
                BY <2>1, <2>4, <4>1, Zenon
        <3>2. Len(Take(b, 2)) = Len(b)
            BY <2>2, <2>4, Zenon
        <3>3. QED
            BY <3>1, <3>2, Zenon
    <2>5. QED
        BY <2>3, <2>4
<1>9. (Take(b, 2) \o Drop(b, 2)) \o d = Take(b, 2) \o (Drop(b, 2) \o d) /\ Drop(b, 2) \o d \in Seq(Units)
    BY <1>7, UnitsInRow, ConcatProperties
<1>10. HeaderUnits \o r = Take(b, 2) \o (Drop(b, 2) \o d)
    BY <1>7, <1>9
<1>11. r = Drop(b, 2) \o d
    <2> DEFINE t == Take(b, 2)
               u == Drop(b, 2) \o d
    <2>1. t \in Seq(Units) /\ u \in Seq(Units) /\ HeaderUnits \in Seq(Units) /\ r \in Seq(Units)
        BY <1>1, <1>7, <1>9
    <2>2. HeaderUnits \o r = t \o u /\ Len(HeaderUnits) = Len(t)
        BY <1>1, <1>8, <1>10
    <2> HIDE DEF t, u
    <2>3. r = u
        BY <2>1, <2>2, SplitSame, Zenon
    <2>4. QED
        BY <2>3 DEF u
<1>12. QED
    BY <1>6, <1>7, <1>11

LEMMA DownHeader ==
    ASSUME ByteType, DownInv, kind \in HttpKinds, TakeHeader
    PROVE  DownInv'
<1>1. /\ ByteType' /\ UNCHANGED <<got, torn, kind, answered, greeted, broken>>
      /\ pc["reader"] = "read" /\ ~obfs.recvd /\ chunk = <<>>
    BY TakeHeaderMoves, DownTypes DEF ReaderMoves
<1>2. PICK b \in Seq(Units) :
           /\ b # <<>> /\ down = b \o down'
           /\ \/ pc'["reader"] = "failed" /\ UNCHANGED <<obfs, chunk>>
              \/ /\ pc'["reader"] = "decode" /\ obfs'.recvd
                 /\ \E pos \in 1 .. Len(b) : b[pos] = Crlf /\ Drop(b, pos) = chunk' \o obfs'.left
    BY TakeHeaderMoves
<1>3. /\ got \in Seq(Units) /\ down \in Seq(Units) /\ down' \in Seq(Units)
      /\ chunk' \in Seq(Units) /\ obfs'.left \in Seq(Units)
    BY <1>1, DownTypes DEF ByteType, ReadType, ObfsType
<1>4. ~broken /\ obfs.left = <<>> /\ ~torn /\ kind # "random_head" /\ down # <<>>
    <2>1. down # <<>>
        BY <1>2, <1>3, ConcatSimplifications
    <2>2. kind # "random_head"
        BY DEF HttpKinds
    <2>3. QED
        BY <1>1, <2>1, <2>2 DEF DownInv, DownStateInv
<1>5. PICK r \in Seq(Data) : Text(Answers, answered) = Taken \o r /\ down = Heading \o r
    BY <1>1, <1>4 DEF DownInv, DownTextInv
<1>6. CASE pc'["reader"] = "failed" /\ UNCHANGED <<obfs, chunk>>
    <2>1. DownStateInv'
        BY <1>1, <1>4, <1>6 DEF DownInv, DownStateInv
    <2>2. Taken' = Taken
        BY <1>1, <1>6 DEF Taken
    <2>3. DownTextInv'
        BY <1>1, <1>5, <1>6, <2>2 DEF DownTextInv
    <2>4. QED
        BY <2>1, <2>3 DEF DownInv
<1>7. CASE /\ pc'["reader"] = "decode" /\ obfs'.recvd
           /\ \E pos \in 1 .. Len(b) : b[pos] = Crlf /\ Drop(b, pos) = chunk' \o obfs'.left
    <2>1. PICK pos \in 1 .. Len(b) : b[pos] = Crlf /\ Drop(b, pos) = chunk' \o obfs'.left
        BY <1>7
    <2>2. answered > 0
        <3>1. SUFFICES ASSUME answered = 0 PROVE FALSE
            BY DownTypes
        <3>2. r = <<>>
            BY <1>5, <3>1, NothingAnswered
        <3>3. Heading = <<>>
            BY <1>1, <1>4, <3>1 DEF Heading
        <3>4. QED
            BY <1>4, <1>5, <3>2, <3>3, UnitsEmpty, DataUnits
    <2>3. Heading = HeaderUnits /\ Heading' = <<>>
        BY <1>1, <1>7, <2>2 DEF Heading
    <2>4. r = Drop(b, pos) \o down' /\ Drop(b, pos) \in Seq(Units)
        <3>1. HeaderUnits \o r = b \o down'
            BY <1>2, <1>5, <2>3
        <3>2. QED
            BY <1>3, <2>1, <3>1, HeaderCut
    <2>5. DownStateInv'
        BY <1>1, <1>4, <1>7, <2>2 DEF DownInv, DownStateInv
    <2>6. Taken = got /\ Taken' = (got \o chunk') \o obfs'.left
        BY <1>1, <1>3, <1>4, UnitsEmpty DEF Taken
    <2>7. Taken' \o down' = got \o r
        <3>1. (got \o chunk') \o obfs'.left = got \o Drop(b, pos)
            <4>1. got \in Seq(Units) /\ chunk' \in Seq(Units) /\ obfs'.left \in Seq(Units)
                BY <1>3
            <4>2. (got \o chunk') \o obfs'.left = got \o (chunk' \o obfs'.left)
                BY <4>1, UnitsInRow, Zenon
            <4>3. QED
                BY <2>1, <4>2
        <3>2. (got \o Drop(b, pos)) \o down' = got \o (Drop(b, pos) \o down')
            <4>1. got \in Seq(Units) /\ Drop(b, pos) \in Seq(Units) /\ down' \in Seq(Units)
                BY <1>3, <2>4
            <4>2. QED
                BY <4>1, UnitsInRow, Zenon
        <3>3. QED
            BY <2>4, <2>6, <3>1, <3>2
    <2>8. down' \in Seq(Data) /\ down' = Heading' \o down'
        BY <1>3, <2>3, <2>4, RestIn, UnitsEmpty
    <2>9. DownTextInv'
        BY <1>1, <1>5, <2>6, <2>7, <2>8 DEF DownTextInv
    <2>10. QED
        BY <2>5, <2>9 DEF DownInv
<1>8. QED
    BY <1>2, <1>6, <1>7

LEMMA DownGreeting ==
    ASSUME ByteType, DownInv, ReadGreeting
    PROVE  DownInv'
<1>1. /\ ByteType' /\ UNCHANGED <<got, chunk, kind, answered, greeted, broken>> /\ kind = "random_head"
      /\ pc["reader"] = "read" /\ ~obfs.recvd /\ obfs'.recvd /\ obfs'.left = obfs.left
      /\ \/ /\ torn' = (down' # <<>>)
            /\ \E b \in Seq(Units) : b # <<>> /\ down = b \o down'
         \/ broken /\ UNCHANGED <<down, torn>>
    BY ReadGreetingMoves DEF ReaderMoves
<1>2. ~torn /\ answered = 0 /\ Heading' = <<>> /\ Taken' = Taken
    BY <1>1, DownTypes DEF DownInv, DownStateInv, Heading, Taken
<1>3. PICK r \in Seq(Data) :
           Text(Answers, answered) = Taken \o r /\ (~broken => down = Heading \o r)
    BY <1>1, <1>2 DEF DownInv, DownTextInv
<1>4. r = <<>>
    BY <1>2, <1>3, NothingAnswered
<1>5. CASE /\ torn' = (down' # <<>>)
           /\ \E b \in Seq(Units) : b # <<>> /\ down = b \o down'
    <2>1. down # <<>>
        <3>1. down' \in Seq(Units)
            BY <1>1 DEF ByteType, ReadType
        <3>2. QED
            BY <1>5, <3>1, ConcatSimplifications
    <2>2. ~broken /\ greeted
        <3>1. ~broken
            BY <2>1 DEF DownInv, DownStateInv
        <3>2. Heading # <<>>
            BY <1>3, <1>4, <2>1, <3>1, UnitsEmpty, DataUnits
        <3>3. QED
            BY <1>1, <1>2, <3>1, <3>2 DEF Heading, HttpKinds
    <2>3. DownStateInv'
        BY <1>1, <1>2, <2>2 DEF DownInv, DownStateInv, HttpKinds
    <2>4. ~torn' => down' = Heading' \o r
        BY <1>2, <1>4, <1>5, UnitsEmpty, DataUnits
    <2>5. DownTextInv'
        BY <1>1, <1>2, <1>3, <2>4 DEF DownTextInv
    <2>6. QED
        BY <2>3, <2>5 DEF DownInv
<1>6. CASE broken /\ UNCHANGED <<down, torn>>
    <2>1. DownStateInv'
        BY <1>1, <1>2, <1>6 DEF DownInv, DownStateInv, HttpKinds
    <2>2. DownTextInv'
        BY <1>1, <1>2, <1>3, <1>6 DEF DownTextInv
    <2>3. QED
        BY <2>1, <2>2 DEF DownInv
<1>7. QED
    BY <1>1, <1>5, <1>6

LEMMA DownDecode ==
    ASSUME ByteType, DownInv, DecodeChunk
    PROVE  DownInv'
<1>1. /\ ByteType' /\ UNCHANGED <<torn, obfs, down, kind, answered, greeted, broken>>
      /\ pc["reader"] = "decode" /\ pc'["reader"] = "read" /\ got' = got \o chunk /\ chunk' = <<>>
    BY DecodeChunkMoves DEF ReaderMoves
<1>2. Heading' = Heading
    BY <1>1 DEF Heading
<1>3. Taken' = Taken
    <2>1. (got \o chunk) \o <<>> = got \o chunk
        BY DownTypes, UnitsEmpty
    <2>2. QED
        BY <1>1, <2>1 DEF Taken
<1>4. DownStateInv'
    BY <1>1 DEF DownInv, DownStateInv
<1>5. DownTextInv'
    BY <1>1, <1>2, <1>3 DEF DownInv, DownTextInv
<1>6. QED
    BY <1>4, <1>5 DEF DownInv

LEMMA DownGreet ==
    ASSUME ByteType, DownInv, Greet
    PROVE  DownInv'
<1>1. /\ kind = "random_head" /\ ~greeted /\ greeted' /\ ~broken /\ down' = ReplyUnits
      /\ UNCHANGED <<kind, pc, obfs, answered, chunk, got, torn, broken>>
    BY GreetMoves DEF ReplyUnits
<1>2. ~obfs.recvd /\ answered = 0 /\ ~torn
    BY <1>1, DownTypes DEF DownInv, DownStateInv
<1>3. DownStateInv'
    BY <1>1, <1>2 DEF DownInv, DownStateInv
<1>4. PICK r \in Seq(Data) : Text(Answers, answered) = Taken \o r
    BY <1>2 DEF DownInv, DownTextInv
<1>5. Heading' = ReplyUnits /\ Taken' = Taken
    BY <1>1, <1>2 DEF Heading, Taken, HttpKinds
<1>6. down' = Heading' \o r
    BY <1>1, <1>2, <1>4, <1>5, NothingAnswered, UnitsEmpty, DataUnits
<1>7. DownTextInv'
    BY <1>1, <1>4, <1>5, <1>6 DEF DownTextInv
<1>8. QED
    BY <1>3, <1>7 DEF DownInv

LEMMA DownAnswer ==
    ASSUME ByteType, UpInv, DownInv, Answer
    PROVE  DownInv'
<1>1. /\ served # <<>> /\ ~broken /\ answered' = answered + 1 /\ answered \in Nat
      /\ UNCHANGED <<kind, pc, obfs, greeted, chunk, got, torn, broken>>
    BY AnswerMoves, DownTypes
<1>2. PICK m \in Seq(Data) :
           /\ Text(Answers, answered') = Text(Answers, answered) \o m
           /\ down' = IF kind \in HttpKinds /\ answered = 0 THEN (down \o HeaderUnits) \o m ELSE down \o m
    BY AnswerMoves
<1>3. kind = "random_head" => obfs.recvd
    BY <1>1 DEF UpInv, HandshakeInv
<1>4. answered' > 0
    BY <1>1
<1>5. DownStateInv'
    BY <1>1, <1>3, <1>4 DEF DownInv, DownStateInv
<1>6. DownTextInv'
    <2> SUFFICES ASSUME ~torn PROVE DownTextInv'
        BY <1>1 DEF DownTextInv
    <2>1. PICK r \in Seq(Data) :
               Text(Answers, answered) = Taken \o r /\ (pc["reader"] # "failed" => down = Heading \o r)
        BY <1>1 DEF DownInv, DownTextInv
    <2>2. r \o m \in Seq(Data) /\ r \in Seq(Units) /\ m \in Seq(Units) /\ Taken \in Seq(Units) /\ Heading \in Seq(Units)
        BY ConcatProperties, DataUnits, DownTypes
    <2>3. Text(Answers, answered') = Taken' \o (r \o m)
        <3>1. (Taken \o r) \o m = Taken \o (r \o m)
            BY <2>2, UnitsInRow, Zenon
        <3>2. Taken' = Taken
            BY <1>1 DEF Taken
        <3>3. QED
            BY <1>2, <2>1, <3>1, <3>2
    <2>4. CASE kind \in HttpKinds /\ answered = 0
        <3>1. ~obfs.recvd /\ r = <<>>
            BY <2>1, <2>4, NothingAnswered DEF DownInv, DownStateInv
        <3>2. Heading = <<>> /\ Heading' = HeaderUnits
            BY <1>1, <1>4, <2>4, <3>1 DEF Heading, HttpKinds
        <3>3. pc["reader"] # "failed" => down = <<>>
            BY <2>1, <3>1, <3>2, UnitsEmpty, DataUnits
        <3>4. pc["reader"] # "failed" => down' = Heading' \o (r \o m)
            <4>1. <<>> \o HeaderUnits = HeaderUnits /\ <<>> \o m = m
                BY <2>2, UnitsEmpty, DataUnits
            <4>2. QED
                BY <1>2, <2>4, <3>1, <3>2, <3>3, <4>1
        <3>5. QED
            BY <1>1, <2>2, <2>3, <3>4 DEF DownTextInv
    <2>5. CASE ~(kind \in HttpKinds /\ answered = 0)
        <3>1. Heading' = Heading
            BY <1>1, <1>3, <1>4, <2>5 DEF Heading
        <3>2. (Heading \o r) \o m = Heading \o (r \o m)
            BY <2>2, UnitsInRow, Zenon
        <3>3. pc["reader"] # "failed" => down' = Heading' \o (r \o m)
            BY <1>2, <2>1, <2>5, <3>1, <3>2
        <3>4. QED
            BY <1>1, <2>2, <2>3, <3>3 DEF DownTextInv
    <2>6. QED
        BY <2>4, <2>5
<1>7. QED
    BY <1>5, <1>6 DEF DownInv

LEMMA DownNetFails ==
    ASSUME ByteType, DownInv, NetFails
    PROVE  DownInv'
<1>1. broken' /\ down' = <<>> /\ UNCHANGED <<kind, pc, obfs, greeted, answered, chunk, got, torn>>
    BY NetFailsMoves
<1>2. DownStateInv'
    BY <1>1 DEF DownInv, DownStateInv
<1>3. DownTextInv'
    BY <1>1 DEF DownInv, DownTextInv, Taken
<1>4. QED
    BY <1>2, <1>3 DEF DownInv

LEMMA ReadDownInv ==
    ASSUME ByteType, DownInv, Read
    PROVE  DownInv'
<1>1. CASE ReadFails
    <2>1. UNCHANGED <<kind, answered, greeted, got, chunk, down, torn, broken, obfs>> /\ pc["reader"] = "read"
        BY <1>1, ReadFailsMoves DEF ReaderMoves
    <2>2. QED
        BY <2>1, DownKept
<1>2. QED
    BY <1>1, ReadsOf, DownThrough, DownLeft, DownHeader, DownGreeting, DownDecode

LEMMA GotIsText ==
    ASSUME ByteType, DownInv, ~torn
    PROVE  IsPrefix(got, Text(Answers, answered))
<1>1. PICK r \in Seq(Data) : Text(Answers, answered) = Taken \o r
    BY DEF DownInv, DownTextInv
<1>2. /\ got \in Seq(Units) /\ chunk \in Seq(Units) /\ obfs.left \in Seq(Units) /\ r \in Seq(Units)
      /\ got \o chunk \in Seq(Units) /\ chunk \o obfs.left \in Seq(Units)
    BY DownTypes, DataUnits, ConcatProperties
<1> DEFINE c == chunk \o obfs.left
<1>3. Taken = got \o c
    <2>1. got \in Seq(Units) /\ chunk \in Seq(Units) /\ obfs.left \in Seq(Units)
        BY <1>2
    <2>2. (got \o chunk) \o obfs.left = got \o (chunk \o obfs.left)
        BY <2>1, UnitsInRow, Zenon
    <2>3. QED
        BY <2>2 DEF Taken
<1>4. got \in Seq(Units) /\ c \in Seq(Units) /\ r \in Seq(Units) /\ c \o r \in Seq(Units)
    BY <1>2, ConcatProperties
<1> HIDE DEF c
<1>5. (got \o c) \o r = got \o (c \o r)
    BY <1>4, UnitsInRow, Zenon
<1>6. Covers(Units, got, Text(Answers, answered))
    BY <1>1, <1>3, <1>4, <1>5 DEF Covers
<1>7. QED
    BY <1>2, <1>6, CoversIsPrefix

DownloadVars == <<Text(Answers, answered), got, Failed \/ raced, torn>>

LEMMA DownloadStep ==
    ASSUME ByteType, UpInv, DownInv, [OutboundNext]_all
    PROVE  DownInv' /\ [Download!Next]_(Download!vars)
<1>1. Download!vars = DownloadVars /\ Download!vars' = DownloadVars'
    BY DEF Download!vars, DownloadVars, Text
<1>2. ByteType' /\ UpInv'
    BY UploadStep
<1>3. torn' => Download!Next
    BY DEF Download!Next, Download!Void
<1>4. CASE UNCHANGED vars
    <2>1. UNCHANGED <<kind, answered, greeted, got, chunk, down, torn, broken, obfs, pc, raced>> /\ Failed' = Failed
        BY <1>4, StutterKeeps
    <2>2. DownInv'
        BY <2>1, DownKept
    <2>3. QED
        BY <1>1, <2>1, <2>2 DEF DownloadVars
<1>5. CASE WriteMessage
    <2>1. /\ UNCHANGED <<kind, answered, greeted, got, chunk, down, torn, broken, obfs, raced>>
          /\ pc' = [pc EXCEPT !["writer"] = "check"]
        BY <1>5 DEF WriteMessage, server, reading
    <2>2. pc'["reader"] = pc["reader"] /\ Failed' = Failed
        BY <1>5, <2>1, WriteMessageInv DEF ByteType, PlacesType, Goroutines
    <2>3. DownInv'
        BY <2>1, <2>2, DownKept
    <2>4. QED
        BY <1>1, <2>1, <2>2, <2>3 DEF DownloadVars
<1>6. ASSUME NEW p \in Goroutines, Write(p)
      PROVE  DownInv' /\ [Download!Next]_(Download!vars)
    <2>1. /\ Failed' = Failed /\ (raced => raced')
          /\ UNCHANGED <<kind, proto, written, down, greeted, answered, chunk, decoder, got, torn, broken>>
          /\ pc[p] \in WritePlaces /\ pc' = [pc EXCEPT ![p] = pc'[p]]
        BY <1>6, WriteFailsNot
    <2>2. obfs'.recvd = obfs.recvd /\ obfs'.left = obfs.left
        BY <1>6, WriteObfs
    <2>3. pc["reader"] = "failed" => pc'["reader"] = "failed"
        <3>1. SUFFICES ASSUME pc["reader"] = "failed" PROVE pc'["reader"] = "failed"
            OBVIOUS
        <3>2. p # "reader"
            BY <2>1, <3>1 DEF WritePlaces
        <3>3. PICK x : pc' = [pc EXCEPT ![p] = x]
            BY <2>1
        <3>4. QED
            BY <3>1, <3>2, <3>3 DEF ByteType, PlacesType, Goroutines
    <2>4. DownInv'
        BY <2>1, <2>2, <2>3, DownKept
    <2>5. raced \in BOOLEAN /\ raced' \in BOOLEAN
        BY <1>2 DEF ByteType, WriteType
    <2>6. CASE raced' /\ ~raced
        <3>1. Download!Cut
            BY <2>1, <2>6 DEF Download!Cut
        <3>2. QED
            BY <2>4, <3>1 DEF Download!Next
    <2>7. CASE raced' = raced
        BY <1>1, <2>1, <2>4, <2>7 DEF DownloadVars
    <2>8. QED
        BY <2>1, <2>5, <2>6, <2>7
<1>7. CASE Read
    <2>1. DownInv'
        BY <1>7, ReadDownInv
    <2>2. /\ ReaderMoves /\ UNCHANGED <<answered, raced, broken>> /\ (Failed => Failed')
          /\ UNCHANGED <<pc["writer"]>>
        <3>1. ReaderMoves
            BY <1>7, ReadMoves
        <3>2. UNCHANGED <<answered, raced, broken>> /\ (Failed => Failed')
            BY <3>1, ReaderMovesUp
        <3>3. QED
            BY <3>1, <3>2 DEF ReaderMoves, ByteType, PlacesType, Goroutines
    <2>3. CASE torn'
        BY <1>3, <2>1, <2>3
    <2>4. CASE ~torn' /\ DecodeChunk
        <3>1. got' = got \o chunk /\ torn' = torn /\ pc["reader"] = "decode" /\ pc'["reader"] = "read"
            BY <2>4, DecodeChunkMoves
        <3>2. got \in Seq(Units) /\ chunk \in Seq(Units)
            BY DownTypes
        <3>3. got' = got \/ IsStrictPrefix(got, got')
            BY <3>1, <3>2, PrefixMore
        <3>4. Failed' = Failed
            BY <2>2, <3>1 DEF Failed, Goroutines
        <3>5. IsPrefix(got', Text(Answers, answered))
            <4>1. (IsPrefix(got, Text(Answers, answered)))'
                BY <1>2, <2>1, <2>4, GotIsText, PTL
            <4>2. QED
                BY <2>2, <4>1
        <3>6. CASE got' = got
            BY <1>1, <2>1, <2>2, <3>1, <3>4, <3>6 DEF DownloadVars
        <3>7. CASE IsStrictPrefix(got, got')
            <4>1. Download!Deliver
                BY <2>2, <3>1, <3>4, <3>5, <3>7
                   DEF Download!Deliver, Text, Download!IsStrictPrefix, Download!IsPrefix, IsStrictPrefix, IsPrefix
            <4>2. QED
                BY <2>1, <4>1 DEF Download!Next
        <3>8. QED
            BY <3>3, <3>6, <3>7
    <2>5. CASE ~torn' /\ ~DecodeChunk
        <3>1. got' = got
            BY <1>7, <2>5, ReadsOf, ReadThroughMoves, ReadLeftMoves, TakeHeaderMoves, ReadGreetingMoves,
               ReadFailsMoves
        <3>2. torn' = torn
            <4>1. CASE ReadGreeting
                <5>1. ~torn
                    BY <4>1, ReadGreetingMoves DEF DownInv, DownStateInv
                <5>2. QED
                    BY <2>1, <1>2, <2>5, <5>1 DEF ByteType, ReadType
            <4>2. QED
                BY <1>7, <2>5, <4>1, ReadsOf, ReadThroughMoves, ReadLeftMoves, TakeHeaderMoves, ReadFailsMoves
        <3>3. CASE Failed'
            <4>1. Download!Cut
                BY <2>2, <3>1, <3>2, <3>3 DEF Download!Cut
            <4>2. QED
                BY <2>1, <4>1 DEF Download!Next
        <3>4. CASE ~Failed'
            BY <1>1, <2>1, <2>2, <3>1, <3>2, <3>4 DEF DownloadVars, Failed
        <3>5. QED
            BY <3>3, <3>4
    <2>6. QED
        BY <2>3, <2>4, <2>5
<1>8. CASE Greet
    <2>1. DownInv' /\ UNCHANGED <<answered, got, raced, torn, pc, broken>>
        BY <1>8, DownGreet, GreetMoves
    <2>2. QED
        BY <1>1, <2>1 DEF DownloadVars, Failed
<1>9. CASE Answer
    <2>1. DownInv' /\ UNCHANGED <<got, raced, torn, pc, broken>>
        BY <1>9, DownAnswer, AnswerMoves
    <2>2. Failed' = Failed
        BY <2>1 DEF Failed
    <2>3. PICK m \in Seq(Data) : Text(Answers, answered') = Text(Answers, answered) \o m
        BY <1>9, AnswerMoves
    <2>4. Text(Answers, answered') = Text(Answers, answered)
          \/ IsStrictPrefix(Text(Answers, answered), Text(Answers, answered'))
        BY <2>3, DownTypes, DataUnits, PrefixMore
    <2>5. CASE Text(Answers, answered') = Text(Answers, answered)
        BY <1>1, <2>1, <2>2, <2>5 DEF DownloadVars
    <2>6. CASE IsStrictPrefix(Text(Answers, answered), Text(Answers, answered'))
        <3>1. Download!Send
            BY <2>1, <2>2, <2>6
               DEF Download!Send, Text, Download!IsStrictPrefix, Download!IsPrefix, IsStrictPrefix, IsPrefix
        <3>2. QED
            BY <2>1, <3>1 DEF Download!Next
    <2>7. QED
        BY <2>4, <2>5, <2>6
<1>10. CASE NetFails
    <2>1. DownInv' /\ UNCHANGED <<answered, got, torn>> /\ Failed'
        BY <1>10, DownNetFails, NetFailsMoves DEF Failed
    <2>2. Download!Cut
        BY <2>1 DEF Download!Cut
    <2>3. QED
        BY <2>1, <2>2 DEF Download!Next
<1>11. Next \/ UNCHANGED vars
    BY DEF OutboundNext, Connection, Instance, all
<1>12. QED
    BY <1>4, <1>5, <1>6, <1>7, <1>8, <1>9, <1>10, <1>11 DEF Next, Server

(* Under the same plugins, what the server answers comes out at the app     *)
(* once and in order, whatever parts TCP cuts it and the response header    *)
(* into, up to the failure of the connection or the reader, or a greeting   *)
(* of random_head that came in two parts.                                   *)
THEOREM BytesDownloadIsPipe ==
    OutboundSpec /\ Bytes => Download!Safe
<1>1. OutboundInit /\ Bytes => ByteType /\ UpInv /\ DownInv /\ Download!Init
    <2> SUFFICES ASSUME OutboundInit, Bytes PROVE ByteType /\ UpInv /\ DownInv /\ Download!Init
        OBVIOUS
    <2>1. Init
        BY DEF OutboundInit
    <2>2. Text(Answers, answered) = <<>> /\ got = <<>> /\ ~torn /\ ~raced
        BY <2>1, PayloadIs, TextIs DEF Init
    <2>3. ~Failed
        BY <2>1 DEF Init, Failed, Goroutines
    <2>4. QED
        BY <2>1, <2>2, <2>3, BytesInit, DownInit DEF Download!Init, Text
<1>2. ByteType /\ UpInv /\ DownInv /\ [OutboundNext]_all
        => ByteType' /\ UpInv' /\ DownInv' /\ [Download!Next]_(Download!vars)
    BY UploadStep, DownloadStep
<1>3. QED
    BY <1>1, <1>2, PTL DEF OutboundSpec, Download!Safe
=============================================================================
