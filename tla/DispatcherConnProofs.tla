------------------------- MODULE DispatcherConnProofs -------------------------
(***************************************************************************)
(* Proofs about DispatcherConn, for any capacity of the channel and any    *)
(* number of datagrams: the types, that only empty datagrams vanish, that  *)
(* only another goroutine's Close makes handleInput panic, and that the    *)
(* connection implements PacketStream.                                     *)
(*                                                                         *)
(* The inductive invariant says that a datagram moves through link, batch  *)
(* and cache without being overtaken (OrderInv), what the position of      *)
(* handleInput and of the session says of what they hold and of what they  *)
(* have seen (PlaceInv), and how far closeOnce has come (CloseInv).        *)
(***************************************************************************)
EXTENDS DispatcherConn, SequenceTheorems, TLAPS

(* Every datagram of S was produced before every one of T. *)
Ahead(S, T) == \A x \in S, y \in T : x < y

(* What ReadFrom returned last is older than what the channel holds, that    *)
(* is older than the batch, and the batch is older than what the link holds. *)
OrderInv ==
    /\ newest <= produced
    /\ Increasing(cache) /\ Increasing(batch) /\ Increasing(link)
    /\ Ahead({newest}, Elems(cache) \cup Elems(batch) \cup Elems(link))
    /\ Ahead(Elems(cache), Elems(batch) \cup Elems(link))
    /\ Ahead(Elems(batch), Elems(link))

(* Only the loop over a MultiBuffer holds datagrams; EOF ends the session's loop. *)
PlaceInv ==
    /\ pc["input"] # "send" => batch = <<>>
    /\ eof => pc["reader"] \in {"close", "done"}

(* The body of closeOnce is run by one goroutine, which is in Close, and    *)
(* only its last step closes the channel.                                   *)
CloseInv ==
    /\ closer = "none" <=> once = "new"
    /\ ~cacheOpen => once = "done"
    /\ closer # "none" => pc[closer] \in {"close", "done"}
    /\ PanicNeedsAnotherCloser

IInv == TypeOK /\ NothingVanishes /\ OrderInv /\ PlaceInv /\ CloseInv

-----------------------------------------------------------------------------
(* The sequences.                                                           *)

(* An empty sequence has no elements, and appending adds one. *)
LEMMA ElemsEmpty == Elems(<<>>) = {} /\ Increasing(<<>>)
BY DEF Elems, Increasing

LEMMA ElemsAppend ==
    ASSUME NEW S, NEW s \in Seq(S), NEW x \in S
    PROVE  Elems(Append(s, x)) = Elems(s) \cup {x}
<1>1. /\ Len(Append(s, x)) = Len(s) + 1 /\ Len(s) \in Nat
      /\ \A i \in 1..Len(s) : Append(s, x)[i] = s[i]
      /\ Append(s, x)[Len(s) + 1] = x
    BY AppendProperties, LenProperties
<1>2. 1..(Len(s) + 1) = (1..Len(s)) \cup {Len(s) + 1}
    BY <1>1
<1>3. QED
    BY <1>1, <1>2 DEF Elems

(* The head of a sequence is the one element its tail may lack. *)
LEMMA ElemsTail ==
    ASSUME NEW S, NEW s \in Seq(S), s # <<>>
    PROVE  Elems(s) = {Head(s)} \cup Elems(Tail(s))
<1>1. /\ Len(s) \in Nat \ {0} /\ Len(Tail(s)) = Len(s) - 1
      /\ \A i \in 1..Len(Tail(s)) : Tail(s)[i] = s[i + 1]
      /\ Head(s) = s[1]
    BY HeadTailProperties, EmptySeq
<1>2. ASSUME NEW i \in 1..Len(s)
      PROVE  s[i] = Head(s) \/ \E j \in 1..Len(Tail(s)) : s[i] = Tail(s)[j]
    <2>1. CASE i = 1
        BY <2>1, <1>1
    <2>2. CASE i # 1
        <3>1. i - 1 \in 1..Len(Tail(s)) /\ Tail(s)[i - 1] = s[(i - 1) + 1] /\ (i - 1) + 1 = i
            BY <2>2, <1>1
        <3>2. QED
            BY <3>1
    <2>3. QED
        BY <2>1, <2>2
<1>3. ASSUME NEW j \in 1..Len(Tail(s))
      PROVE  j + 1 \in 1..Len(s) /\ Tail(s)[j] = s[j + 1]
    BY <1>1
<1>4. 1 \in 1..Len(s)
    BY <1>1
<1>5. QED
    BY <1>1, <1>2, <1>3, <1>4 DEF Elems

(* A newer datagram goes to the end, and the head is the oldest. *)
LEMMA IncreasingAppend ==
    ASSUME NEW s \in Seq(Int), NEW x \in Int, Increasing(s), Ahead(Elems(s), {x})
    PROVE  Increasing(Append(s, x))
<1>1. /\ Len(Append(s, x)) = Len(s) + 1 /\ Len(s) \in Nat
      /\ \A i \in 1..Len(s) : Append(s, x)[i] = s[i]
      /\ Append(s, x)[Len(s) + 1] = x
    BY AppendProperties, LenProperties
<1>2. \A i \in 1..Len(s) : s[i] < x
    BY DEF Ahead, Elems
<1>3. ASSUME NEW i \in 1..Len(Append(s, x)), NEW j \in 1..Len(Append(s, x)), i < j
      PROVE  Append(s, x)[i] < Append(s, x)[j]
    <2>1. i \in 1..Len(s) /\ Append(s, x)[i] = s[i]
        BY <1>1, <1>3
    <2>2. CASE j = Len(s) + 1
        BY <1>1, <1>2, <2>1, <2>2
    <2>3. CASE j # Len(s) + 1
        <3>1. j \in 1..Len(s) /\ Append(s, x)[j] = s[j]
            BY <1>1, <1>3, <2>3
        <3>2. QED
            BY <1>3, <2>1, <3>1 DEF Increasing
    <2>4. QED
        BY <2>2, <2>3
<1>4. QED
    BY <1>3 DEF Increasing

LEMMA IncreasingTail ==
    ASSUME NEW s \in Seq(Int), s # <<>>, Increasing(s)
    PROVE  Increasing(Tail(s)) /\ Ahead({Head(s)}, Elems(Tail(s)))
<1>1. /\ Len(s) \in Nat \ {0} /\ Len(Tail(s)) = Len(s) - 1
      /\ \A i \in 1..Len(Tail(s)) : Tail(s)[i] = s[i + 1]
      /\ Head(s) = s[1]
    BY HeadTailProperties, EmptySeq
<1>2. QED
    BY <1>1 DEF Increasing, Ahead, Elems

-----------------------------------------------------------------------------
(* The steps.                                                               *)

(* The types, of what holds datagrams and of what does not. *)
DataType ==
    /\ produced \in 0..MaxPackets
    /\ link \in Seq(1..MaxPackets) /\ batch \in Seq(1..MaxPackets)
    /\ cache \in Seq(1..MaxPackets) /\ Len(cache) <= CacheCap
    /\ newest \in 0..MaxPackets /\ got \subseteq 1..MaxPackets /\ dropped \subseteq 1..MaxPackets
    /\ empty \subseteq 1..produced /\ skipped \subseteq empty

PcType == pc \in [Closers -> {"run", "read", "send", "close", "done"}]

ControlType ==
    /\ linkState \in {"open", "ended", "interrupted"}
    /\ writable \in BOOLEAN /\ cacheOpen \in BOOLEAN /\ cancelled \in BOOLEAN
    /\ once \in {"new", "cancel", "interruptReader", "interruptWriter", "closeCache", "done"}
    /\ closer \in Closers \cup {"none"}
    /\ eof \in BOOLEAN /\ crashed \in BOOLEAN

(* Every step keeps the types. *)
LEMMA DataTypeInductive ==
    ASSUME DataType, [Next]_vars
    PROVE  DataType'
<1> USE CapAssumption DEF linkVars, closeVars, Goto
<1>1. CASE UNCHANGED <<produced, empty, link, batch, cache, newest, got, dropped, skipped>>
    BY <1>1 DEF DataType
<1>2. CASE LinkProduce
    <2>1. produced + 1 \in 1..MaxPackets
        BY <1>2 DEF LinkProduce, DataType
    <2>2. Append(link, produced + 1) \in Seq(1..MaxPackets)
        BY <2>1, AppendProperties DEF DataType
    <2>3. empty' \subseteq 1..produced' /\ skipped' \subseteq empty'
        BY <1>2 DEF LinkProduce, DataType
    <2>4. QED
        BY <1>2, <2>1, <2>2, <2>3 DEF LinkProduce, DataType
<1>3. CASE InputRead
    BY <1>3, EmptySeq DEF InputRead, DataType
<1>4. CASE InputSkip \/ InputSend \/ InputDrop
    <2>1. batch # <<>>
        BY <1>4 DEF InputSkip, InputSend, InputDrop, Sending
    <2>2. Head(batch) \in 1..MaxPackets /\ Tail(batch) \in Seq(1..MaxPackets)
        BY <2>1, HeadTailProperties DEF DataType
    <2>3. /\ Append(cache, Head(batch)) \in Seq(1..MaxPackets)
          /\ Len(Append(cache, Head(batch))) = Len(cache) + 1
        BY <2>2, AppendProperties DEF DataType
    <2>4. Len(cache) \in Nat
        BY LenProperties DEF DataType
    <2>5. CASE InputSend
        BY <2>2, <2>3, <2>4, <2>5 DEF InputSend, DataType
    <2>6. CASE InputDrop
        BY <2>2, <2>6 DEF InputDrop, DataType
    <2>7. CASE InputSkip
        BY <2>2, <2>7 DEF InputSkip, DataType
    <2>8. QED
        BY <1>4, <2>5, <2>6, <2>7
<1>5. CASE ReadFrom
    <2>1. cache # <<>>
        BY <1>5 DEF ReadFrom
    <2>2. /\ Head(cache) \in 1..MaxPackets /\ Tail(cache) \in Seq(1..MaxPackets)
          /\ Len(Tail(cache)) = Len(cache) - 1 /\ Len(cache) \in Nat
        BY <2>1, HeadTailProperties, LenProperties DEF DataType
    <2>3. /\ cache' \in Seq(1..MaxPackets) /\ Len(cache') <= CacheCap
          /\ newest' \in 1..MaxPackets
        BY <1>5, <2>2 DEF ReadFrom, DataType
    <2>4. got' \subseteq 1..MaxPackets
        BY <1>5, <2>2 DEF ReadFrom, DataType
    <2>5. UNCHANGED <<produced, empty, link, batch, dropped, skipped>>
        BY <1>5 DEF ReadFrom
    <2>6. QED
        BY <2>3, <2>4, <2>5 DEF DataType
<1>6. CASE CloseInterruptReader
    <2>1. Elems(link) \subseteq 1..MaxPackets
        <3>1. link \in Seq(1..MaxPackets)
            BY DEF DataType
        <3>2. QED
            BY <3>1, ElementOfSeq DEF Elems
    <2>2. QED
        BY <1>6, <2>1, EmptySeq DEF CloseInterruptReader, DataType
<1>7. QED
    BY <1>1, <1>2, <1>3, <1>4, <1>5, <1>6
       DEF Next, HandleInput, CloseBody, vars, LinkEnd, WriterBreaks, ParentCancel,
           InputCheck, InputReadFails, InputBatchDone, InputPanic, ReadEOF, ReaderStops,
           WriteFails, TimerFires, CloseEnter, CloseReturn, CloseCancel, CloseInterruptWriter,
           CloseCache

LEMMA PcTypeInductive ==
    ASSUME PcType, [Next]_vars
    PROVE  PcType'
<1>1. ASSUME NEW g \in Closers, NEW to \in {"run", "read", "send", "close", "done"},
             pc' = [pc EXCEPT ![g] = to]
      PROVE  PcType'
    BY <1>1 DEF PcType
<1>2. CASE UNCHANGED pc
    BY <1>2 DEF PcType
<1>3. CASE InputCheck \/ InputRead \/ InputReadFails \/ InputBatchDone
    BY <1>1, <1>3 DEF InputCheck, InputRead, InputReadFails, InputBatchDone, Goto, Closers
<1>4. CASE ReadEOF \/ ReaderStops \/ WriteFails \/ TimerFires
    BY <1>1, <1>4 DEF ReadEOF, ReaderStops, WriteFails, TimerFires, Goto, Closers
<1>5. ASSUME NEW g \in Closers, CloseReturn(g)
      PROVE  PcType'
    BY <1>1, <1>5 DEF CloseReturn, Goto
<1>6. QED
    BY <1>2, <1>3, <1>4, <1>5
       DEF Next, HandleInput, CloseBody, vars, LinkProduce, LinkEnd, WriterBreaks, ParentCancel,
           InputSkip, InputSend, InputDrop, InputPanic, ReadFrom, CloseEnter, CloseCancel,
           CloseInterruptReader, CloseInterruptWriter, CloseCache

LEMMA ControlTypeInductive ==
    ASSUME ControlType, [Next]_vars
    PROVE  ControlType'
<1> USE DEF linkVars, closeVars, Goto
<1>1. CASE LinkProduce \/ LinkEnd \/ WriterBreaks \/ ParentCancel
    BY <1>1 DEF LinkProduce, LinkEnd, WriterBreaks, ParentCancel, ControlType
<1>2. CASE HandleInput
    <2>1. UNCHANGED <<linkState, writable, cacheOpen, cancelled, once, closer, eof>>
        BY <1>2 DEF HandleInput, InputCheck, InputRead, InputReadFails, InputBatchDone, InputSkip,
                    InputSend, InputPanic, InputDrop
    <2>2. crashed' \in {crashed, TRUE}
        BY <1>2 DEF HandleInput, InputCheck, InputRead, InputReadFails, InputBatchDone, InputSkip,
                    InputSend, InputPanic, InputDrop
    <2>3. QED
        BY <2>1, <2>2 DEF ControlType
<1>3. CASE ReadFrom \/ ReadEOF \/ ReaderStops \/ WriteFails \/ TimerFires
    <2>1. UNCHANGED <<linkState, writable, cacheOpen, cancelled, once, closer, crashed>>
        BY <1>3 DEF ReadFrom, ReadEOF, ReaderStops, WriteFails, TimerFires
    <2>2. eof' \in {eof, TRUE}
        BY <1>3 DEF ReadFrom, ReadEOF, ReaderStops, WriteFails, TimerFires
    <2>3. QED
        BY <2>1, <2>2 DEF ControlType
<1>4. ASSUME NEW g \in Closers, CloseEnter(g) \/ CloseReturn(g)
      PROVE  ControlType'
    BY <1>4 DEF CloseEnter, CloseReturn, ControlType
<1>5. CASE CloseBody
    BY <1>5 DEF CloseBody, CloseCancel, CloseInterruptReader, CloseInterruptWriter, CloseCache,
                ControlType
<1>6. CASE UNCHANGED vars
    BY <1>6 DEF vars, ControlType
<1>7. QED
    BY <1>1, <1>2, <1>3, <1>4, <1>5, <1>6 DEF Next

LEMMA TypeInductive ==
    ASSUME TypeOK, [Next]_vars
    PROVE  TypeOK'
<1>1. DataType /\ PcType /\ ControlType
    BY DEF TypeOK, DataType, PcType, ControlType
<1>2. DataType' /\ PcType' /\ ControlType'
    BY <1>1, DataTypeInductive, PcTypeInductive, ControlTypeInductive
<1>3. QED
    BY <1>2 DEF TypeOK, DataType, PcType, ControlType

(* Every step keeps every datagram somewhere, and keeps their order. *)
LEMMA FlowInductive ==
    ASSUME TypeOK, NothingVanishes, OrderInv, PlaceInv, [Next]_vars
    PROVE  NothingVanishes' /\ OrderInv'
<1> USE CapAssumption DEF linkVars, closeVars, Goto
<1>1. /\ produced \in Nat /\ newest \in Nat
      /\ link \in Seq(Int) /\ batch \in Seq(Int) /\ cache \in Seq(Int)
    BY SeqMonotonic DEF TypeOK
<1>2. /\ Elems(link) \subseteq 1..produced /\ Elems(batch) \subseteq 1..produced
      /\ Elems(cache) \subseteq 1..produced
    BY DEF NothingVanishes
<1>3. CASE UNCHANGED <<produced, empty, link, batch, cache, newest, got, dropped, skipped>>
    BY <1>3 DEF NothingVanishes, OrderInv
<1>4. CASE LinkProduce
    <2>1. Elems(link') = Elems(link) \cup {produced + 1}
        BY <1>1, <1>4, ElemsAppend DEF LinkProduce
    <2>2. \A x \in Elems(link) \cup Elems(batch) \cup Elems(cache) : x < produced + 1
        BY <1>1, <1>2
    <2>3. newest < produced + 1
        BY <1>1 DEF OrderInv
    <2>4. Increasing(link')
        BY <1>1, <1>4, <2>2, IncreasingAppend DEF LinkProduce, OrderInv, Ahead
    <2>5. 1..(produced + 1) = (1..produced) \cup {produced + 1}
        BY <1>1
    <2>6. NothingVanishes'
        <3>1. skipped' \subseteq empty'
            BY <1>4 DEF LinkProduce, NothingVanishes
        <3>2. produced + 1 \notin got \cup Elems(cache)
            BY <1>1 DEF NothingVanishes
        <3>3. (got' \cup Elems(cache)') \cap empty' = {}
            BY <1>4, <3>2 DEF LinkProduce, NothingVanishes
        <3>4. QED
            BY <1>4, <2>1, <2>5, <3>1, <3>3 DEF LinkProduce, NothingVanishes
    <2>7. newest' <= produced'
        BY <1>1, <1>4 DEF LinkProduce, OrderInv
    <2>8. OrderInv'
        BY <1>4, <2>1, <2>2, <2>3, <2>4, <2>7 DEF LinkProduce, OrderInv, Ahead
    <2>9. QED
        BY <2>6, <2>8
<1>5. CASE InputRead
    <2>1. batch = <<>>
        BY <1>5 DEF InputRead, PlaceInv
    <2>2. QED
        BY <1>5, <2>1, ElemsEmpty DEF InputRead, NothingVanishes, OrderInv, Ahead
<1>6. CASE InputSend
    <2> DEFINE d == Head(batch)
    <2>1. batch # <<>> /\ d \in Int /\ Tail(batch) \in Seq(Int)
        BY <1>1, <1>6, HeadTailProperties DEF InputSend, Sending
    <2>2. Elems(batch) = {d} \cup Elems(Tail(batch))
        BY <1>1, <2>1, ElemsTail
    <2>3. Elems(Append(cache, d)) = Elems(cache) \cup {d}
        BY <1>1, <2>1, ElemsAppend
    <2>4. Increasing(Tail(batch)) /\ Ahead({d}, Elems(Tail(batch)))
        BY <1>1, <2>1, IncreasingTail DEF OrderInv
    <2>5. Ahead(Elems(cache), {d})
        BY <2>2 DEF OrderInv, Ahead
    <2>6. Increasing(Append(cache, d))
        BY <1>1, <2>1, <2>5, IncreasingAppend DEF OrderInv
    <2>7. NothingVanishes'
        BY <1>6, <2>2, <2>3 DEF InputSend, NothingVanishes
    <2>8. OrderInv'
        BY <1>6, <2>2, <2>3, <2>4, <2>6 DEF InputSend, OrderInv, Ahead
    <2>9. QED
        BY <2>7, <2>8
<1>7. CASE InputSkip \/ InputDrop
    <2> DEFINE d == Head(batch)
    <2>1. batch # <<>>
        BY <1>7 DEF InputSkip, InputDrop, Sending
    <2>2. Elems(batch) = {d} \cup Elems(Tail(batch))
        BY <1>1, <2>1, ElemsTail
    <2>3. Increasing(Tail(batch))
        BY <1>1, <2>1, IncreasingTail DEF OrderInv
    <2>4. QED
        BY <1>7, <2>2, <2>3 DEF InputSkip, InputDrop, NothingVanishes, OrderInv, Ahead
<1>8. CASE ReadFrom
    <2> DEFINE d == Head(cache)
    <2>1. cache # <<>>
        BY <1>8 DEF ReadFrom
    <2>2. Elems(cache) = {d} \cup Elems(Tail(cache))
        BY <1>1, <2>1, ElemsTail
    <2>3. Increasing(Tail(cache)) /\ Ahead({d}, Elems(Tail(cache)))
        BY <1>1, <2>1, IncreasingTail DEF OrderInv
    <2>4. QED
        BY <1>8, <2>2, <2>3 DEF ReadFrom, NothingVanishes, OrderInv, Ahead
<1>9. CASE CloseInterruptReader
    BY <1>9, ElemsEmpty DEF CloseInterruptReader, NothingVanishes, OrderInv, Ahead
<1>10. QED
    BY <1>3, <1>4, <1>5, <1>6, <1>7, <1>8, <1>9
       DEF Next, HandleInput, CloseBody, vars, LinkEnd, WriterBreaks, ParentCancel,
           InputCheck, InputReadFails, InputBatchDone, InputPanic, ReadEOF, ReaderStops,
           WriteFails, TimerFires, CloseEnter, CloseReturn, CloseCancel, CloseInterruptWriter,
           CloseCache

(* Every step keeps what the positions of handleInput and of the session say. *)
LEMMA PlaceInductive ==
    ASSUME TypeOK, PlaceInv, [Next]_vars
    PROVE  PlaceInv'
<1> USE DEF PlaceInv, Goto
<1>1. PcType
    BY DEF TypeOK, PcType
<1>2. CASE UNCHANGED <<pc, batch, eof>>
    BY <1>2
<1>3. CASE InputCheck \/ InputRead \/ InputReadFails \/ InputBatchDone
    BY <1>1, <1>3 DEF InputCheck, InputRead, InputReadFails, InputBatchDone, PcType, Closers
<1>4. CASE InputSkip \/ InputSend \/ InputDrop
    BY <1>4 DEF InputSkip, InputSend, InputDrop, Sending
<1>5. CASE ReadEOF \/ ReaderStops \/ WriteFails \/ TimerFires
    BY <1>1, <1>5 DEF ReadEOF, ReaderStops, WriteFails, TimerFires, PcType, Closers
<1>6. ASSUME NEW g \in Closers, CloseReturn(g)
      PROVE  PlaceInv'
    BY <1>1, <1>6 DEF CloseReturn, PcType, Closers
<1>7. QED
    BY <1>2, <1>3, <1>4, <1>5, <1>6
       DEF Next, HandleInput, CloseBody, vars, linkVars, closeVars, LinkProduce, LinkEnd,
           WriterBreaks, ParentCancel, InputPanic, ReadFrom, CloseEnter, CloseCancel,
           CloseInterruptReader, CloseInterruptWriter, CloseCache

(* Every step keeps the account of closeOnce, and a panic excludes handleInput's own Close. *)
LEMMA CloseInductive ==
    ASSUME TypeOK, CloseInv, [Next]_vars
    PROVE  CloseInv'
<1> USE DEF CloseInv, Goto, closeVars, PanicNeedsAnotherCloser
<1>1. PcType /\ closer \in Closers \cup {"none"}
    BY DEF TypeOK, PcType
<1>2. CASE UNCHANGED <<pc, closeVars, cacheOpen, crashed>>
    BY <1>2
<1>3. ASSUME NEW g \in Closers, NEW to, pc' = [pc EXCEPT ![g] = to],
             pc[g] = "close" => to = "done", pc[g] # "done",
             UNCHANGED <<closeVars, cacheOpen, crashed>>
      PROVE  CloseInv'
    BY <1>1, <1>3 DEF PcType, Closers
<1>4. CASE InputCheck \/ InputRead \/ InputReadFails \/ InputBatchDone
    BY <1>3, <1>4 DEF InputCheck, InputRead, InputReadFails, InputBatchDone, Closers
<1>5. CASE InputPanic
    <2>1. closer # "none" /\ closer # "input"
        BY <1>5 DEF InputPanic, Sending
    <2>2. QED
        BY <1>1, <1>5, <2>1 DEF InputPanic, Closers
<1>6. CASE ReadEOF \/ ReaderStops \/ WriteFails \/ TimerFires
    BY <1>3, <1>6 DEF ReadEOF, ReaderStops, WriteFails, TimerFires, Closers
<1>7. ASSUME NEW g \in Closers, CloseEnter(g)
      PROVE  CloseInv'
    BY <1>1, <1>7 DEF CloseEnter, Closers
<1>8. ASSUME NEW g \in Closers, CloseReturn(g)
      PROVE  CloseInv'
    BY <1>3, <1>8 DEF CloseReturn
<1>9. CASE CloseCancel \/ CloseInterruptReader \/ CloseInterruptWriter \/ CloseCache
    BY <1>9 DEF CloseCancel, CloseInterruptReader, CloseInterruptWriter, CloseCache
<1>10. QED
    BY <1>2, <1>4, <1>5, <1>6, <1>7, <1>8, <1>9
       DEF Next, HandleInput, CloseBody, vars, LinkProduce, LinkEnd, WriterBreaks, ParentCancel,
           InputSkip, InputSend, InputDrop, ReadFrom

-----------------------------------------------------------------------------
(* The theorems.                                                            *)

LEMMA InitIInv ==
    ASSUME Init
    PROVE  IInv
<1> USE CapAssumption, ElemsEmpty DEF Init
<1>1. <<>> \in Seq(1..MaxPackets) /\ Len(<<>>) = 0
    BY EmptySeq
<1>2. TypeOK
    <2>1. DataType
        BY <1>1 DEF DataType
    <2>2. PcType /\ ControlType
        BY DEF PcType, ControlType
    <2>3. QED
        BY <2>1, <2>2 DEF TypeOK, DataType, PcType, ControlType
<1>3. NothingVanishes
    BY DEF NothingVanishes
<1>4. OrderInv /\ PlaceInv
    BY DEF OrderInv, PlaceInv, Ahead
<1>5. CloseInv
    BY DEF CloseInv, PanicNeedsAnotherCloser
<1>6. QED
    BY <1>2, <1>3, <1>4, <1>5 DEF IInv

LEMMA NextIInv ==
    ASSUME IInv, [Next]_vars
    PROVE  IInv'
BY TypeInductive, FlowInductive, PlaceInductive, CloseInductive DEF IInv

LEMMA Invariance == Spec => []IInv
BY InitIInv, NextIInv, PTL DEF Spec

(* The variables have their types, and the channel c.cache never holds more *)
(* than its capacity, whichever of handleInput's branches runs.             *)
THEOREM TypeCorrect == Spec => []TypeOK
<1>1. IInv => TypeOK
    BY DEF IInv
<1>2. QED
    BY Invariance, <1>1, PTL

(* Whoever closes and whenever, each datagram with a payload that the        *)
(* outbound produced was returned by ReadFrom, was released, or is still in  *)
(* link, batch or cache; what handleInput's continue leaves behind without a *)
(* release is empty, and no empty datagram reaches ReadFrom.                 *)
THEOREM NothingVanishesAlways == Spec => []NothingVanishes
<1>1. IInv => NothingVanishes
    BY DEF IInv
<1>2. QED
    BY Invariance, <1>1, PTL

(* handleInput's own deferred Close never makes its select send on a closed *)
(* channel: if it panicked, the session, its writer or the timer closed.    *)
THEOREM PanicNeedsAnotherCloserAlways == Spec => []PanicNeedsAnotherCloser
<1>1. IInv => PanicNeedsAnotherCloser
    BY DEF IInv, CloseInv
<1>2. QED
    BY Invariance, <1>1, PTL

(* A step of the connection produces a datagram, delivers one that is newer  *)
(* than all before it, reports EOF, or is invisible to the session.          *)
LEMMA StepImplements ==
    ASSUME IInv, [Next]_vars
    PROVE  [Stream!Next]_<<produced, newest, eof>>
<1> USE DEF Stream!Next, Goto
<1>1. CASE UNCHANGED <<produced, newest, eof>>
    BY <1>1
<1>2. CASE LinkProduce
    BY <1>2 DEF LinkProduce, Stream!Produce
<1>3. CASE ReadFrom
    <2>1. ~eof
        BY <1>3 DEF IInv, PlaceInv, ReadFrom
    <2>2. Head(cache) \in Elems(cache)
        BY <1>3, ElemsTail DEF IInv, TypeOK, ReadFrom
    <2>3. newest < Head(cache)
        BY <2>2 DEF IInv, OrderInv, Ahead
    <2>4. Head(cache) \in 1..produced
        BY <2>2 DEF IInv, NothingVanishes
    <2>5. Head(cache) \in (newest + 1)..produced
        BY <2>3, <2>4 DEF IInv, TypeOK
    <2>6. QED
        BY <1>3, <2>1, <2>5 DEF ReadFrom, linkVars, Stream!Receive
<1>4. CASE ReadEOF
    BY <1>4 DEF ReadEOF, linkVars, Stream!End
<1>5. QED
    BY <1>1, <1>2, <1>3, <1>4
       DEF Next, HandleInput, CloseBody, vars, linkVars, LinkEnd, WriterBreaks, ParentCancel,
           InputCheck, InputRead, InputReadFails, InputBatchDone, InputSkip, InputSend,
           InputPanic, InputDrop, ReaderStops, WriteFails, TimerFires, CloseEnter, CloseReturn, CloseCancel,
           CloseInterruptReader, CloseInterruptWriter, CloseCache

(* What the session of tun.go reads from the connection is a PacketStream:   *)
(* in the order the outbound produced it, nothing twice, nothing after EOF.  *)
THEOREM ConnImplementsStream == Spec => ImplementsStream
<1>1. Init => Stream!Init
    BY DEF Init, Stream!Init
<1>2. IInv /\ [Next]_vars => [Stream!Next]_<<produced, newest, eof>>
    BY StepImplements
<1>3. QED
    BY Invariance, <1>1, <1>2, PTL DEF Spec, ImplementsStream, Stream!Spec

=============================================================================
