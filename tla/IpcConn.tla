------------------------------- MODULE IpcConn -------------------------------
(***************************************************************************)
(* ipc.go: datagrams over a Unix stream.  A frame is an address, two bytes *)
(* of length and the payload; before the first one the client writes a     *)
(* header.  WriteTo writes the three parts one by one and ReadFrom reads   *)
(* them one by one, and a deadline may end either of them in between.      *)
(*                                                                         *)
(* The directions have nothing in common but the connection; IpcInit       *)
(* chooses the one that moves.  In both, the stream is what is on its way, *)
(* a part at a time; in that of ReadFrom the peer writes it, whole frames. *)
(***************************************************************************)
EXTENDS Naturals, SequencesExt

CONSTANTS
    Datagrams,  \* the datagrams of the direction that moves: [size, domain]
    BufferSize  \* len(p) of ReadFrom; the callers have one size each

ASSUME DatagramAssumption ==
    BufferSize \in Nat /\ Datagrams \in Seq([size : Nat, domain : BOOLEAN])

(* Part k of frame i: the address, the two bytes of the length and the      *)
(* payload of datagram i.  Frame 0 is the header, of one part.              *)
FrameSize(i) == IF i = 0 THEN 1 ELSE 3 + Datagrams[i].size
Parts(i, first, last) == [k \in 1 .. last + 1 - first |-> <<i, first + k - 1>>]
Frame(i) == Parts(i, 1, FrameSize(i))

VARIABLES
    writing,       \* the direction that moves is that of WriteTo
    step,          \* where the call is
    stream,        \* what was written and is not read yet
    sent,          \* the datagrams the writing side is past
    current,       \* the datagram ReadFrom is at
    headerWritten, \* c.headerWritten
    noDomainResponse, \* c.noDomainResponse
    packets,       \* history: what ReadFrom has returned
    refused,       \* history: the datagrams ReadFrom has answered with ErrInvalid
    broken         \* history: a call ended in the middle of a frame

ipcVars ==
    <<writing, step, stream, sent, current, headerWritten, noDomainResponse, packets, refused, broken>>

IpcInit ==
    /\ writing \in BOOLEAN /\ noDomainResponse \in BOOLEAN
    /\ step = "idle" /\ stream = <<>> /\ sent = 0 /\ current = 0
    /\ headerWritten = FALSE /\ broken = FALSE
    /\ packets = <<>> /\ refused = {}

IpcGoto(from, to) == step = from /\ step' = to
Whole(i) == [from |-> i, size |-> Datagrams[i].size]
Garbage == [from |-> 0, size |-> 0]

-----------------------------------------------------------------------------
(* WriteTo, and the Unix stream it writes to.                               *)

(* The parts of the Write that the call is at. *)
Due ==
    CASE step = "idle" -> IF headerWritten THEN <<>> ELSE Frame(0)
      [] step = "addr" -> Parts(sent + 1, 1, 1)
      [] step = "length" -> Parts(sent + 1, 2, 3)
      [] step = "payload" -> Parts(sent + 1, 4, FrameSize(sent + 1))

Writes(parts) ==
    /\ writing /\ sent < Len(Datagrams)
    /\ stream' = stream \o parts
    /\ UNCHANGED <<writing, current, noDomainResponse, packets, refused>>

WriteHeader ==
    /\ IpcGoto("idle", "addr") /\ Writes(Due)
    /\ headerWritten' = TRUE
    /\ UNCHANGED <<sent, broken>>

WriteAddress ==
    IpcGoto("addr", "length") /\ Writes(Due) /\ UNCHANGED <<sent, headerWritten, broken>>

WriteLength ==
    IpcGoto("length", "payload") /\ Writes(Due) /\ UNCHANGED <<sent, headerWritten, broken>>

WritePayload ==
    /\ IpcGoto("payload", "idle") /\ Writes(Due)
    /\ sent' = sent + 1
    /\ UNCHANGED <<headerWritten, broken>>

(* The address is no destination, or a deadline ends a Write, which may     *)
(* have written some of its parts; the caller may come again, with the next *)
(* datagram.                                                                *)
WriteFails ==
    /\ writing
    /\ \E n \in 0 .. Len(Due) :
           /\ Writes(SubSeq(Due, 1, n))
           /\ broken' = (broken \/ n > 0 \/ step \in {"length", "payload"})
    /\ step' = "idle" /\ sent' = sent + 1
    /\ UNCHANGED headerWritten

-----------------------------------------------------------------------------
(* ReadFrom, and the peer.                                                  *)

PeerSends ==
    /\ ~writing /\ sent < Len(Datagrams)
    /\ sent' = sent + 1
    /\ stream' = stream \o Frame(sent + 1)
    /\ UNCHANGED <<writing, step, current, headerWritten, noDomainResponse, packets, refused, broken>>

(* n parts are taken from the stream. *)
Takes(n) ==
    /\ n <= Len(stream)
    /\ stream' = SubSeq(stream, n + 1, Len(stream))
    /\ UNCHANGED <<writing, sent, headerWritten, noDomainResponse>>

(* addrParser.ReadAddressPort reads all of the address. *)
ReadAddress ==
    /\ ~writing /\ ~broken /\ stream # <<>>
    /\ IpcGoto("idle", "length")
    /\ current' = Head(stream)[1]
    /\ Takes(1)
    /\ UNCHANGED <<packets, refused, broken>>

(* c.Read, which may return one byte of the two.  The other byte of b is 0, *)
(* so that the payload is taken to be empty (or a multiple of 256).         *)
ReadLength ==
    /\ ~writing /\ IpcGoto("length", "payload")
    /\ \E n \in 1..2 : Takes(n) /\ broken' = (n < 2)
    /\ UNCHANGED <<current, packets, refused>>

(* io.ReadFull of no more than p holds; the rest of the payload stays. *)
Taken(i) == IF broken THEN 0 ELSE Min({Datagrams[i].size, BufferSize})
IsRefused(i) == Datagrams[i].domain /\ noDomainResponse

Return(i, n) ==
    /\ packets' = IF IsRefused(i) THEN packets ELSE Append(packets, [from |-> i, size |-> n])
    /\ refused' = IF IsRefused(i) THEN refused \cup {i} ELSE refused
    /\ UNCHANGED current

(* Mutant: an answer with a name is refused before its payload is read. *)
ReadPayloadUnlessRefused ==
    /\ ~writing /\ IpcGoto("payload", "idle")
    /\ LET n == IF IsRefused(current) THEN 0 ELSE Taken(current) IN Takes(n) /\ Return(current, n)
    /\ broken' = (broken \/ BufferSize < Datagrams[current].size)

ReadPayload ==
    /\ ~writing /\ IpcGoto("payload", "idle")
    /\ Takes(Taken(current)) /\ Return(current, Taken(current))
    /\ broken' = (broken \/ BufferSize < Datagrams[current].size)

(* A deadline ends ReadFrom between two reads, or within one. *)
ReadFails ==
    /\ ~writing /\ ~broken
    /\ \E n \in 0 .. (IF step = "payload" THEN Taken(current) ELSE 1) :
           Takes(n) /\ broken' = (n > 0 \/ step # "idle")
    /\ step' = "idle"
    /\ UNCHANGED <<current, packets, refused>>

(* From the middle of a frame on, what is read as an address is not one:    *)
(* an error, or a datagram nobody sent.                                     *)
ReadGarbage ==
    /\ ~writing /\ broken /\ step = "idle"
    /\ \E n \in 1 .. Len(stream) : Takes(n)
    /\ packets' \in {packets, Append(packets, Garbage)}
    /\ UNCHANGED <<step, current, refused, broken>>

IpcNext ==
    \/ WriteHeader \/ WriteAddress \/ WriteLength \/ WritePayload \/ WriteFails
    \/ PeerSends \/ ReadAddress \/ ReadLength \/ ReadPayload \/ ReadFails \/ ReadGarbage

-----------------------------------------------------------------------------
(* Correctness.                                                             *)

(* After a part comes the next one of its frame, after a frame a later one. *)
Follows(p, q) ==
    IF p[2] < FrameSize(p[1]) THEN q = <<p[1], p[2] + 1>> ELSE p[1] < q[1] /\ q[2] = 1

(* What has been written is the header, once, and whole frames, in order,   *)
(* up to the part the call is at.                                           *)
WrittenWhole ==
    IF headerWritten
    THEN /\ stream # <<>> /\ stream[1] = <<0, 1>>
         /\ \A k \in 1 .. Len(stream) - 1 : Follows(stream[k], stream[k + 1])
         /\ step = "idle" => Last(stream)[2] = FrameSize(Last(stream)[1])
    ELSE stream = <<>>

(* What has been returned is every datagram the calls are past, whole and   *)
(* in order, except those with a name that are refused.                     *)
ReadWhole ==
    LET past == {i \in 1..sent : ~Contains(stream, <<i, 1>>) /\ (step = "idle" \/ i # current)}
        kept == {i \in past : ~IsRefused(i)} IN
    /\ \A k, l \in DOMAIN packets : k < l => packets[k].from < packets[l].from
    /\ {packets[k] : k \in DOMAIN packets} = {Whole(i) : i \in kept}
    /\ refused = past \ kept

(* Framing survives everything but a deadline within a frame, a length that *)
(* comes in two reads, and a datagram larger than the caller's buffer: until *)
(* then the peer gets the header once and every datagram whole, and so does *)
(* the caller of ReadFrom; a refused datagram leaves nothing behind         *)
(* (ipc.go:93-146).                                                         *)
FramesKept == ~broken => IF writing THEN WrittenWhole ELSE ReadWhole
=============================================================================
