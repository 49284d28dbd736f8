----------------------------- MODULE SsrFraming -----------------------------
(***************************************************************************)
(* The framing of the ShadowsocksR protocols (transport/ssr/protocol): how *)
(* Encode turns what is written into frames, and how Decode takes frames   *)
(* out of a buffer that holds whatever has arrived so far.                 *)
(*                                                                         *)
(* A stream is a sequence of units <<kind, a, b>>.  One unit stands for a  *)
(* piece of the bytes that the code looks at as a whole: the head of a     *)
(* frame (its length and the code that protects it), the position of the   *)
(* data behind the padding, the padding, a piece of payload, the checksum. *)
(* Ids stand for the packID or recvID that keys a frame's codes: a code    *)
(* can be verified exactly with the id it was made with.                   *)
(***************************************************************************)
EXTENDS Naturals, Sequences, SequencesExt

CONSTANT
    MaxPack  \* payload units packData takes at most (8100 or 2800 bytes)

ASSUME MaxPackAssumption == MaxPack \in Nat \ {0}

Protocols == {"origin", "auth_sha1_v4", "auth_aes128", "auth_chain"}

Unit(name, a, b) == <<name, a, b>>
Pads(k) == [i \in 1..k |-> Unit("pad", 0, 0)]
From(s, i) == SubSeq(s, i, Len(s))

(* Apply Step to s n times: the for loops over a buffer.  (The singleton    *)
(* makes TLC evaluate a turn's result once.)                                *)
Repeat(Step(_), s, n) ==
    LET after[i \in 0..n] ==
            IF i = 0 THEN s
            ELSE CHOOSE t \in {Step(prev) : prev \in {after[i - 1]}} : TRUE
    IN  after[n]

(* Only the keyed protocols number their frames. *)
Numbered(proto) == proto \in {"auth_aes128", "auth_chain"}
IdOf(proto, id) == IF Numbered(proto) THEN id ELSE 0

(* The padding of auth_chain is drawn from a generator both ends seed with  *)
(* the last frame's hash; the other protocols say where the data begins.    *)
ChainPad(id) == id % 2

(* putMixedRandDataAndData: of the padding, what is put before the data. *)
ChainBody(id, data) == Pads(ChainPad(id)) \o data

(* packRandData: the padding, with its size before it. *)
RandData(pad) == <<Unit("pos", pad, 0)>> \o Pads(pad)

(* packData *)
Frame(proto, id, pad, data) ==
    LET body == IF proto = "auth_chain" THEN ChainBody(id, data) ELSE RandData(pad) \o data
        i == IdOf(proto, id)
    IN  <<Unit("head", i, Len(body))>> \o body \o <<Unit("sum", i, 0)>>

(* packAuthData of auth_chain: the user, the client and connection ids, and *)
(* a first pack with the first bytes of the data.                           *)
ChainAuthFrame(data) == <<Unit("auth", 0, 0)>> \o Frame("auth_chain", 1, 0, data)

(* packAuthData: the other protocols have those bytes in the frame itself.  *)
AuthFrame(proto, data) ==
    IF proto = "auth_chain" THEN ChainAuthFrame(data)
    ELSE <<Unit("auth", 0, Len(data))>> \o data

(* The packs Encode makes of the data behind the first frame. *)
Packs(proto, id, data) ==
    LET n == (Len(data) + MaxPack - 1) \div MaxPack
        piece(i) == SubSeq(data, (i - 1) * MaxPack + 1,
                           IF i = n THEN Len(data) ELSE i * MaxPack)
    IN  [i \in 1..n |-> Frame(proto, id + i - 1, 0, piece(i))]

NewEncoder == [hasSentHeader |-> FALSE, packID |-> 1]

(* getDataLength: how much of the first write goes into the first frame is  *)
(* drawn at random.                                                         *)
FirstParts(b) == 1..Len(b)

(* The results Encode may have on b. *)
Encode(proto, e, b) ==
    IF proto = "origin" THEN {[units |-> b, encoder |-> e]}
    ELSE IF e.hasSentHeader
    THEN LET packs == Packs(proto, e.packID, b)
         IN  {[units |-> FlattenSeq(packs),
               encoder |-> [e EXCEPT !.packID = @ + Len(packs)]]}
    ELSE LET first == IF proto = "auth_chain" THEN 2 ELSE 1
         IN  {LET packs == Packs(proto, first, From(b, k + 1))
              IN  [units |-> AuthFrame(proto, SubSeq(b, 1, k)) \o FlattenSeq(packs),
                   encoder |-> [hasSentHeader |-> TRUE, packID |-> first + Len(packs)]]
              : k \in FirstParts(b)}

NewDecoder == [src |-> <<>>, dst |-> <<>>, recvID |-> 1, rawTrans |-> FALSE, err |-> FALSE]

(* Mutant: the overhead of the first frame is taken for data. *)
PayloadWithOverhead(proto, id, body, overhead) ==
    IF proto = "auth_chain" THEN From(body, ChainPad(id) + 1)
    ELSE From(body, body[1][2] + 2)

(* The payload of a complete frame's body; the server's first frame of      *)
(* auth_chain begins with its overhead.                                     *)
Payload(proto, id, body, overhead) ==
    IF proto = "auth_chain"
    THEN From(body, ChainPad(id) + 1 + IF overhead /\ id = 1 THEN 1 ELSE 0)
    ELSE From(body, body[1][2] + 2)

(* The length or the code of a head is wrong: it is not a head, or it was   *)
(* made with another id.                                                    *)
Garbled(proto, d) == d.src[1][1] # "head" \/ d.src[1][2] # IdOf(proto, d.recvID)

(* One turn of Decode's loop: it waits for a frame that is not complete.  A *)
(* garbled head empties the buffer, and so does a wrong checksum.           *)
DecodeStep(proto, overhead, d) ==
    LET head == d.src[1]
        length == head[3] + 2
        wrong(raw) == [d EXCEPT !.src = <<>>, !.err = TRUE, !.rawTrans = raw]
    IN  IF d.err \/ Len(d.src) < 2 THEN d
        ELSE CASE Garbled(proto, d) -> wrong(proto = "auth_chain")
               [] ~Garbled(proto, d) /\ Len(d.src) < length -> d
               [] ~Garbled(proto, d) /\ Len(d.src) >= length ->
                    IF d.src[length] # Unit("sum", head[2], 0) THEN wrong(TRUE)
                    ELSE [d EXCEPT
                            !.dst = @ \o Payload(proto, d.recvID, SubSeq(d.src, 2, length - 1), overhead),
                            !.src = From(@, length + 1),
                            !.recvID = @ + 1]

(* Decode with all that has arrived. *)
Decode(proto, overhead, d) ==
    IF d.rawTrans \/ proto = "origin"
    THEN [d EXCEPT !.dst = @ \o d.src, !.src = <<>>]
    ELSE Repeat(LAMBDA x : DecodeStep(proto, overhead, x), d, Len(d.src))

(* The server's side, which undoes what Encode did. *)
Serve(proto, units) ==
    LET decoded(s) == Decode(proto, FALSE, [NewDecoder EXCEPT !.src = s]).dst
    IN  CASE proto = "origin" -> units
          [] proto # "origin" /\ units = <<>> -> <<>>
          [] proto # "origin" /\ units # <<>> ->
               LET n == units[1][3]
               IN  IF units[1][1] # "auth" \/ Len(units) < n + 1 THEN <<>>
                   ELSE SubSeq(units, 2, n + 1) \o decoded(From(units, n + 2))

(* A frame of the server, with the padding it chooses.                      *)
ServerFrame(proto, id, pad, data) ==
    CASE proto = "origin" -> data
      [] proto = "auth_chain" ->
           Frame(proto, id, 0, (IF id = 1 THEN <<Unit("overhead", 0, 0)>> ELSE <<>>) \o data)
      [] OTHER -> Frame(proto, id, pad, data)
=============================================================================
