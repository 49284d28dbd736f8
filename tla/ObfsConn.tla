------------------------------ MODULE ObfsConn ------------------------------
(***************************************************************************)
(* One connection of a shadowsocks outbound through an obfuscating plugin: *)
(* the connections of transport/ssr/obfs and transport/simple-obfs, the    *)
(* protocol layer of transport/ssr/protocol above them, and the server.    *)
(*                                                                         *)
(* Two goroutines use the connection: the "writer" sends what the app      *)
(* writes, the "reader" reads the answers.  In tls1.2_ticket_auth and      *)
(* random_head the reader answers the server's greeting itself, by calling *)
(* Write(nil) while the writer may be inside Write; nothing is locked.     *)
(* The stream cipher between the two layers keeps bytes and order and is   *)
(* left out.  TCP may cut the server's stream anywhere, so that a read of  *)
(* the raw connection takes any part of what has arrived.                  *)
(***************************************************************************)
EXTENDS SsrFraming

CONSTANTS
    SsrKinds,     \* obfuscations of the shadowsocksr plugin to be checked
    SimpleKinds,  \* modes of the obfs-local plugin to be checked
    Framings,     \* protocols of the shadowsocksr plugin to be checked
    Messages,     \* what the app writes: a sequence of sequences of payload units
    Answers,      \* what the server writes, alike
    AppBuf,       \* units the buffer of the app's Read takes
    RelayBuf,     \* units pool.RelayBufferSize takes
    ChunkSize     \* units a chunk of simple-obfs takes

ASSUME ObfsAssumption ==
    /\ SsrKinds \subseteq {"plain", "http_simple", "random_head", "tls1.2_ticket_auth"}
    /\ SimpleKinds \subseteq {"obfs_http", "obfs_tls"}
    /\ Framings \subseteq Protocols
    /\ {AppBuf, RelayBuf, ChunkSize} \subseteq Nat \ {0}
    /\ RelayBuf >= 2
    /\ {Messages, Answers} \subseteq Seq(Seq({"data"} \X Nat \X {0}))

VARIABLES
    kind, proto,  \* the plugin's configuration
    written,      \* messages the app has written
    pc, arg,      \* where each goroutine is, and the b of its Write
    encoder,      \* hasSentHeader and packID of the protocol
    up,           \* units the server has received
    served,       \* what the server's proxy has read
    obfs,         \* fields of the obfuscating connection
    down,         \* units the server has sent and the reader has not read
    greeted,      \* the server's obfuscation has answered the first bytes
    answered,     \* answers the server has sent
    chunk,        \* what the obfuscating Read returned
    decoder,      \* the protocol's buffers, recvID and rawTrans
    got,          \* units the app has read
    broken,       \* the raw connection has failed
    raced,        \* history: two Writes of one obfuscating connection overlapped
    torn          \* history: random_head read a part of the server's greeting only

client == <<arg, encoder, obfs>>
server == <<up, served, down, greeted, answered>>
reading == <<chunk, decoder, got, torn>>
vars == <<kind, proto, written, pc, client, server, reading, broken, raced>>

Goroutines == {"writer", "reader"}
Other(p) == IF p = "writer" THEN "reader" ELSE "writer"
Minimum(a, b) == IF a < b THEN a ELSE b
Take(s, n) == SubSeq(s, 1, Minimum(n, Len(s)))
Drop(s, n) == From(s, Minimum(n, Len(s)) + 1)

(* The fields of the connections.  recvd is hasRecvHeader, rawTransRecv or  *)
(* ~firstResponse; pend holds writes back (sendBuf, buf); left is decoded   *)
(* data that the caller's buffer had no room for (decoded, buf).            *)
NewObfs == [sent |-> FALSE, recvd |-> FALSE, rawSent |-> FALSE, status |-> 0,
            pend |-> <<>>, left |-> <<>>, under |-> <<>>, remain |-> 0]

Init ==
    /\ \/ kind \in SsrKinds /\ proto \in Framings
       \/ kind \in SimpleKinds /\ proto = "origin"
    /\ written = 0
    /\ pc = [p \in Goroutines |-> IF p = "writer" THEN "idle" ELSE "read"]
    /\ arg = [p \in Goroutines |-> <<>>]
    /\ encoder = NewEncoder
    /\ obfs = NewObfs
    /\ up = <<>> /\ served = <<>> /\ down = <<>> /\ greeted = FALSE /\ answered = 0
    /\ chunk = <<>> /\ decoder = NewDecoder /\ got = <<>>
    /\ broken = FALSE /\ raced = FALSE /\ torn = FALSE

(* packData of the obfuscation: a record around b, or two if the random     *)
(* size cuts b at c.                                                        *)
Record(b) == IF b = <<>> THEN <<>> ELSE <<Unit("rec", 0, Len(b))>> \o b
Records(b, c) == Record(SubSeq(b, 1, c)) \o Record(From(b, c + 1))

(* One turn of the loop that takes records out of what was received: more   *)
(* than a record's head must be there, and the whole record.                *)
UnpackStep(r) ==
    IF Len(r.src) < 2 \/ r.err THEN r
    ELSE IF r.src[1][1] # "rec" THEN [r EXCEPT !.src = <<>>, !.err = TRUE]
    ELSE IF Len(r.src) < r.src[1][3] + 1 THEN r
    ELSE [r EXCEPT !.dst = @ \o SubSeq(r.src, 2, r.src[1][3] + 1),
                   !.src = From(@, r.src[1][3] + 2)]

Unpack(src) ==
    Repeat(UnpackStep, [src |-> src, dst |-> <<>>, err |-> FALSE], Len(src))

(* What the server's obfuscation takes out of the units it received. *)
Plain(units) ==
    CASE units = <<>> \/ kind = "plain" -> units
      [] units # <<>> /\ kind \in {"http_simple", "obfs_http", "random_head"} -> Tail(units)
      [] units # <<>> /\ kind = "obfs_tls" ->
           LET n == units[1][3]
           IN  SubSeq(units, 2, n + 1) \o Unpack(From(units, n + 2)).dst
      [] units # <<>> /\ kind = "tls1.2_ticket_auth" ->
           IF Len(units) > 1 /\ units[2] = Unit("finish", 0, 0)
           THEN Unpack(From(units, 3)).dst ELSE <<>>

-----------------------------------------------------------------------------
(* Writing. *)

(* The protocol's Write: Encode, then the obfuscation's Write. *)
WriteMessage ==
    /\ pc["writer"] = "idle" /\ written < Len(Messages)
    /\ \E e \in Encode(proto, encoder, Messages[written + 1]) :
           /\ arg' = [arg EXCEPT !["writer"] = e.units]
           /\ encoder' = e.encoder
    /\ written' = written + 1
    /\ pc' = [pc EXCEPT !["writer"] = "check"]
    /\ UNCHANGED <<kind, proto, obfs, server, reading, broken, raced>>

Inside == {"append", "flush", "clear", "set8", "send"}

(* A step of p inside the obfuscation's Write. *)
WriteStep(p) ==
    /\ raced' = (raced \/ pc[Other(p)] \in Inside)
    /\ UNCHANGED <<kind, proto, written, encoder, down, greeted, answered, reading, broken>>

(* Write returns.  The reader does not look at the error of its Write(nil). *)
Return(p) ==
    /\ pc' = [pc EXCEPT ![p] = IF p = "reader" THEN "read"
                               ELSE IF broken THEN "failed" ELSE "idle"]
    /\ arg' = [arg EXCEPT ![p] = <<>>]

(* c.Conn.Write, and the server's reading of it. *)
ConnWrite(units) ==
    IF broken THEN UNCHANGED <<up, served>>
    ELSE /\ up' = up \o units
         /\ served' = Serve(proto, Plain(up'))

(* Mutant: random_head passes bytes on as soon as the server answered. *)
PassesOnceAnswered ==
    \/ kind = "plain"
    \/ kind \in {"http_simple", "obfs_http"} /\ obfs.sent
    \/ kind = "random_head" /\ obfs.recvd

(* plain, and the others once they pass bytes on: http_simple after its     *)
(* header, random_head after rawTransSent, obfs_http after firstRequest.    *)
PassesOn ==
    \/ kind = "plain"
    \/ kind \in {"http_simple", "obfs_http"} /\ obfs.sent
    \/ kind = "random_head" /\ obfs.rawSent

WriteThrough(p) ==
    /\ pc[p] = "check" /\ PassesOn
    /\ ConnWrite(arg[p])
    /\ Return(p)
    /\ WriteStep(p)
    /\ UNCHANGED obfs

(* The first write of http_simple puts k bytes into the URL ...             *)
WriteHttpHeader(p) ==
    /\ pc[p] = "check" /\ kind = "http_simple" /\ ~obfs.sent
    /\ \E k \in 1..Len(arg[p]) : ConnWrite(<<Unit("request", 0, k)>> \o arg[p])
    /\ obfs' = [obfs EXCEPT !.sent = TRUE]
    /\ Return(p)
    /\ WriteStep(p)

(* ... and that of obfs_http everything into the body.                      *)
WriteHttpRequest(p) ==
    /\ pc[p] = "check" /\ kind = "obfs_http" /\ ~obfs.sent
    /\ ConnWrite(<<Unit("request", 0, 0)>> \o arg[p])
    /\ obfs' = [obfs EXCEPT !.sent = TRUE]
    /\ Return(p)
    /\ WriteStep(p)

(* The ClientHello of obfs_tls carries b as its session ticket. *)
ClientHello(b) == <<Unit("hello", 0, Len(b))>> \o b

(* The chunks of obfs_tls: the first one travels in the ClientHello. *)
WriteTlsChunk(p) ==
    /\ pc[p] = "check" /\ kind = "obfs_tls"
    /\ LET b == Take(arg[p], ChunkSize)
           rest == Drop(arg[p], ChunkSize)
       IN  /\ ConnWrite(IF obfs.sent THEN Record(b) ELSE ClientHello(b))
           /\ IF rest = <<>> \/ broken THEN Return(p)
              ELSE arg' = [arg EXCEPT ![p] = rest] /\ UNCHANGED pc
    /\ obfs' = [obfs EXCEPT !.sent = TRUE]
    /\ WriteStep(p)

Buffers ==
    \/ kind = "random_head" /\ ~obfs.rawSent
    \/ kind = "tls1.2_ticket_auth" /\ obfs.status # 8

(* Write has seen that the handshake is not over. *)
WriteHeld(p) ==
    /\ pc[p] = "check" /\ Buffers
    /\ pc' = [pc EXCEPT ![p] = "append"]
    /\ WriteStep(p)
    /\ UNCHANGED <<arg, obfs, up, served>>

(* random_head appends b to buf.  The first Write sends the random head; a  *)
(* later one flushes buf if the server has answered.                        *)
RandomHeadAppend(p) ==
    /\ pc[p] = "append" /\ kind = "random_head"
    /\ obfs' = [obfs EXCEPT !.pend = @ \o arg[p], !.sent = TRUE]
    /\ IF ~obfs.sent
       THEN ConnWrite(<<Unit("random", 0, 0)>>) /\ Return(p)
       ELSE /\ UNCHANGED <<up, served>>
            /\ IF obfs.recvd
               THEN pc' = [pc EXCEPT ![p] = "flush"] /\ UNCHANGED arg
               ELSE Return(p)
    /\ WriteStep(p)

RandomHeadFlush(p) ==
    /\ pc[p] = "flush"
    /\ ConnWrite(obfs.pend)
    /\ pc' = [pc EXCEPT ![p] = "clear"]
    /\ WriteStep(p)
    /\ UNCHANGED <<arg, obfs>>

RandomHeadClear(p) ==
    /\ pc[p] = "clear"
    /\ obfs' = [obfs EXCEPT !.pend = <<>>, !.rawSent = TRUE]
    /\ Return(p)
    /\ WriteStep(p)
    /\ UNCHANGED <<up, served>>

(* tls1.2_ticket_auth after the handshake. *)
TicketWrite(p) ==
    /\ pc[p] = "check" /\ kind = "tls1.2_ticket_auth" /\ obfs.status = 8
    /\ \E c \in 0 .. Len(arg[p]) - 1 : ConnWrite(Records(arg[p], c))
    /\ Return(p)
    /\ WriteStep(p)
    /\ UNCHANGED obfs

(* packAuthData, packSNIData, packTicketBuf: no data in this ClientHello. *)
TicketHello == <<Unit("hello", 0, 0)>>

(* Before it, a record of b is kept in sendBuf.  The first Write sends the  *)
(* ClientHello; Write(nil), once that was sent, takes sendBuf.              *)
TicketAppend(p) ==
    /\ pc[p] = "append" /\ kind = "tls1.2_ticket_auth"
    /\ LET kept == obfs.pend \o Record(arg[p])
       IN  \/ /\ obfs.status = 0
              /\ obfs' = [obfs EXCEPT !.pend = kept, !.status = 1]
              /\ ConnWrite(TicketHello)
              /\ Return(p)
           \/ /\ obfs.status = 1 /\ arg[p] = <<>>
              /\ obfs' = [obfs EXCEPT !.pend = <<>>]
              /\ arg' = [arg EXCEPT ![p] = <<Unit("finish", 0, 0)>> \o kept]
              /\ pc' = [pc EXCEPT ![p] = "set8"]
              /\ UNCHANGED <<up, served>>
           \/ /\ obfs.status = 8 \/ (obfs.status = 1 /\ arg[p] # <<>>)
              /\ obfs' = [obfs EXCEPT !.pend = kept]
              /\ UNCHANGED <<up, served>>
              /\ Return(p)
    /\ WriteStep(p)

TicketSet8(p) ==
    /\ pc[p] = "set8"
    /\ obfs' = [obfs EXCEPT !.status = 8]
    /\ pc' = [pc EXCEPT ![p] = "send"]
    /\ WriteStep(p)
    /\ UNCHANGED <<arg, up, served>>

TicketSend(p) ==
    /\ pc[p] = "send"
    /\ ConnWrite(arg[p])
    /\ Return(p)
    /\ WriteStep(p)
    /\ UNCHANGED obfs

Write(p) ==
    \/ WriteThrough(p) \/ WriteHttpHeader(p) \/ WriteHttpRequest(p) \/ WriteTlsChunk(p) \/ WriteHeld(p)
    \/ RandomHeadAppend(p) \/ RandomHeadFlush(p) \/ RandomHeadClear(p)
    \/ TicketWrite(p) \/ TicketAppend(p) \/ TicketSet8(p) \/ TicketSend(p)

=============================================================================
