----------------------------- MODULE ObfsStream -----------------------------
(***************************************************************************)
(* The reading side of ObfsConn, the server, and the whole connection.     *)
(* Each direction is shown to be a Pipe.                                   *)
(***************************************************************************)
EXTENDS ObfsConn

(* Reading. *)

(* How much the obfuscation's caller has room for: the protocol layer reads *)
(* into a relay buffer, without one the app's own buffer is passed down.    *)
Room == IF proto = "origin" THEN AppBuf ELSE RelayBuf

ReadStep == UNCHANGED <<kind, proto, written, encoder, up, served, greeted, answered, broken, raced>>

Reading ==
    /\ pc["reader"] = "read"
    /\ proto = "origin" \/ decoder.dst = <<>>

Returns(b) ==
    /\ chunk' = b
    /\ pc' = [pc EXCEPT !["reader"] = "decode"]

Fails == pc' = [pc EXCEPT !["reader"] = "failed"]

(* What a read of the raw connection with room for n units may return. *)
Arrived(n) == {Take(down, k) : k \in 1 .. Minimum(n, Len(down))}

(* c.Conn.Read(b), for the connections that need not look at the bytes. *)
ReadThrough ==
    /\ Reading
    /\ \/ kind = "plain"
       \/ kind \in {"http_simple", "obfs_http"} /\ obfs.recvd /\ obfs.left = <<>>
       \/ kind = "random_head" /\ obfs.recvd
    /\ \E b \in Arrived(Room) : Returns(b) /\ down' = Drop(down, Len(b))
    /\ ReadStep
    /\ UNCHANGED <<arg, obfs, decoder, got, torn>>

(* Data left over from the last read of the raw connection goes first. *)
ReadLeft ==
    /\ Reading /\ obfs.left # <<>>
    /\ Returns(Take(obfs.left, Room))
    /\ obfs' = [obfs EXCEPT !.left = Drop(@, Room)]
    /\ ReadStep
    /\ UNCHANGED <<arg, down, decoder, got, torn>>

(* http: the first read must hold the end of the response header; what is   *)
(* behind it is data.                                                       *)
TakeHeader ==
    /\ Reading /\ ~obfs.recvd
    /\ \E b \in Arrived(RelayBuf) :
           /\ down' = Drop(down, Len(b))
           /\ \/ /\ ~Contains(b, Unit("crlf", 0, 0))
                 /\ Fails
                 /\ UNCHANGED <<obfs, chunk>>
              \/ \E pos \in 1 .. Len(b) :
                     /\ b[pos] = Unit("crlf", 0, 0)
                     /\ Returns(Take(Drop(b, pos), Room))
                     /\ obfs' = [obfs EXCEPT !.recvd = TRUE, !.left = Drop(Drop(b, pos), Room)]
    /\ ReadStep
    /\ UNCHANGED <<arg, decoder, got, torn>>

ReadHttpHeader == kind = "http_simple" /\ TakeHeader
ReadHttpResponse == kind = "obfs_http" /\ TakeHeader

(* random_head: the first read is the greeting, whatever it holds, and even *)
(* if it fails.  Read then calls Write(nil) and returns no bytes.           *)
ReadGreeting ==
    /\ Reading /\ kind = "random_head" /\ ~obfs.recvd
    /\ \/ \E b \in Arrived(RelayBuf) :
              /\ down' = Drop(down, Len(b))
              /\ torn' = (down' # <<>>)
       \/ /\ broken
          /\ UNCHANGED <<down, torn>>
    /\ obfs' = [obfs EXCEPT !.recvd = TRUE]
    /\ pc' = [pc EXCEPT !["reader"] = "check"]
    /\ ReadStep
    /\ UNCHANGED <<arg, chunk, decoder, got>>

(* tls1.2_ticket_auth: the answer to the ClientHello must come in one read, *)
(* or its code does not verify.                                             *)
ReadHandshake ==
    /\ Reading /\ kind = "tls1.2_ticket_auth" /\ obfs.status # 8 /\ obfs.left = <<>>
    /\ \E b \in Arrived(RelayBuf) :
           /\ down' = Drop(down, Len(b))
           /\ IF b = <<Unit("reply", 1, 0), Unit("reply", 2, 0)>>
              THEN pc' = [pc EXCEPT !["reader"] = "check"]
              ELSE Fails
    /\ ReadStep
    /\ UNCHANGED <<arg, obfs, chunk, decoder, got, torn>>

ReadRecords ==
    /\ Reading /\ kind = "tls1.2_ticket_auth" /\ obfs.status = 8 /\ obfs.left = <<>>
    /\ \E b \in Arrived(RelayBuf) :
           LET r == Unpack(obfs.under \o b)
           IN  /\ down' = Drop(down, Len(b))
               /\ obfs' = [obfs EXCEPT !.under = r.src, !.left = Drop(r.dst, Room)]
               /\ IF r.err THEN Fails /\ UNCHANGED chunk
                  ELSE Returns(Take(r.dst, Room))
    /\ ReadStep
    /\ UNCHANGED <<arg, decoder, got, torn>>

(* obfs_tls: io.ReadFull waits for the bytes of a head, and for a record    *)
(* that fits into b; of a longer one Read takes what is there, and notes    *)
(* how much of it is still to come.                                         *)
ReadTlsRecord ==
    /\ Reading /\ kind = "obfs_tls" /\ obfs.remain = 0 /\ Len(down) > 2
    /\ LET length == down[2][3]
           body == Drop(down, 2)
       IN  \E b \in {Take(body, k) : k \in 1 .. Minimum(AppBuf, Len(body))} :
               /\ IF length > AppBuf THEN TRUE ELSE Len(b) = length
               /\ Returns(b)
               /\ down' = Drop(body, Len(b))
               /\ obfs' = [obfs EXCEPT !.remain = length - Len(b)]
    /\ ReadStep
    /\ UNCHANGED <<arg, decoder, got, torn>>

ReadTlsRemain ==
    /\ Reading /\ kind = "obfs_tls" /\ obfs.remain > 0
    /\ LET n == Minimum(obfs.remain, AppBuf)
       IN  /\ Len(down) >= n
           /\ Returns(Take(down, n))
           /\ down' = Drop(down, n)
           /\ obfs' = [obfs EXCEPT !.remain = @ - n]
    /\ ReadStep
    /\ UNCHANGED <<arg, decoder, got, torn>>

(* The raw connection reports an error. *)
ReadFails ==
    /\ Reading /\ broken /\ obfs.left = <<>>
    /\ kind = "random_head" => obfs.recvd
    /\ Fails
    /\ ReadStep
    /\ UNCHANGED <<arg, obfs, down, reading>>

(* The protocol's Read, with what the obfuscation returned: decode all      *)
(* frames that are complete, and give the app what it has room for.         *)
DecodeChunk ==
    /\ pc["reader"] = "decode"
    /\ LET d == Decode(proto, TRUE, [decoder EXCEPT !.src = @ \o chunk])
       IN  /\ IF d.err THEN Fails /\ UNCHANGED got
              ELSE /\ pc' = [pc EXCEPT !["reader"] = "read"]
                   /\ got' = got \o Take(d.dst, AppBuf)
           /\ decoder' = IF d.err THEN d ELSE [d EXCEPT !.dst = Drop(@, AppBuf)]
    /\ chunk' = <<>>
    /\ ReadStep
    /\ UNCHANGED <<arg, obfs, down, torn>>

ReadDecoded ==
    /\ pc["reader"] = "read" /\ proto # "origin" /\ decoder.dst # <<>>
    /\ got' = got \o Take(decoder.dst, AppBuf)
    /\ decoder' = [decoder EXCEPT !.dst = Drop(@, AppBuf)]
    /\ ReadStep
    /\ UNCHANGED <<pc, arg, obfs, down, chunk, torn>>

Read ==
    \/ ReadThrough \/ ReadLeft \/ ReadHttpHeader \/ ReadHttpResponse \/ ReadGreeting \/ ReadHandshake
    \/ ReadRecords \/ ReadTlsRecord \/ ReadTlsRemain \/ ReadFails
    \/ DecodeChunk \/ ReadDecoded

-----------------------------------------------------------------------------
(* The server. *)

ServerStep ==
    UNCHANGED <<kind, proto, written, pc, client, up, served, reading, broken, raced>>

(* The answer to a ClientHello or a random head. *)
Greet ==
    /\ kind \in {"random_head", "tls1.2_ticket_auth"} /\ up # <<>> /\ ~greeted /\ ~broken
    /\ greeted' = TRUE
    /\ down' = IF kind = "random_head" THEN <<Unit("reply", 0, 0), Unit("reply", 0, 0)>>
               ELSE <<Unit("reply", 1, 0), Unit("reply", 2, 0)>>
    /\ ServerStep
    /\ UNCHANGED answered

(* The server answers what it has read.  The obfuscation puts a header      *)
(* before the first answer, or cuts it into records where it likes.         *)
Answer ==
    /\ served # <<>> /\ answered < Len(Answers) /\ ~broken
    /\ answered' = answered + 1
    /\ LET units == ServerFrame(proto, answered + 1, 1, Answers[answered + 1])
       IN      CASE kind \in {"plain", "random_head"} -> down' = down \o units
                 [] kind \in {"http_simple", "obfs_http"} ->
                      down' = down \o (IF answered = 0
                                       THEN <<Unit("header", 0, 0), Unit("crlf", 0, 0)>>
                                       ELSE <<>>) \o units
                 [] kind = "tls1.2_ticket_auth" ->
                      \E c \in {0, Len(units) \div 2} : down' = down \o Records(units, c)
                 [] kind = "obfs_tls" -> down' = down \o <<Unit("type", 0, 0)>> \o Record(units)
    /\ ServerStep
    /\ UNCHANGED greeted

Server == Greet \/ Answer

-----------------------------------------------------------------------------
(* The raw connection is reset: what has not been read is lost. *)
NetFails ==
    /\ ~broken
    /\ broken' = TRUE
    /\ down' = <<>>
    /\ UNCHANGED <<kind, proto, written, pc, client, up, served, greeted, answered, reading, raced>>

Next ==
    \/ WriteMessage
    \/ \E p \in Goroutines : Write(p)
    \/ Read
    \/ Server
    \/ NetFails

Fairness ==
    /\ WF_vars(WriteMessage)
    /\ \A p \in Goroutines : WF_vars(Write(p))
    /\ WF_vars(Read)
    /\ WF_vars(Server)

Spec == Init /\ [][Next]_vars /\ Fairness

-----------------------------------------------------------------------------
Failed == broken \/ \E p \in Goroutines : pc[p] = "failed"

(* What the app writes comes out at the server once and in order, through   *)
(* every layer and both handshakes, unless the reader's Write(nil) and the  *)
(* writer's Write overlapped.                                               *)
Upload == INSTANCE Pipe WITH
    sent <- FlattenSeq(SubSeq(Messages, 1, written)),
    got  <- served,
    cut  <- Failed,
    void <- raced

(* What the server answers comes out at the app once and in order, however  *)
(* TCP cuts it, except that random_head takes a greeting that came in two   *)
(* parts for data.                                                          *)
Download == INSTANCE Pipe WITH
    sent <- FlattenSeq(SubSeq(Answers, 1, answered)),
    got  <- got,
    cut  <- Failed \/ raced,
    void <- torn

UploadIsPipe == Upload!Spec
DownloadIsPipe == Download!Spec
=============================================================================
