---------------------------- MODULE HttpExchange ----------------------------
(***************************************************************************)
(* A response of httpClient (http.go).  Its body can be read only once:    *)
(* GetContent keeps what it read for every later call, and WriteTo reads   *)
(* the body into a file.  Threads of the Android side may call both.       *)
(*                                                                         *)
(* A body is a sequence of pieces, one per Read; the transport that        *)
(* delivers and closes it is external.  Every thread has its own file.     *)
(***************************************************************************)
EXTENDS Naturals, Sequences

CONSTANTS
    Readers,       \* threads that call GetContent and WriteTo
    Pieces,        \* the pieces of the body
    MaxHttpCalls   \* bound on the calls

ASSUME PiecesAssumption ==
    Pieces \in Seq(Nat) /\ Pieces # <<>> /\ \A i \in DOMAIN Pieces : Pieces[i] = i

VARIABLES
    status,     \* of the exchange: "none", "ok" (200), "other"
    body,       \* h.Body: [rest, state], the state "open", "eof", "broken" or "closed"
    getOnce,    \* h.getContentOnce: "new", "running", "done"
    kept,       \* [bytes, failed]: h.content, and whether h.contentError is set
    file,       \* reader -> what its file holds
    reading,    \* reader -> where it is
    httpCalls,  \* calls so far
    returned,   \* history: what GetContent has returned
    saved,      \* history: readers whose last file is of a WriteTo that returned nil
    saves,      \* history: how many WriteTo have returned nil
    mixed       \* history: two were at the body before it was closed

contentVars == <<getOnce, kept, returned>>
fileVars == <<file, saved, saves>>
httpVars == <<status, body, contentVars, fileVars, reading, httpCalls, mixed>>

HttpInit ==
    /\ status = "none" /\ body = [rest |-> Pieces, state |-> "open"]
    /\ getOnce = "new" /\ kept = [bytes |-> <<>>, failed |-> FALSE] /\ returned = {}
    /\ file = [r \in Readers |-> <<>>] /\ saved = {} /\ saves = 0
    /\ reading = [r \in Readers |-> "idle"] /\ httpCalls = 0 /\ mixed = FALSE

Steps(r, from, to) == reading[r] = from /\ reading' = [reading EXCEPT ![r] = to]

(* Who reads the body, or has read it and not yet closed it. *)
UsePlaces == {"get", "getClose", "save", "saveClose", "saveFailed"}
BodyShared == body.state # "closed" /\ \E r \in Readers : reading[r] \in UsePlaces

-----------------------------------------------------------------------------
(* The transport.                                                           *)

(* Read and Close of the body lock it.  A body that was closed, or whose    *)
(* connection broke, answers every Read with an error.                      *)
Piece == body.state = "open" /\ body.rest # <<>>
BodyReads ==
    body' = IF Piece THEN [body EXCEPT !.rest = Tail(@)]
            ELSE [body EXCEPT !.state = IF @ = "open" THEN "eof" ELSE @]
BodyEnds == ~Piece /\ body.state \in {"open", "eof"}
BodyFails == body.state \in {"broken", "closed"}
BodyCloses == body' = [body EXCEPT !.state = "closed"]

ConnectionBreaks ==
    /\ status # "none" /\ body.state = "open"
    /\ body' = [body EXCEPT !.state = "broken"]
    /\ UNCHANGED <<status, contentVars, fileVars, reading, httpCalls, mixed>>

-----------------------------------------------------------------------------
(* Execute, which reads the content itself for the text of its error if the *)
(* status is not 200; such a response is given to nobody.                   *)

Execute(r, st) ==
    /\ status = "none"
    /\ status' = st
    /\ Steps(r, "idle", IF st = "ok" THEN "idle" ELSE "once")
    /\ UNCHANGED <<body, contentVars, fileVars, httpCalls, mixed>>

-----------------------------------------------------------------------------
(* GetContent.                                                              *)

Begins(r, to) ==
    /\ status = "ok" /\ httpCalls < MaxHttpCalls
    /\ httpCalls' = httpCalls + 1
    /\ Steps(r, "idle", to)

GetContent(r) == Begins(r, "once") /\ UNCHANGED <<status, body, contentVars, fileVars, mixed>>

(* Mutant: whoever finds the function running goes on. *)
OnceWithoutWaiting(r) ==
    /\ IF getOnce = "new" THEN Steps(r, "once", "get") /\ getOnce' = "running"
       ELSE Steps(r, "once", "got") /\ UNCHANGED getOnce
    /\ mixed' = (mixed \/ (getOnce = "new" /\ BodyShared))
    /\ UNCHANGED <<status, body, kept, returned, fileVars, httpCalls>>

(* getContentOnce.Do: the first caller runs the function, others wait.      *)
Once(r) ==
    /\ CASE getOnce = "new" -> Steps(r, "once", "get") /\ getOnce' = "running"
         [] getOnce = "done" -> Steps(r, "once", "got") /\ UNCHANGED getOnce
         [] getOnce = "running" -> FALSE
    /\ mixed' = (mixed \/ (getOnce = "new" /\ BodyShared))
    /\ UNCHANGED <<status, body, kept, returned, fileVars, httpCalls>>

(* io.ReadAll *)
ReadAll(r) ==
    /\ Steps(r, "get", IF Piece THEN "get" ELSE "getClose")
    /\ BodyReads
    /\ kept' = IF Piece THEN [kept EXCEPT !.bytes = Append(@, Head(body.rest))]
               ELSE [kept EXCEPT !.failed = BodyFails]
    /\ UNCHANGED <<status, getOnce, returned, fileVars, httpCalls, mixed>>

(* The function's deferred Close. *)
GetCloses(r) ==
    /\ Steps(r, "getClose", "got")
    /\ BodyCloses /\ getOnce' = "done"
    /\ UNCHANGED <<status, kept, returned, fileVars, httpCalls, mixed>>

GetReturns(r) ==
    /\ Steps(r, "got", "idle")
    /\ returned' = returned \cup {kept}
    /\ UNCHANGED <<status, body, getOnce, kept, fileVars, httpCalls, mixed>>

-----------------------------------------------------------------------------
(* WriteTo.                                                                 *)

(* os.Create truncates the file before anything is read.  No lock keeps two *)
(* calls apart.                                                             *)
WriteTo(r) ==
    /\ Begins(r, "save")
    /\ file' = [file EXCEPT ![r] = <<>>] /\ saved' = saved \ {r}
    /\ mixed' = (mixed \/ BodyShared)
    /\ UNCHANGED <<status, body, contentVars, saves>>

CreateFails(r) ==
    /\ Begins(r, "noFile")
    /\ UNCHANGED <<status, body, contentVars, fileVars, mixed>>

(* io.CopyBuffer *)
Save(r) ==
    /\ Steps(r, "save", CASE Piece -> "save" [] BodyEnds -> "saveClose" [] BodyFails -> "saveFailed")
    /\ BodyReads
    /\ file' = IF Piece THEN [file EXCEPT ![r] = Append(@, Head(body.rest))] ELSE file
    /\ UNCHANGED <<status, contentVars, saved, saves, httpCalls, mixed>>

(* The piece that was read cannot be written. *)
SaveFails(r) ==
    /\ Piece
    /\ Steps(r, "save", "saveFailed")
    /\ BodyReads
    /\ UNCHANGED <<status, contentVars, fileVars, httpCalls, mixed>>

(* The deferred Close, whatever happened. *)
SaveReturns(r) ==
    /\ reading[r] \in {"saveClose", "saveFailed", "noFile"}
    /\ reading' = [reading EXCEPT ![r] = "idle"]
    /\ IF reading[r] = "saveClose" THEN saved' = saved \cup {r} /\ saves' = saves + 1
       ELSE UNCHANGED <<saved, saves>>
    /\ BodyCloses
    /\ UNCHANGED <<status, contentVars, file, httpCalls, mixed>>

HttpNext ==
    \/ ConnectionBreaks
    \/ \E r \in Readers :
          \/ \E st \in {"ok", "other"} : Execute(r, st)
          \/ GetContent(r) \/ Once(r) \/ ReadAll(r) \/ GetCloses(r) \/ GetReturns(r)
          \/ WriteTo(r) \/ CreateFails(r) \/ Save(r) \/ SaveFails(r) \/ SaveReturns(r)

-----------------------------------------------------------------------------
(* Correctness.                                                             *)

Contents == {c \in returned : ~c.failed}
BodyUsed == returned # {} \/ saves > 0 \/ (httpCalls > 0 /\ \A r \in Readers : reading[r] = "idle")

Apart(a, b) == \A i \in DOMAIN a, j \in DOMAIN b : a[i] # b[j]

(* All calls of GetContent return the same, also those that meet the first  *)
(* one at work.  Nothing keeps GetContent and the calls of WriteTo from     *)
(* sharing the body, and then each may succeed with a part of it, but no    *)
(* piece is in two of them.  As long as no two were at the body before it   *)
(* was closed, whichever succeeds has the whole body, and only one does.    *)
(* Whatever fails, a body that was used is closed, so that its connection   *)
(* is free (http.go:158-220).                                               *)
BodyReadOnce ==
    /\ \A c, d \in returned : c.failed = d.failed /\ (~c.failed => c = d)
    /\ ~mixed =>
          /\ \A c \in Contents : c.bytes = Pieces
          /\ \A r \in saved : file[r] = Pieces
          /\ saves <= 1 /\ (saves = 1 => Contents = {})
    /\ \A r \in Readers : Apart(kept.bytes, file[r])
    /\ \A r, s \in Readers : r # s => Apart(file[r], file[s])
    /\ BodyUsed => body.state = "closed"
=============================================================================
