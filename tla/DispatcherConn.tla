--------------------------- MODULE DispatcherConn ---------------------------
(***************************************************************************)
(* dispatcherConn (v2ray.go): the UDP connection a tun session opens over  *)
(* the core's dispatcher.                                                  *)
(*                                                                         *)
(* handleInput moves datagrams from link.Reader into the channel cache;    *)
(* the session reads them with ReadFrom; its writer goroutine calls        *)
(* WriteTo; an inactivity timer may fire.  Each of the four may call Close,*)
(* whose body closeOnce runs once and the other callers wait for.          *)
(* Datagrams are numbered in the order the outbound produced them.         *)
(***************************************************************************)
EXTENDS Integers, Sequences

CONSTANTS
    CacheCap,   \* 16: capacity of cache
    MaxPackets  \* bound on the datagrams the outbound produces

ASSUME CapAssumption == CacheCap \in Nat \ {0} /\ MaxPackets \in Nat

Closers == {"input", "reader", "writer", "timer"}   \* the goroutines that call Close

VARIABLES
    produced,   \* datagrams the outbound has produced
    empty,      \* those of them that have no payload
    link,       \* link.Reader: datagrams waiting in the pipe
    linkState,  \* link.Reader: "open", "ended" by the outbound, "interrupted"
    writable,   \* link.Writer accepts data
    cache,      \* the channel c.cache
    cacheOpen,  \* close(c.cache) has not run
    cancelled,  \* c.ctx is done
    pc,         \* closer -> where the goroutine is
    batch,      \* handleInput: what is left of the MultiBuffer
    once,       \* closeOnce: "new", "done", or the step of its body that comes next
    closer,     \* who runs the body, "none" before
    newest,     \* history: last datagram ReadFrom returned
    got,        \* history: all datagrams ReadFrom returned
    eof,        \* history: ReadFrom returned EOF
    dropped,    \* history: datagrams released unread
    skipped,    \* history: datagrams that handleInput passed over, unreleased
    crashed     \* send on closed channel: the process is gone

linkVars == <<produced, empty, link, linkState, writable>>
closeVars == <<once, closer>>
vars == <<linkVars, cache, cacheOpen, cancelled, pc, batch, closeVars, newest, got, eof, dropped, skipped, crashed>>

Init ==
    /\ produced = 0 /\ empty = {} /\ link = <<>> /\ linkState = "open" /\ writable = TRUE
    /\ cache = <<>> /\ cacheOpen = TRUE
    /\ cancelled = FALSE
    /\ pc = [g \in Closers |-> "run"]
    /\ batch = <<>>
    /\ once = "new" /\ closer = "none"
    /\ newest = 0 /\ got = {} /\ eof = FALSE /\ dropped = {} /\ skipped = {} /\ crashed = FALSE

Goto(g, from, to) == ~crashed /\ pc[g] = from /\ pc' = [pc EXCEPT ![g] = to]

Elems(s) == {s[i] : i \in 1..Len(s)}

-----------------------------------------------------------------------------
(* The core's side of the link, and the session's context: external.        *)

LinkProduce ==
    /\ ~crashed /\ linkState = "open" /\ produced < MaxPackets
    /\ produced' = produced + 1
    /\ empty' \in {empty, empty \cup {produced + 1}}
    /\ link' = Append(link, produced + 1)
    /\ UNCHANGED <<linkState, writable, cache, cacheOpen, cancelled, pc, batch, closeVars, newest, got, eof, dropped, skipped, crashed>>

LinkEnd ==
    /\ ~crashed /\ linkState = "open"
    /\ linkState' = "ended"
    /\ UNCHANGED <<produced, empty, link, writable, cache, cacheOpen, cancelled, pc, batch, closeVars, newest, got, eof, dropped, skipped, crashed>>

WriterBreaks ==
    /\ ~crashed /\ writable
    /\ writable' = FALSE
    /\ UNCHANGED <<produced, empty, link, linkState, cache, cacheOpen, cancelled, pc, batch, closeVars, newest, got, eof, dropped, skipped, crashed>>

(* Tun2ray.Close cancels the context dialUDP derived c.ctx from. *)
ParentCancel ==
    /\ ~crashed /\ ~cancelled
    /\ cancelled' = TRUE
    /\ UNCHANGED <<linkVars, cache, cacheOpen, pc, batch, closeVars, newest, got, eof, dropped, skipped, crashed>>

-----------------------------------------------------------------------------
(* handleInput: "run" is the top of the loop, "read" is ReadMultiBuffer,    *)
(* "send" is the loop over the datagrams read.                              *)

InputCheck ==
    /\ Goto("input", "run", IF cancelled THEN "close" ELSE "read")
    /\ UNCHANGED <<linkVars, cache, cacheOpen, cancelled, batch, closeVars, newest, got, eof, dropped, skipped, crashed>>

InputRead ==
    /\ Goto("input", "read", "send")
    /\ linkState # "interrupted" /\ link # <<>>
    /\ batch' = link
    /\ link' = <<>>
    /\ UNCHANGED <<produced, empty, linkState, writable, cache, cacheOpen, cancelled, closeVars, newest, got, eof, dropped, skipped, crashed>>

InputReadFails ==
    /\ Goto("input", "read", "close")
    /\ linkState = "interrupted" \/ (linkState = "ended" /\ link = <<>>)
    /\ UNCHANGED <<linkVars, cache, cacheOpen, cancelled, batch, closeVars, newest, got, eof, dropped, skipped, crashed>>

InputBatchDone ==
    /\ Goto("input", "send", "run")
    /\ batch = <<>>
    /\ UNCHANGED <<linkVars, cache, cacheOpen, cancelled, batch, closeVars, newest, got, eof, dropped, skipped, crashed>>

Sending == ~crashed /\ pc["input"] = "send" /\ batch # <<>>

(* A buffer without payload is passed over: not sent, and not released.     *)
InputSkip ==
    /\ Sending /\ Head(batch) \in empty
    /\ skipped' = skipped \cup {Head(batch)}
    /\ batch' = Tail(batch)
    /\ UNCHANGED <<linkVars, cache, cacheOpen, cancelled, pc, closeVars, newest, got, eof, dropped, crashed>>

(* The select: any ready case may be taken.  The send is ready when there   *)
(* is room, and also when cache is closed, and then it panics.              *)
InputSend ==
    /\ Sending /\ Head(batch) \notin empty
    /\ cacheOpen /\ Len(cache) < CacheCap
    /\ cache' = Append(cache, Head(batch))
    /\ batch' = Tail(batch)
    /\ UNCHANGED <<linkVars, cacheOpen, cancelled, pc, closeVars, newest, got, eof, dropped, skipped, crashed>>

InputPanic ==
    /\ Sending /\ Head(batch) \notin empty
    /\ ~cacheOpen
    /\ crashed' = TRUE
    /\ UNCHANGED <<linkVars, cache, cacheOpen, cancelled, pc, batch, closeVars, newest, got, eof, dropped, skipped>>

(* Mutant: a full cache loses the datagram without releasing it. *)
InputDropLeaks ==
    /\ Sending /\ Head(batch) \notin empty
    /\ cancelled \/ (cacheOpen /\ Len(cache) >= CacheCap)
    /\ batch' = Tail(batch)
    /\ UNCHANGED <<linkVars, cache, cacheOpen, cancelled, pc, closeVars, newest, got, eof, dropped, skipped, crashed>>

(* Mutant: handleInput starts Close from inside its loop. *)
InputDropCloses ==
    /\ Sending /\ Head(batch) \notin empty
    /\ cancelled \/ (cacheOpen /\ Len(cache) >= CacheCap)
    /\ dropped' = dropped \cup {Head(batch)}
    /\ batch' = Tail(batch)
    /\ once' = IF once = "new" THEN "cancel" ELSE once
    /\ closer' = IF once = "new" THEN "input" ELSE closer
    /\ UNCHANGED <<linkVars, cache, cacheOpen, cancelled, pc, newest, got, eof, skipped, crashed>>

(* ctx is done, or nothing is ready: the datagram is released. *)
InputDrop ==
    /\ Sending /\ Head(batch) \notin empty
    /\ cancelled \/ (cacheOpen /\ Len(cache) >= CacheCap)
    /\ dropped' = dropped \cup {Head(batch)}
    /\ batch' = Tail(batch)
    /\ UNCHANGED <<linkVars, cache, cacheOpen, cancelled, pc, closeVars, newest, got, eof, skipped, crashed>>

-----------------------------------------------------------------------------
(* ReadFrom, in the session's loop, which ends at the first error.          *)

ReadFrom ==
    /\ ~crashed /\ pc["reader"] = "run"
    /\ cache # <<>>
    /\ newest' = Head(cache)
    /\ got' = got \cup {Head(cache)}
    /\ cache' = Tail(cache)
    /\ UNCHANGED <<linkVars, cacheOpen, cancelled, pc, batch, closeVars, eof, dropped, skipped, crashed>>

(* Mutant: the session goes on reading after EOF. *)
ReadEOFContinues ==
    /\ ~crashed /\ pc["reader"] = "run"
    /\ cancelled \/ (~cacheOpen /\ cache = <<>>)
    /\ eof' = TRUE
    /\ UNCHANGED <<linkVars, cache, cacheOpen, cancelled, pc, batch, closeVars, newest, got, dropped, skipped, crashed>>

ReadEOF ==
    /\ Goto("reader", "run", "close")
    /\ cancelled \/ (~cacheOpen /\ cache = <<>>)
    /\ eof' = TRUE
    /\ UNCHANGED <<linkVars, cache, cacheOpen, cancelled, batch, closeVars, newest, got, dropped, skipped, crashed>>

(* writeBack failed: the session's loop breaks and closes the conn. *)
ReaderStops ==
    /\ Goto("reader", "run", "close")
    /\ UNCHANGED <<linkVars, cache, cacheOpen, cancelled, batch, closeVars, newest, got, eof, dropped, skipped, crashed>>

-----------------------------------------------------------------------------
(* WriteTo: a failed write closes the conn before the error is returned.    *)
(* (A write that succeeds changes nothing here.)                            *)

WriteFails ==
    /\ Goto("writer", "run", "close")
    /\ ~writable
    /\ UNCHANGED <<linkVars, cache, cacheOpen, cancelled, batch, closeVars, newest, got, eof, dropped, skipped, crashed>>

(* signal.CancelAfterInactivity, external: no Update for the timeout. *)
TimerFires ==
    /\ Goto("timer", "run", "close")
    /\ UNCHANGED <<linkVars, cache, cacheOpen, cancelled, batch, closeVars, newest, got, eof, dropped, skipped, crashed>>

-----------------------------------------------------------------------------
(* Close.  The first caller enters the body; the body's four calls are four *)
(* steps; every caller returns once the body has returned.                  *)

CloseEnter(g) ==
    /\ ~crashed /\ pc[g] = "close" /\ once = "new"
    /\ once' = "cancel" /\ closer' = g
    /\ UNCHANGED <<linkVars, cache, cacheOpen, cancelled, pc, batch, newest, got, eof, dropped, skipped, crashed>>

CloseCancel ==
    /\ ~crashed /\ once = "cancel"
    /\ cancelled' = TRUE
    /\ once' = "interruptReader"
    /\ UNCHANGED <<linkVars, cache, cacheOpen, pc, batch, closer, newest, got, eof, dropped, skipped, crashed>>

(* Mutant: link.Reader is not interrupted. *)
CloseSkipsReader ==
    /\ ~crashed /\ once = "interruptReader"
    /\ once' = "interruptWriter"
    /\ UNCHANGED <<linkVars, cache, cacheOpen, cancelled, pc, batch, closer, newest, got, eof, dropped, skipped, crashed>>

(* Interrupt discards what the pipe holds. *)
CloseInterruptReader ==
    /\ ~crashed /\ once = "interruptReader"
    /\ linkState' = "interrupted"
    /\ link' = <<>>
    /\ dropped' = dropped \cup Elems(link)
    /\ once' = "interruptWriter"
    /\ UNCHANGED <<produced, empty, writable, cache, cacheOpen, cancelled, pc, batch, closer, newest, got, eof, skipped, crashed>>

CloseInterruptWriter ==
    /\ ~crashed /\ once = "interruptWriter"
    /\ writable' = FALSE
    /\ once' = "closeCache"
    /\ UNCHANGED <<produced, empty, link, linkState, cache, cacheOpen, cancelled, pc, batch, closer, newest, got, eof, dropped, skipped, crashed>>

CloseCache ==
    /\ ~crashed /\ once = "closeCache"
    /\ cacheOpen' = FALSE
    /\ once' = "done"
    /\ UNCHANGED <<linkVars, cache, cancelled, pc, batch, closer, newest, got, eof, dropped, skipped, crashed>>

CloseReturn(g) ==
    /\ Goto(g, "close", "done")
    /\ once = "done"
    /\ UNCHANGED <<linkVars, cache, cacheOpen, cancelled, batch, closeVars, newest, got, eof, dropped, skipped, crashed>>

HandleInput ==
    \/ InputCheck \/ InputRead \/ InputReadFails \/ InputBatchDone
    \/ InputSkip \/ InputSend \/ InputPanic \/ InputDrop

CloseBody == CloseCancel \/ CloseInterruptReader \/ CloseInterruptWriter \/ CloseCache

Next ==
    \/ LinkProduce \/ LinkEnd \/ WriterBreaks \/ ParentCancel
    \/ HandleInput
    \/ ReadFrom \/ ReadEOF \/ ReaderStops
    \/ WriteFails
    \/ TimerFires
    \/ \E g \in Closers : CloseEnter(g) \/ CloseReturn(g)
    \/ CloseBody

(* A goroutine with a step to take eventually takes one.  The link, the     *)
(* timer and the writer, who may have nothing to write, are not forced.     *)
Fairness ==
    /\ WF_vars(HandleInput)
    /\ WF_vars(ReadFrom \/ ReadEOF)
    /\ WF_vars(CloseBody)
    /\ \A g \in Closers : WF_vars(CloseEnter(g) \/ CloseReturn(g))

Spec == Init /\ [][Next]_vars /\ Fairness

-----------------------------------------------------------------------------
(* Correctness.                                                             *)

(* Every variable has its type and the channel never exceeds its capacity.  *)
TypeOK ==
    /\ produced \in 0..MaxPackets /\ empty \subseteq 1..produced
    /\ link \in Seq(1..MaxPackets) /\ linkState \in {"open", "ended", "interrupted"}
    /\ writable \in BOOLEAN
    /\ cache \in Seq(1..MaxPackets) /\ Len(cache) <= CacheCap
    /\ cacheOpen \in BOOLEAN /\ cancelled \in BOOLEAN
    /\ pc \in [Closers -> {"run", "read", "send", "close", "done"}]
    /\ batch \in Seq(1..MaxPackets)
    /\ once \in {"new", "cancel", "interruptReader", "interruptWriter", "closeCache", "done"}
    /\ closer \in Closers \cup {"none"}
    /\ newest \in 0..MaxPackets /\ got \subseteq 1..MaxPackets
    /\ eof \in BOOLEAN /\ dropped \subseteq 1..MaxPackets
    /\ skipped \subseteq empty /\ crashed \in BOOLEAN

(* The session's PacketConn: datagrams come in order, once, and none after  *)
(* EOF, although handleInput, ReadFrom and up to four callers of Close race *)
(* on the channel.                                                          *)
Stream == INSTANCE PacketStream
ImplementsStream == Stream!Spec

Increasing(s) == \A i, j \in 1..Len(s) : i < j => s[i] < s[j]

(* Every datagram with a payload that the outbound produced was returned by *)
(* ReadFrom, or was released to the pool, or is still held: none slips away *)
(* between the MultiBuffer, the channel and Interrupt, whoever closes.  An  *)
(* empty one never reaches the session; handleInput's continue passes it    *)
(* over without a Release (v2ray.go:308-310), and nothing else is lost so.  *)
NothingVanishes ==
    /\ 1..produced = got \cup dropped \cup skipped
                     \cup Elems(cache) \cup Elems(batch) \cup Elems(link)
    /\ skipped \subseteq empty
    /\ (got \cup Elems(cache)) \cap empty = {}

(* handleInput's own deferred Close never makes it send on a closed channel; *)
(* only a Close by the session, the writer or the timer can, in the window   *)
(* between ReadMultiBuffer and the select.                                   *)
PanicNeedsAnotherCloser == crashed => closer \in {"reader", "writer", "timer"}

(* Once the context is done, every goroutine that depends on it stops:      *)
(* ReadFrom reports EOF or its caller has left, and handleInput ends, even  *)
(* if it was blocked in ReadMultiBuffer.  (Or the process has panicked.)    *)
(* A failed write and the inactivity timer lead there too: both close.      *)
CancelEndsConn ==
    (cancelled \/ pc["writer"] = "close" \/ pc["timer"] = "close")
        ~> ((pc["reader"] = "done" /\ pc["input"] = "done") \/ crashed)
=============================================================================
