# A verification project for LibExclaveCore

LibExclaveCore is the Go library behind an Android proxy app. It reads the IP
packets of a tun device, turns TCP flows and UDP datagrams into connections of
a V2Ray-family core, and counts the traffic of every app. Beside that it carries
shadowsocks plugins (ShadowsocksR protocols and obfuscations, simple-obfs) and a
number of thin helpers for the Android side.

This directory holds TLA+ models of that code, TLC configurations that check
them on small instances, and TLAPS proofs that hold for every instance.
`PROJECT.json` lists components, runs, mutants, the map from definitions to
source lines, hazards and theorems.

## 1. Inventory

Paths are relative to `src/`.

| Component | State it keeps | Operations | What is hard |
|---|---|---|---|
| System tun: TCP NAT and forwarder (`nat/tcpnat.go`, `nat/tcp.go`) | `addrMap`, `portMap`, `portIndex`, sessions with `lastActive` | `Lookup`, `LookupInverse`, `checkTimeout`, accept loop, packet rewriting, `Close` | two maps under two locks, updated one after the other; three goroutines; a 16-bit index that wraps; a listener on the wildcard address |
| Per-app statistics (`stats.go`, blocks of `tun.go`) | `appStats`, `lockTable`, atomic counters | find-or-make a record, count, stamp, `ReadAppTraffics`, `ResetAppTraffics` | election by `LoadOrStore` plus `sync.Cond`; lost wake-ups; atomics that must agree without a lock |
| UDP sessions (`tun.go`) | `udpTable`, `writeQueue`s, `connections` | `NewPacket`, `newPacket`, its writer, `Tun2ray.Close` | bounded queues between the device loop and a session; unconditional delete of a table entry; buffer ownership |
| `dispatcherConn` (`v2ray.go`) | channel `cache`, context, `closeOnce`, timer | `handleInput`, `ReadFrom`, `WriteTo`, `Close` | four goroutines may close; send on a channel that may be closed |
| Instance life cycle (`v2ray.go`, `observatory.go`, `urltest.go`) | `started`, `closed`, `core`, three features of the core | `LoadConfig`, `Start`, `Close`, `dial`, `dialUDP`, `QueryStats`, observatory calls | no lock at all around these fields |
| Process-wide hooks (`v2ray.go`) | two kept dialers, the dialer in use, two functions of localdns | `WithLocalResolver`, `WithAlternativeSystemDialer` | set per instance, used by all; made once and kept |
| Life cycle of the tun, TCP relay (`tun.go`) | the fields of `Tun2ray`, `connections`, two conns and two copy loops per relay | `NewTun2ray`, `NewConnection`, `Tun2ray.Close` | the device delivers before the tun is complete; the dialer is one for the process; `task.Run` returns with the first loop; many exits, each with its own clean-up |
| Device loops (`nat/nat.go`, `nat/udp.go`, `nat/icmp.go`, `gvisor/*`) | the tun fd, buffers, the gvisor stack | read, classify, forward, drop, answer ICMP | buffer ownership; two implementations that should decide alike |
| Protect server, protected dialer (`protect.go`, `dialer.go`) | the descriptors of two processes, an accept loop | open, protect, connect and wrap a socket; pass a descriptor and have it protected | descriptors are closed by number, some twice; an error that gets lost; a loop that ends when descriptors run out |
| IPC packet conn (`ipc.go`) | `headerWritten`, the stream position | framed `ReadFrom`, `WriteTo` | a frame is three reads or writes; short reads, deadlines and truncation desynchronise the stream |
| UID lookup (`procfs.go`, `route.go`) | column numbers, found once | search of the socket tables | sockets come and go while the table is read; two tables per protocol |
| SSR protocols (`clash/transport/ssr/protocol/*`) | connection ids, pack ids, undecoded bytes | `next`, encode, decode | ids must not repeat; decoding must not depend on how the stream is cut |
| SSR obfuscation (`clash/transport/ssr/obfs/*`) | handshake status, pending writes, undecoded bytes | `Read`, `Write` | a reader flushes what the writer buffered, without a lock |
| simple-obfs (`clash/transport/simple-obfs/*`) | first request and response, what is left of a record | `Read`, `Write` | a header that must come in one read, records longer than the caller's buffer |
| shadowsocks plugins (`clash/ssr.go`, `clash/obfs.go`) | one protocol and one obfuscation instance per outbound | stack the conns, encode and decode datagrams | the instance is shared by all connections and UDP sessions |
| Buffer pool (`clash/common/pool/*`) | free lists by size class | `Get`, `Put` | powers of two, the largest class |
| HTTP client (`http.go`) | the body of a response, its content once read | `Execute`, `GetContent`, `WriteTo` | a body can be read only once, by several threads and in two ways |
| URL, CA, certificates, STUN, URL test, logging, routes, interface list, environment, assets | little | single calls into libraries | input and output, nothing to interleave |

How they interact: a device loop calls `Handler.NewConnection` in a goroutine of
its own, and `Handler.NewPacket` directly, so a blocked `NewPacket` stops the
packets of every app. Both register a cancel function in `Tun2ray.connections`,
dial through `V2RayInstance` and go through the statistics block. A UDP session
reads from and writes to a `dispatcherConn`, whose other side is the core.
`Tun2ray.Close` cancels what is registered. The Android side calls
`ReadAppTraffics`, `ResetAppTraffics`, `Close` and the instance's methods from
threads of its own. An outbound of the core connects with the dialer that
`NewTun2ray` installed, which has every socket protected: directly in the
process of the VPN, over the protect server's Unix socket elsewhere. What
`NewConnection` and `NewPacket` know of an app comes from the UID lookup.

Correctness, component by component: a connection or answer is attributed to the
flow that caused it, and only idle sessions are swept (TCP NAT); one record per
app and no bytes lost (statistics); datagrams in order, blocked apps never
served, buffers released once, the device loop never stopped (UDP sessions);
datagrams in order and none after the end, everything stops after a cancel
(`dispatcherConn`); no nil or stopped core is used but by a call that overlaps
`Close`, and no core outlives it (instance); every exit closes both sides and
ends both loops, blocked apps are never relayed and outbounds are protected
while a tun is up (tun, TCP relay); a buffer has one owner, both tuns treat
packets alike, and an answer carries the address of its sender (device loops);
what is connected is protected, and every descriptor is closed once (dialer);
frames stay whole (IPC); a body is read once and whole (HTTP client); a slice
fits what was asked for (buffer pool); the owner of a connection is found (UID lookup); the
hooks of the process agree with each other; what is written
comes out at the other end once, whole and in order, through every layer
(shadowsocks plugins); no two connections present the same ids, and both ends
agree where a datagram's padding begins (SSR protocols).

## 2. Modules, and how they correspond to the code

**TcpNat** (`nat/tcpnat.go`, `nat/tcp.go`). A flow is a `natKey`. `addrMap` and
`sessFlow`/`lastActive` are the two maps, `portIndex` the counter, an integer
modulo `PortSpace`. `rd` holds the local variables of the two goroutines that
call `LookupInverse`, between its two locks; `live` says whether the pointer to
the session is still the one in `portMap`. `Lookup` is two actions because it
releases `addrAccess` before it takes `portAccess`; `checkTimeout` is two
because it reads the clock before it takes the locks. The kernel's TCP stack is
external: for each remote port it remembers which flow's packet opened the
socket, and may answer a packet with a reset. `lastUse`, `routed` and `overrun`
are history. Addresses and ports are abstracted to the flow they name; the
checksums are left out, and IPv4 and IPv6 differ only in the headers rewritten.
The answers of the kernel are not queued in the model: a device that reads an
answer later than the socket's end is not represented, except for a reset.

**AppStats** (`stats.go`, `tun.go`). One uid, because no code relates two keys
of the maps. One action per `sync.Map` or atomic call, so all their
interleavings are there. A record is named by the handler that made it.
`missed` and `sent` are history. A handler is `Lost` if it waits for a Broadcast
that has come already; nothing but another handler's Broadcast wakes it.

**PacketStream** is the abstract specification of a session's packet connection:
datagrams in production order, none twice, none after EOF, any of them possibly
lost. **DispatcherConn** (`v2ray.go`) is the connection `dialUDP` returns, and
implements PacketStream: `produced`, `newest` and `eof` are the same variables.
`link` is the core's pipe (external). The four calls in `Close` are four steps.
A datagram without payload (`empty`) is passed over by `handleInput`, which does
not release its buffer (`InputSkip`, `skipped`).

**UdpTable** (`tun.go`) is `NewPacket`, `newPacket`, its writer goroutine,
`Tun2ray.Close`, and `NewTun2ray` from the moment the device delivers: `setup`
says whether `uidDumper` and `blockedUIDs` are set yet. Until then no datagram is
checked, and a session that looks its UID up for the log or the statistics calls
a nil dumper (`SessionPanics`, `crashed`). The connection is what DispatcherConn provides to a session: it
may fail at any time, fails for both directions, and reports the end of its
context. The statistics block is the single step `SessionStartsWriter`, because
AppStats models its inside; with `TrafficStats` it is given no fairness, since
AppStats shows that it may block for ever. `Tun2ray.Close` is three steps: it
asks the device to close, the device waits until no caller is inside
`NewPacket` (gvisor does), and only then are contexts cancelled. `Callers` has one element in the
program (the device loop of the system tun); the gvisor tun calls from the
stack's goroutines, hence the instance with two.

**V2RayInstance** (`v2ray.go`, `observatory.go`) is the life cycle of the
instance. `field` holds the four pointers; a core is a number, a feature is
named by the core it came from, 0 is nil. Every read or write of a field is a
step of its own, since nothing locks them: `LoadConfig` is `CheckClosed`,
`CheckStarted`, then `LoadRejected`, `LoadFails` or `LoadCore` and
`LoadFeatures`; `Start` and `Close` likewise. A user is one call of `dial`,
`dialUDP`, `QueryStats`, `GetObservatoryStatus` or `SetStatusUpdateListener`.
`overlap` is history: two calls of the Android side were in progress at once.
Reads and writes are sequentially consistent in the model; the Go memory model
promises less for unsynchronised fields.

**SystemDialers** (`v2ray.go`) is what an instance sets for the whole process:
`WithLocalResolver` stores three things one after the other,
`WithAlternativeSystemDialer` makes a dialer for its kind of path if there is
none, under a mutex, and puts it to use. `overlap` is history, as above.

**TcpRelay** (`tun.go`) is `NewConnection` around its statistics block, one
relay per goroutine. The checks of a connection are its class: blocked, a DNS
address with a port other than 53, or neither. The block is one step,
`CountStats` (AppStats models its inside); `dial` succeeds or fails
(V2RayInstance); `buf.Copy` is external: a loop ends when its sender has ended
or one of its conns is closed. An outbound connects some time after `dial`, with
the dialer in use then. **TunLifecycle** adds `NewTun2ray` and `Close`, field by
field, for tuns that may follow or overlap each other, and the other user of the
process-wide dialer. `early` (relays accepted before `NewTun2ray` had returned),
`shared` (the dialer had two users) and `exposed` are history.

**PacketFilter** is what both tuns should make of a packet: a pure function of
its IP version, protocol and the two discard flags. **SystemTun** (`nat/nat.go`,
`nat/udp.go`, `nat/icmp.go`) is the device loop with its buffer, the discard
rules written out per version and protocol, and the header in which all answers
of a session are built. **GVisorTun** (`gvisor/*.go`) is the link endpoint that
discards, the TCP forwarder function, the UDP handler with the addresses of its
answers, and `Close`; the stack and the fd endpoint are external. What the stack
does with a packet is written out protocol by protocol (`StackTCP`,
`StackDropsUDP`, `StackUDP`, `StackOther`), and not taken from PacketFilter.
**TunDevices** is the device of a tun, one of the two, and compares both with
PacketFilter, and so with each other. Four differences are kept as the code has
them: the system tun forwards IPv6 even if `enableIPv6` is false, where the
gvisor stack has no IPv6; gvisor's UDP handler drops a datagram whose UDP header
says more than arrived (`cut`), which the system tun hands on; a discarded IPv6 datagram costs the system tun its
buffer (`DiscardUDP`); and a discarding gvisor endpoint drops every IPv6 packet,
the system tun those it has a case for (the others have no effect there anyway).

**ProtectedDial** (`protect.go`, `dialer.go`) makes a connection on a protected
socket. Descriptors are numbers, and closing is by number, so each process has
its table: `fds[p][n]` is the object that number `n` stands for, and the kernel
gives out the lowest free one. A dialer of the VPN's process asks the protector
itself; another one sends its descriptor to `protectServer`. `message` is what
travels with a request: the server may look before it is there. `stray` is
history: some close has hit a number that stood for another object by then,
after which nothing can be said. It happens, because the code closes a number
twice in two places (`protect.go` 67/83, `dialer.go` 138/144/149/159).

**IpcConn** (`ipc.go`) is the stream of a datagram connection as a sequence of
parts: part `<<i, k>>` is the k-th of the frame of datagram i, which has an
address, two bytes of length and the payload; frame 0 is the header. `sent` is
how many datagrams the writing side is past. In the direction of `WriteTo` a
call is several steps, and may end at a deadline between or within them; in that
of `ReadFrom` so is the call that reads, and the peer (`PeerSends`) writes whole
frames at any time. `broken` is history: the stream is out
of step, by a deadline within a frame, a length that came in two reads or a
datagram larger than the caller's buffer.

**UidLookup** (`procfs.go`) reads a table row by row while sockets open, close
and expire. A row matches the address asked for exactly, on the local side only,
or not; the tables are in `Rows`, the user of each row is what the lookup
returns. `stable`, `seen` (which rows there were, and the user each named) and
`blind` are history. Sockets of several users may be bound to one address and
port, as the kernel allows for TCP connections to different destinations; a pair
of addresses, whichever table lists it, has one connection at a time, and while
a closed one still has its row, no new one. So the answer need not be the owner:
a row of another user can hide the owner's, by being in the IPv4 table, which is
read first and whatever it says ends the search, or by being nearer to what is
asked, or as near and earlier. `OwnerFound` says that nothing else can.

**HttpExchange** (`http.go`) is a response: `getContentOnce` and the two ways to read
its body, one step per read. The transport that delivers the body and refuses to
read a closed one is external. Calls of both kinds overlap as they like, since
nothing but `getContentOnce` keeps them apart; every thread writes to a file of
its own. `mixed` is history: a call came to the body while another one was at it
and it was not closed; then each may succeed with a part, and without that
condition TLC refutes the property. A partly written piece, redirects, the
request and two threads that write to one path are left out.

**BufferPool** (`clash/common/pool/alloc.go`) is the allocator with its 17
classes and real sizes; a slice is a capacity, a length and a name.

**AppServices** puts these six side by side. They share no variable, so that
`part` lets one of them move per behaviour.

**Pipe** is the abstract specification of one direction of a proxied connection:
what came out is a prefix of what went in, and all of it comes out in the end,
unless the connection was cut. Four modules implement it for the shadowsocks
plugins (`clash/`), one on top of the other:

* **SsrFraming** has the protocols as pure operators: `Encode` and `Decode` of
  `origin`, `auth_sha1_v4`, `auth_aes128` and `auth_chain`. A stream is a
  sequence of units, each standing for bytes the code treats as a whole (the
  head of a frame, its padding, a piece of payload, its checksum); a code
  verifies exactly with the id it was made with. `Decode` gets whatever has
  arrived and leaves what is not a complete frame.
* **ObfsConn** adds the obfuscating connections and their `Write`. `obfs` holds
  the fields of `tls12TicketConn`, `randomHeadConn`, `httpConn`, `HTTPObfs` and
  `TLSObfs` under common names; `pc` and `arg` are the two goroutines, the
  writer and the reader, because the reader calls `Write(nil)` itself when the
  server has greeted. Everything between a test of the handshake status, the
  append to the buffer and the flush is a step of its own.
* **ObfsStream** adds `Read`, the server (external: it undoes what the client
  did, greets, and answers what it has read) and the whole connection. A read
  of the raw connection returns any non-empty part of what has arrived and
  fits. `Upload` and `Download` are the two refinement mappings to Pipe.
* **SsrOutbound** puts a connection beside the instance that all connections of
  an outbound share.

**SsrShared** is that instance: `next` under its mutex, step by step, and the two
generators that `EncodePacket` and `DecodePacket` seed and draw from with no lock
(`p.p` of `clash/ssr.go` serves every UDP session). A generator is its seed and
the number of draws since; random client ids are taken to be fresh ones.

Three circumstances are named by history variables. `raced`: the reader's
`Write(nil)` and the writer's `Write` were inside the obfuscation at the same
time. The code has no lock there, and without this exception TLC refutes
`UploadIsPipe`: `tls1.2_ticket_auth` loses a write that is appended after the
flush has taken the buffer and before the status is 8, and `random_head` sends
the buffer twice. `torn`: `random_head` takes one read for the whole greeting,
and gives the rest to the protocol as data. `overlapped`: a datagram was coded
while another one used the generator. What the exceptions allow is what the code
does; the properties say that nothing else goes wrong. Simplifications: the
stream cipher between the two layers is left out, as it keeps bytes and order;
an operation on a `bytes.Buffer` is one step, so the memory-level races of
overlapping calls are not shown in full; the server pads by one unit, and cuts
its records in the middle or not at all.

The MC modules only add symmetry sets, model values, casts and messages.
**TcpNatProofs**, **V2RayInstanceProofs**, **SsrOutboundProofs**,
**DispatcherConnProofs**, **UdpTableProofs** and **AppStatsProofs** hold the
proofs about the module each is named after. **TunProofs** has those about a
tun: TunLifecycle with TcpRelay, and TunDevices, whose definitions and variables
have names of their own for that. **AppServicesProofs** has those about the
parts of AppServices, one after the other: they share no variable, so that each
has an inductive invariant of its own, which the steps of the others keep.

`TypeOK` states the types of a module's variables. It is a part of the inductive
invariant, and proved, in the modules of proofs, except that SsrOutboundProofs and
AppServicesProofs prove the types they need as parts of their invariants. No run
lists it.

## 3. Runs

| Run | Instance | Shows |
|---|---|---|
| `tcp_nat` | 2 flows, 2 ports, timeout 2, refresh gap 1, clock to 4 | `MapsConsistent`, `RoutedToOwner`, `SweptWasIdle` |
| `app_stats` | TCP and UDP handlers, one reset; or handlers with pollers and traffic | counters equal holders, quiet records are stamped, no byte lost or counted twice, a record for everybody who is not `Lost` |
| `app_stats_reset` | 1 TCP, 1 UDP handler, one reset | the assertion of `tun.go` fails: a violation, see below |
| `dispatcher_conn` | cache of 2, 3 datagrams, with payload or without | nothing vanishes but what has no payload, refinement of PacketStream (order, no duplicates, nothing after the end), a cancel, a failed write or the timer ends the reader and `handleInput` |
| `udp_table` | 1 source, 2 callers, queue of 1, 3 datagrams, 2 sessions, statistics, a system tun that may not be set up yet | table ownership, blocked apps, buffer ownership, the list of cancels |
| `udp_table_live` | 1 caller, 3 datagrams, 1 session, no statistics, both kinds of device | order of writes, `NewPacket` returns, `Close` ends sessions |
| `v2ray_instance` | 2 threads with 5 calls together, 2 users, 2 cores | who can meet nil, dials get a started core, features belong to the running core, `Close` leaves none running |
| `tun_lifecycle` | 2 tuns, the first with a dumped UID or a block list, 1 relay, no statistics | both sides closed, the list freed, an end is passed on, `Close` ends relays, blocked apps, the nil dumper, protected outbounds |
| `tun_devices` | 1 app, 2 peers, 3 buffers, 2 requests for 1 slot, network changes, datagrams cut short | both tuns treat packets alike but for the exceptions stated, answers, buffer ownership, no nil dispatcher |
| `app_services` | dials: two of one process or one of each, 2 to 5 descriptors; IPC: 4 datagrams, buffer of 2; lookup: 4 rows of 2 users, 2 calls; hooks: 2 instances, 2 callers, 2 resolvers, 3 calls; HTTP: 3 threads, 4 calls, 2 pieces; pool: 12 sizes, 2 slices | protected sockets, descriptors, `protect` returns, frames, owners, hooks, bodies, slices |
| `protected_dial_ask` | the same | the protector is asked about a descriptor that was not received: a violation, see below |
| `ssr_outbound` | 4 obfuscations with 4 protocols and 2 simple-obfs modes, 2 messages of 3 and 1 units and 2 answers; 2 goroutines with 4 connections or datagrams, ids renewed above 2 | both directions are a Pipe, ids are unique, padding agrees |

Why the bounds are enough. *TcpNat*: two ports for two flows make the index wrap
after two allocations, and a clock that passes the timeout twice allows a sweep
and a reuse of the swept port; without the condition `~overrun`, TLC refutes
both properties that have it, so reuse of a busy port is reached. *AppStats*:
three handlers are a maker, a waiter that parks in time and one that is late;
one reset is enough to remove a record under a waiter, and two bytes with two
polls put a poll between the exchange and the addition of another. *DispatcherConn*: with
three datagrams and a cache of two the cache overflows by the last one of a
batch, or while a batch is in hand and another datagram waits in the link, and
an empty one may be at any place. *UdpTable*: a queue of one blocks at the second
datagram, and two sessions of one source are a session and its successor. Three
datagrams are one that opens a session before `blockedUIDs` is set, one that
finds it later, and one more. That run's `VIEW` leaves out the classes of
datagrams that have been checked, which nothing reads again.
*V2RayInstance*: five calls are two loads, a start, a close and one that
overlaps any of them; without `~overlap` TLC refutes each of the four properties
that have it, so that condition is needed. *TunLifecycle*: relays share only the
list and the tun's fields; two tuns are one that closes and its successor, or
two that overlap. *TunDevices*: three buffers are two that were handed over and
the current one; a second request is dropped or admitted according to the first.
*ProtectedDial*: with two requests the descriptor of one is free to be given to
the other, and the tables range from too small for one dial to just enough for
two, so that every call that needs a number fails somewhere. *IpcConn*: one
datagram fits, one has a name, one is too large, and one comes behind it.
*UidLookup*: a looser row of one user before the exact one of another in the
IPv4 table, where both hide the exact row of the IPv6 table; a socket of the zero
address; and a second lookup after the first has found the columns or not. *SystemDialers*: three
calls are a resolver and two dialers, or two resolvers and a dialer. *HttpExchange*:
three threads are the first caller, one that waits for it and one that writes,
or two that write and one that reads; two pieces let each of two readers have
one. *BufferPool*: the sizes are those
at which the class changes and those the plugins use; two slices are one kept
and one in use.
*SsrOutbound*: a pack takes one unit, a relay buffer four and the app's buffer
one, so that a message becomes several frames, a frame several reads, and every
reader has data left over; a second message meets the handshake at each of its
stages. A chunk of two units makes the first message of `obfs_tls` two chunks.
Four connections pass a renewal of the client id, whether it starts at 0 or 1.
The connection and the instance share only constants after `StreamConn`, so
`part` lets one of them move per behaviour instead of multiplying the two.

The violations. `tun.go` panics with "unexpected sync read failed" if the record
is absent after the wait. `app_stats_reset` shows that a call of
`ResetAppTraffics` between the creator's `Store` and the waiter's `Load` makes
it absent; `RecordFound` that nothing else does. `protect.go` (80-82) ends a
request whose descriptor could not be received, with the errors of `getOneFd`;
`protected_dial_ask` shows that it does not, because `Control` returns nil into
the same `err`: the protector is asked about descriptor 0 instead.

## 4. Fairness

Weak fairness only, and only for steps of goroutines that are runnable: the Go
scheduler runs a runnable goroutine eventually. No fairness for the environment
(apps, kernel, outbound, timers, the Android side), and none for a connection's
end. In UdpTable, `dialUDP` and `WriteTo` are assumed to return. In
DispatcherConn the writer and the timer are not forced: they may have nothing to
do. In TcpRelay `dial` is assumed to return; with statistics nothing forces
`CountStats`; nobody is forced to call `NewTun2ray` or `Close`, but a call that
began goes on. In ProtectedDial only the server's goroutines and the read of an
answer that is there are forced, together: some such step is taken while one is
possible. In SsrOutbound the app's writer and reader and the server are
fair, the network's failure is not. TcpNat, V2RayInstance, TunDevices, IpcConn,
UidLookup, SystemDialers, HttpExchange, BufferPool and SsrShared have no liveness property.

## 5. Proofs

`TcpNatProofs` proves, for any set of flows, any port range, timeout, refresh
gap and clock bound that satisfy the `ASSUME`s of TcpNat:

* `TypeCorrect`: `Spec => []TypeOK`
* `SessionsAreMapped`: `Spec => []SessionMapped`
* `MapsAlwaysConsistent`: `Spec => []MapsConsistent`
* `AlwaysRoutedToOwner`: `Spec => []RoutedToOwner`
* `OnlyIdleSwept`: `Spec => SweptWasIdle`

All follow from the inductive invariant `IInv`. None of the properties is
inductive alone. `SessionMapped` needs `InsertOK`: between the two locks of
`Lookup`, `addrMap` has the new port while no session has the flow.
`RoutedToOwner` needs `OwnersAgree` (a session and a socket on one port are of
one flow, until an overrun) and `RefreshOK` (the same of what a goroutine read
before it refreshes). `SweptWasIdle` needs `TimesOK`: `lastActive` is at most
`RefreshGap` behind the last lookup, and the sweeper's `now` is never ahead of
the clock.

`V2RayInstanceProofs` proves, for any number of threads, users, cores and calls
(`MaxCores` and `MaxCalls` natural numbers):

* `TypeCorrect`: `Spec => []TypeOK`
* `LateDialsAreRefused`: `Spec => []LateDialsRefused`
* `CrashesNeedClose`: `Spec => []CrashNeedsClose`
* `DialsGetStartedCore`: `Spec => []DialsUseStartedCore`
* `FeaturesAreOfRunningCore`: `Spec => []FeaturesOfRunningCore`
* `CloseLeavesNoneRunning`: `Spec => []ClosedLeavesNoneRunning`

Its `IInv` has a part that holds always (`LateInv`: a late dial is still at its
first check, or refused) and one that holds until two calls overlap. There `Solo`
says that one call is in progress at most; `ThreadInv`, which values the fields
have at each of its lines (a call that has passed `closed` and `started` still
finds them so); `CoreInv`, that a running core is the one in `field` and is
either marked as started or about to be, and that features match the core except
between two lines of `LoadConfig` and of `Close`; `UserInv`, that what a user
found at its check still holds at its use, unless `Close` has begun. Each part
is preserved by one lemma with a step per action.

`SsrOutboundProofs` proves, for any set of goroutines and jobs and any threshold,
if connection ids start at natural numbers (`StartsAssumption`):

* `OutboundHasShared`: `OutboundSpec => SharedSpec`
* `IdsStayUnique`: `OutboundSpec => []IdsAreUnique`
* `PaddingAlwaysAgrees`: `OutboundSpec => []PaddingAgrees`

The second rests on mutual exclusion (`Excluded`) and `IssuedBelow`: what was
issued under the present client id is at most the counter, and less than it
between the increment and the copy. The third rests on what each generator holds while
somebody is between seeding it and drawing from it.

Its second half is about the connection, with the plugins that pass bytes on
(`Bytes`: the protocol origin, and no obfuscation, one of http or random_head;
the configuration never changes). For any sequences of payload units as messages
and answers, and any sizes of the buffers (`ObfsAssumption`), it proves the safety
of both refinements, `Safe` being `Spec` of Pipe without `[]<>Drained`:

* `BytesUploadIsPipe`: `OutboundSpec /\ Bytes => Upload!Safe`
* `BytesDownloadIsPipe`: `OutboundSpec /\ Bytes => Download!Safe`

`UpTextInv` says that what the app wrote is what the server has read, followed by
what random_head holds back (`Held`) and what a `Write` has not looked at yet
(`Unsent`). It holds until two `Write`s overlap; `AloneInv` says of that time
that one goroutine at most is inside, and that nothing is held back once
`rawTransSent` is set. `DownTextInv` says that what the server answered is what
the app has read, the chunk on its way to it, what `Read` has left over, and,
behind the greeting or the response header (`Heading`), what is under way. That
TCP cuts where it likes is no matter for it: `HeaderCut` shows that wherever the
first read ends, what is behind the end of the header is where the answers begin.
`HandshakeInv` and `DownStateInv` say how far the handshakes are.

FlattenSeq, in the refinement mapping, is a recursive function, and the induction
theorem of the library takes an operator. `NatSetInduction` is the same principle
for a set, from the well-foundedness of the natural numbers; with it `FlatExists`
and `TextIs` show what one message more adds to the text.

`DispatcherConnProofs` proves, for any capacity of the channel and any number of
datagrams:

* `TypeCorrect`: `Spec => []TypeOK`
* `NothingVanishesAlways`: `Spec => []NothingVanishes`
* `PanicNeedsAnotherCloserAlways`: `Spec => []PanicNeedsAnotherCloser`
* `ConnImplementsStream`: `Spec => ImplementsStream`

The refinement needs that what `ReadFrom` takes next is newer than all it has
returned. That is `OrderInv`, and it is inductive only if it speaks of all three
places at once: `newest`, the channel, the batch and the link are each ordered,
and each is older than the next. `PlaceInv` says when the batch is empty and
that a session that has seen EOF does not read again; `CloseInv`, that one
goroutine runs the body of `closeOnce` and that the channel is closed at its end.

`UdpTableProofs` proves, for any non-empty set of sources (`SourcesAssumption`),
any set of callers and any numbers of sessions and datagrams:

* `TypeCorrect`: `Spec => []TypeOK`
* `TableOwnedAlways`: `Spec => []TableOwned`
* `BlockedNeverWrittenAlways`: `Spec => []BlockedNeverWritten`
* `BufferOwnedAlways`: `Spec => []BufferOwned`
* `WrittenInOrderAlways`: `ASSUME OneCaller PROVE Spec => []WrittenInOrder`

`OneCaller` is the device loop of the system tun; with two goroutines in
`NewPacket` the order of two datagrams is whichever sends first, and nothing is
claimed. `TableOwned` rests on `TableInv` (an entry of `udpTable` and the one
serving session of its source name each other) and `ListInv`;
`BlockedNeverWritten` speaks of the datagrams that arrive when `blockedUIDs` is
set (`late`): it rests on `BlockedInv`, that such a datagram is only ever held
for a session which another one of them started (`Rejected`), and that such a
session has no writer; `BufferOwned` on `OnceInv`, that a datagram is in one place.

`AppStatsProofs` proves, for any finite sets of connections and pollers
(`HandlerAssumption`, `PollerAssumption`) and any casts (`CastAssumption`):

* `TypeCorrect`: `Spec => []TypeOK`
* `CountsMatchHoldersAlways`: `Spec => []CountsMatchHolders`
* `QuietIsStampedAlways`: `Spec => []QuietIsStamped`
* `PanicNeedsResetAlways`: `Spec => []PanicNeedsReset`
* `TrafficConservedAlways`: `Spec => []TrafficConserved`

`QuietIsStamped` is not inductive: between the last decrement and the stamp
nobody holds the record and it is not stamped. `LastInv` says that then somebody
is about to stamp it, or has decremented its counter to zero and is about to
load the other. `CountsMatchHolders` is a statement on cardinalities, and
`TrafficConserved` on sums (`MapThenSumSet`) over the pollers and the
connections. The induction theorems of the library take an operator and cannot
be used; `SubsetInduction` is the same principle for a set instead of an
operator, from the well-foundedness of strict inclusion on a finite set. With it
`SumExists` shows that the function by which the fold is defined exists, and the
lemmas after it what the sum is of a set with an element more and with one
summand changed. `PanicNeedsReset` complements the run `app_stats_reset`, which
shows that a reset does lead to the panic.

`TunProofs` proves, for any sets of tuns and connections and any configurations
(`ConfigAssumption`):

* `TypeCorrect`: `Spec => []TypeOK`
* `NothingLeftOpenAlways`: `Spec => []NothingLeftOpen`
* `ReturnedTunIsCompleteAlways`: `Spec => []ReturnedTunIsComplete`
* `OutboundsProtectedAlways`: `Spec => []OutboundsProtected`

`OpenInv` relates the place of a connection to the state of both its conns and
its cancel. `FieldsInv` says what `NewTun2ray` has set at each of its
statements; `CheckedInv`, that a connection which is not `early` belongs to a
tun that had all of it; `CrashInv`, that a crash comes from an early one.
`OutboundsProtected` needs the mutual exclusion in `DialerInv`: until the dialer
is `shared`, one tun at most is in use, and the dialer is its own.

The second half of `TunProofs` proves, for any numbers of buffers and requests,
any flags and any non-empty sets of apps and peers (`UseAssumption`; the rest of
TunDevices' assumptions says what the constants are):

* `DeviceTypeCorrect`: `DeviceSpec => [](System!TypeOK /\ GVisor!TypeOK)`
* `CacheAlwaysOurs`: `DeviceSpec => []CacheIsOurs`
* `AlwaysTreatedAlike`: `DeviceSpec => []TreatedAlike`
* `NilNeverDispatched`: `DeviceSpec => []NoNilDispatch`

The type of gvisor has the bound on the requests in flight, so it needs that
they are finitely many. `TreatedAlike` is not inductive: the two implementations
decide at different places. `HeaderInv` says whom the header of a session is
addressed to while other sessions begin and end; `PassedInv`, that a packet
which has passed gvisor's filter is not one to discard, even if the network has
changed since, and that at the call the dispatcher that was loaded is not nil.

`AppServicesProofs` proves, of AppServices:

* `ConnectedAlwaysProtected`: `AppSpec => []ConnectedIsProtected`
* `DescriptorsAlwaysAccounted`: `AppSpec => []DescriptorsAccounted`
* `SharedHooksAlwaysAgree`: `AppSpec => []SharedHooksAgree`
* `OwnerAlwaysFound`: `AppSpec => []OwnerFound`
* `BodyAlwaysReadOnce`: `AppSpec => []BodyReadOnce`
* `BuffersAlwaysFit`: `AppSpec => []BuffersFit`
* `FramesAlwaysKept`: `AppSpec => []FramesKept`

*ProtectedDial*, for any dialers and any limit on descriptors
(`DialerAssumption`, `CastAssumption`): `DialInv` follows a request from the
dialer to the handler and back. `SocketInv` and `HandlerInv` say that, until
`stray`, a number somebody is about to use stands for what he means by it,
although numbers are given out again as soon as they are closed; `ApprovedInv`,
that an answer of success is about the socket of the dialer it reaches. That the
lowest free number exists takes the well-foundedness of the natural numbers
(`LowestFree`). `NumbersInv` adds `AccountInv`, for the second theorem: somebody
holds a number for an object if and only if the number stands for this object.
Taken as an equality of sets, as the property states it, it would not be
inductive: a close frees the number of one holder, which says nothing of the
others unless no number has two.

*SystemDialers*, for any instances, callers and resolvers (`ResolverAssumption`):
`MutexInv` is the mutual exclusion of the callers under the lock, with what they
have read there; `AloneInv`, that until calls overlap, who sets a resolver is
alone, who makes a dialer has a resolver, and both functions of localdns have
one resolver but between their stores.

*UidLookup*, for any table (`SocketAssumption`): `RowsInv` and `SeenInv` say
which rows there can be next to that of a socket that stays while others come
and go, in particular no other exact one; `ScanInv`, that of the rows the lookup
has passed in a table it has the best, and of those the first, and that it reads
the IPv6 table only if no socket in the IPv4 one has stayed; `NamedInv`, what
follows once it is done. The proof needs that a pair of addresses has one row
over both tables: a row left behind by a closed connection could else be taken
for an exact match.

*HttpExchange*, for any number of threads and any sequence of pieces without
repetition (`PiecesAssumption`): `GetInv` and `SaveInv` follow the calls through
their reads, `PieceInv` says that no piece is twice in what is still to come, in
what GetContent has and in the files, however calls overlap. `WholeInv` holds as
long as no two were at an open body: `SoleInv`, that what the one there has read
and what is still to come make up the body; `FirstInv`, that only the first one
to read to its end succeeds, and has the whole.

*BufferPool*, for any set of sizes (`SizesAssumption`): `PoolInv` says which
capacities there can be. It rests on facts about the powers of two that `msb`
looks at, which `PowerTable` has one by one.

*IpcConn*, for any datagrams and any size of the buffer (`DatagramAssumption`):
`FramesKept` speaks of the ends of the stream and of what the reader is past,
and neither is inductive. `IpcInv` says what is in between. For the writer,
`Chain`: every part follows the one before it, and the last one is that before
what the call writes next (`ChainMore`: appending the parts due keeps this). For
the reader there is a frame i at which the call is, such that what `ReadFrom`
has returned is exactly what comes before i (`ReturnedBefore`), and the stream
is `Left`: it has every part from where the call is in frame i up to the last
frame the peer wrote, no other part, in order, and no frame within another.
`LeftBegins`, `LeftAfter`, `LeftNext` and `LeftMore` say what is left when parts
are taken, a frame ends, and the peer writes one. The sequence is described part
by part because its definition as a concatenation of frames would need an
induction.

Only model-checked:

* liveness, which is out of the prover's reach, and so the `[]<>Drained` of Pipe;
* that ObfsStream implements Pipe with the TLS layers (`tls1.2_ticket_auth`,
  `obfs_tls`) and under the protocols that frame: it takes inductions over what
  ObfsStream and SsrFraming code and decode turn by turn, for every way TCP may
  cut it;
* the properties of the two violation runs, which do not hold.

## 6. Not modelled

See `components` in `PROJECT.json`. In the modelled parts: checksums and header
layouts; the wording of logs; which protocol names a sniffing request carries;
64-bit overflow of traffic counters; socket options and the resolver's answers
(`dialer.go`). Not modelled at all: URL and certificate helpers, STUN and
the interface list, which are single calls into libraries (`url.go` keeps no
state beside Go's own URL, and what its getters return is that library's string
conversion); logging, environment, assets and error values. Known behaviour that is described by a
hazard and not by a property: order across two sessions of one source is not
kept; `deactivateAt` may be stamped on a record that has just become active
again; a writer goroutine that drains a queue never returns.

## 7. Plan

In the order of importance:

1. Done: TcpNat with proofs, AppStats, DispatcherConn with PacketStream, UdpTable.
2. Done: V2RayInstance with proofs, SystemDialers, TcpRelay within TunLifecycle.
3. Done: SystemTun and GVisorTun as TunDevices, against PacketFilter.
4. Done: the obfuscations of both plugins against Pipe.
5. Done: SSR protocols (framing, connection ids, padding of datagrams) with proofs.
6. Done: protect server and dialer, IPC framing, UID lookup, HTTP responses,
   the allocator.
7. Done, proofs: AppStats, UdpTable, DispatcherConn with its refinement of
   PacketStream, TunLifecycle with TcpRelay, TunDevices, and AppServices with all
   of its parts. Every invariant that a passing run checks is now a theorem.
8. Done, proofs: the safety of Pipe for the layers of ObfsStream that pass bytes
   on. Left: the same for those that make records and frames.
