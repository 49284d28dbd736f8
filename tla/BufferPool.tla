----------------------------- MODULE BufferPool -----------------------------
(***************************************************************************)
(* clash/common/pool: byte slices by size class, from 1 byte to 64 KiB.    *)
(* Every caller ignores the error of Put, so a slice that Put refuses is   *)
(* lost to the pool.                                                       *)
(***************************************************************************)
EXTENDS Integers

CONSTANTS
    Sizes,       \* lengths that are asked for
    MaxBuffers   \* bound on the slices made

Classes == 0..16   \* alloc.buffers
Largest == 65536

ASSUME SizesAssumption == Sizes \subseteq Nat /\ MaxBuffers \in Nat

VARIABLES
    buffers,  \* class -> the slices it keeps
    held,     \* slices that are in use
    lost,     \* history: slices that Put has refused, and panics
    made      \* slices made so far

poolVars == <<buffers, held, lost, made>>

(* A slice is its capacity, its length, and a number that names it. *)
Slice(n, capacity, length) == [name |-> n, cap |-> capacity, len |-> length]

PoolInit ==
    /\ buffers = [k \in Classes |-> {}]
    /\ held = {} /\ lost = {} /\ made = 0

msb(size) == CHOOSE b \in 0..31 : 2^b <= size /\ size < 2^(b + 1)

(* Mutant: an exact power of two is not told from the sizes above it. *)
NextClass(size) == msb(size) + 1

ClassOf(size) == IF size = 2^msb(size) THEN msb(size) ELSE msb(size) + 1

(* Size 0 gives nil, and sizes above the largest class a slice of their own. *)
GetUnpooled(size) ==
    /\ size = 0 \/ size > Largest
    /\ made < MaxBuffers
    /\ made' = made + 1
    /\ held' = held \cup {Slice(made, size, size)}
    /\ UNCHANGED <<buffers, lost>>

(* A sync.Pool gives what it keeps, or calls New; a class that is not      *)
(* there is a panic.                                                        *)
GetKept(size) ==
    /\ size \in 1..Largest
    /\ ClassOf(size) \in Classes /\ \E s \in buffers[ClassOf(size)] :
          /\ held' = held \cup {[s EXCEPT !.len = size]}
          /\ buffers' = [buffers EXCEPT ![ClassOf(size)] = @ \ {s}]
    /\ UNCHANGED <<lost, made>>

GetNew(size) ==
    /\ size \in 1..Largest /\ made < MaxBuffers
    /\ made' = made + 1
    /\ LET s == Slice(made, 2^ClassOf(size), size) IN
       IF ClassOf(size) \in Classes THEN held' = held \cup {s} /\ UNCHANGED lost
       ELSE lost' = lost \cup {s} /\ UNCHANGED held
    /\ UNCHANGED buffers

(* Callers put back what they got, maybe cut at its end. *)
Put(s) ==
    /\ s \in held
    /\ held' = held \ {s}
    /\ IF s.cap = 0 \/ s.cap > Largest THEN UNCHANGED <<buffers, lost>>
       ELSE IF s.cap = 2^msb(s.cap) THEN
           buffers' = [buffers EXCEPT ![msb(s.cap)] = @ \cup {s}] /\ UNCHANGED lost
       ELSE lost' = lost \cup {s} /\ UNCHANGED buffers
    /\ UNCHANGED made

(* The garbage collector empties a sync.Pool. *)
Collect(k) ==
    /\ buffers[k] # {}
    /\ buffers' = [buffers EXCEPT ![k] = {}]
    /\ UNCHANGED <<held, lost, made>>

PoolNext ==
    \/ \E size \in Sizes : GetUnpooled(size) \/ GetKept(size) \/ GetNew(size)
    \/ \E s \in held : Put(s)
    \/ \E k \in Classes : Collect(k)

-----------------------------------------------------------------------------
(* Correctness.                                                             *)

(* A slice holds what was asked for and wastes at most half of its          *)
(* memory, wherever the size lies between two classes, and a kept one fits  *)
(* its class, so that this stays so when it is given out again; Get never   *)
(* runs past the last class, and Put refuses nothing (alloc.go:34-84).      *)
BuffersFit ==
    /\ \A s \in held : s.len <= s.cap /\ 2 * (s.cap - s.len) <= s.cap
    /\ \A k \in Classes : \A s \in buffers[k] : s.cap = 2^k
    /\ lost = {}
=============================================================================
