-------------------------------- MODULE Pipe --------------------------------
(***************************************************************************)
(* One direction of a connection, as the proxy that holds its ends sees    *)
(* it: what was written comes out once, whole and in order, however the    *)
(* layers below cut it up.  A cut connection owes nothing more, but what   *)
(* came out of it is still a prefix of what went in; a void one promises   *)
(* nothing.                                                                *)
(***************************************************************************)
EXTENDS Naturals, Sequences, SequencesExt

VARIABLES
    sent,  \* what was written so far
    got,   \* what came out so far
    cut,   \* an end has failed
    void   \* the circumstances the promise excludes have occurred

vars == <<sent, got, cut, void>>

Init == sent = <<>> /\ got = <<>> /\ ~cut /\ ~void

Send ==
    /\ IsStrictPrefix(sent, sent')
    /\ UNCHANGED <<got, cut, void>>

Deliver ==
    /\ IsStrictPrefix(got, got')
    /\ IsPrefix(got', sent)
    /\ UNCHANGED <<sent, cut, void>>

Cut ==
    /\ cut'
    /\ UNCHANGED <<sent, got, void>>

Void == void'

Next == Send \/ Deliver \/ Cut \/ Void

(* Whatever was written is out in the end. *)
Drained == got = sent \/ cut \/ void

(* What a Pipe never does, without what it does in the end. *)
Safe == Init /\ [][Next]_vars

Spec == Safe /\ []<>Drained
=============================================================================
