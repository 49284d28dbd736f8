----------------------------- MODULE MCAppStats -----------------------------
(* AppStats for one uid with a few handlers of both kinds.                  *)
EXTENDS AppStats

CONSTANTS t1, t2, u1

(* Three handlers and a reset race for the record; *)
Racing == [handlers |-> {t1, t2, u1}, traffic |-> 0, polls |-> 0, resets |-> 1]
(* one counts bytes while it is polled;            *)
Polled == [handlers |-> {t1}, traffic |-> 2, polls |-> 2, resets |-> 0]
(* and two are as many as the violation needs.     *)
Pair == [handlers |-> {t1, u1}, traffic |-> 0, polls |-> 0, resets |-> 1]

MCCasts == {Racing, Polled}
MCPair == {Pair}
=============================================================================
