------------------------------ MODULE MCTcpNat ------------------------------
(* TcpNat with two flows and two ports: portIndex wraps onto ports in   *)
(* use as soon as every flow was seen and one was swept.                    *)
EXTENDS TcpNat, TLC

Symmetry == Permutations(Flows)
=============================================================================
