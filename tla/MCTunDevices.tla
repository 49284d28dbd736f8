---------------------------- MODULE MCTunDevices ----------------------------
(* TunDevices with one setting of discardICMP for each implementation.      *)
EXTENDS TunDevices

MCDiscardICMP == [i \in Implementations |-> i = "gvisor"]
=============================================================================
