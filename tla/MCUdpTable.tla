----------------------------- MODULE MCUdpTable -----------------------------
(* UdpTable with queues of one datagram, so that NewPacket blocks.          *)
EXTENDS UdpTable, TLC

Symmetry == Permutations(Callers)

(* The state without the classes that no step looks at any more: that of a  *)
(* datagram once NewPacket has checked it or need not, and that of the      *)
(* first one once newPacket has.  No invariant speaks of them either.       *)
ClassToCheck == [c \in Callers |-> IF caller[c].pc = "check" THEN class[caller[c].packet] ELSE "plain"]
FirstToCheck == [s \in Sessions |-> IF pc[s] = "start" THEN first[s] ELSE "plain"]
LiveState ==
    <<setupVars, udpTable, started, key, FirstToCheck, sessionVars, queueVars, connVars, writerVars, listVars,
      caller, arrived, ClassToCheck, bufVars>>
=============================================================================
