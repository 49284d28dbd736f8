---------------------------- MODULE PacketStream ----------------------------
(***************************************************************************)
(* What a session of tun.go (newPacket) may rely on when it reads from the *)
(* net.PacketConn that dialUDP returns: datagrams may be lost, but those   *)
(* that ReadFrom returns come in the order the outbound produced them,     *)
(* none twice, and none after ReadFrom has reported EOF.                   *)
(***************************************************************************)
EXTENDS Naturals

VARIABLES
    produced,  \* datagrams the outbound produced so far, numbered from 1
    newest,    \* number of the last datagram ReadFrom returned, 0 before the first
    eof        \* ReadFrom has returned io.EOF

Init == produced = 0 /\ newest = 0 /\ eof = FALSE

Produce == produced' = produced + 1 /\ UNCHANGED <<newest, eof>>

Receive ==
    /\ ~eof
    /\ newest' \in (newest + 1) .. produced
    /\ UNCHANGED <<produced, eof>>

End == eof' = TRUE /\ UNCHANGED <<produced, newest>>

Next == Produce \/ Receive \/ End

Spec == Init /\ [][Next]_<<produced, newest, eof>>
=============================================================================
