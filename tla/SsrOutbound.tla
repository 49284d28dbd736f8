---------------------------- MODULE SsrOutbound ----------------------------
(***************************************************************************)
(* A shadowsocks outbound with a plugin: its protocol instance, which all  *)
(* its handlers use (SsrShared), and one of its connections (ObfsStream).  *)
(* After StreamConn has copied the ids, a connection and the instance have *)
(* only constants in common, so no interleaving of the two can matter, and *)
(* OutboundInit chooses which moves.                                       *)
(***************************************************************************)
EXTENDS ObfsStream, SsrShared

VARIABLE part  \* the part that moves

all == <<part, vars, sharedVars>>

OutboundInit ==
    /\ part \in {"connection", "instance"}
    /\ Init /\ SharedInit
    /\ part = "instance" => kind = "plain" /\ proto = "auth_chain"

Connection(A) == part = "connection" /\ A /\ UNCHANGED <<part, sharedVars>>
Instance(A) == part = "instance" /\ A /\ UNCHANGED <<part, vars>>

OutboundNext == Connection(Next) \/ Instance(SharedNext)

OutboundSpec ==
    /\ OutboundInit /\ [][OutboundNext]_all
    /\ WF_all(Connection(WriteMessage))
    /\ \A p \in Goroutines : WF_all(Connection(Write(p)))
    /\ WF_all(Connection(Read))
    /\ WF_all(Connection(Server))
=============================================================================
