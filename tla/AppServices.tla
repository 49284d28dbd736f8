----------------------------- MODULE AppServices -----------------------------
(***************************************************************************)
(* What the library does beside relaying an app's packets: it dials for    *)
(* the proxy (ProtectedDial), with hooks that are one per process          *)
(* (SystemDialers), tells which app a connection is of (UidLookup), sends  *)
(* the datagrams of its own tools over a Unix socket (IpcConn), has an     *)
(* HTTP client for the app (HttpExchange), and keeps byte slices for the   *)
(* shadowsocks plugins (BufferPool).                                       *)
(*                                                                         *)
(* They meet in what they are called with: a dialer that is in use makes   *)
(* the dials of ProtectedDial, and a UID that is found decides about a     *)
(* connection in TcpRelay and UdpTable.  They share no variable, so no     *)
(* interleaving of two of them can matter, and AppInit chooses which moves. *)
(***************************************************************************)
EXTENDS ProtectedDial, IpcConn, UidLookup, SystemDialers, HttpExchange, BufferPool

VARIABLE part  \* the part that moves

all == <<part, vars, ipcVars, uidVars, hookVars, httpVars, poolVars>>

AppInit ==
    /\ part \in {"dial", "ipc", "uid", "hooks", "http", "pool"}
    /\ Init /\ IpcInit /\ UidInit /\ HookInit /\ HttpInit /\ PoolInit
    /\ part = "dial" <=> \E d \in Dialers : pc[d] = "socket"
    /\ part # "ipc" => ~writing /\ ~noDomainResponse
    /\ part # "uid" => tcp

Dial(A) == part = "dial" /\ A /\ UNCHANGED <<part, ipcVars, uidVars, hookVars, httpVars, poolVars>>

AppNext ==
    \/ Dial(Next)
    \/ part = "ipc" /\ IpcNext /\ UNCHANGED <<part, vars, uidVars, hookVars, httpVars, poolVars>>
    \/ part = "uid" /\ UidNext /\ UNCHANGED <<part, vars, ipcVars, hookVars, httpVars, poolVars>>
    \/ part = "hooks" /\ HookNext /\ UNCHANGED <<part, vars, ipcVars, uidVars, httpVars, poolVars>>
    \/ part = "http" /\ HttpNext /\ UNCHANGED <<part, vars, ipcVars, uidVars, hookVars, poolVars>>
    \/ part = "pool" /\ PoolNext /\ UNCHANGED <<part, vars, ipcVars, uidVars, hookVars, httpVars>>

AppSpec == AppInit /\ [][AppNext]_all /\ WF_all(Dial(ServerSide))  \* as in ProtectedDial
=============================================================================
