---------------------------- MODULE ProtectedDial ----------------------------
(***************************************************************************)
(* protect.go and dialer.go: how a proxy connection is made on a socket    *)
(* that the VPN does not capture.                                          *)
(*                                                                         *)
(* protectedDialer.dial opens a socket, has it protected, connects it and  *)
(* wraps it in a net.Conn.  In the process of the VPN the protector is     *)
(* called directly; in another process of the app protect() sends the      *)
(* descriptor over a Unix socket to protectServer, which asks the          *)
(* protector about the descriptor it received and answers with one byte.   *)
(*                                                                         *)
(* The code closes descriptors by number, some of them twice, so each      *)
(* process has its table of numbers here; the kernel gives out the lowest  *)
(* free one.  What a number stands for is an object: a socket of a dialer, *)
(* an end of its request, the listener, or standard input.                 *)
(***************************************************************************)
EXTENDS Naturals, Sequences, FiniteSetsExt

CONSTANTS
    AppDialers,  \* goroutines that dial with protector{path} (v2ray.go:76)
    VpnDialers,  \* goroutines that dial with TunConfig.Protector
    Casts,       \* bounds: who dials, and how many descriptors (RLIMIT_NOFILE)
                 \* the process of each kind has
    NoDialer     \* a sentinel

Dialers == AppDialers \cup VpnDialers

ASSUME DialerAssumption == AppDialers \cap VpnDialers = {} /\ NoDialer \notin Dialers
ASSUME CastAssumption ==
    \A cast \in Casts : cast.who \subseteq Dialers /\ \A p \in {"app", "vpn"} : cast[p] \in Nat \ {0, 1}

Processes == {"app", "vpn"}
Home(d) == IF d \in AppDialers THEN "app" ELSE "vpn"

Closed == <<"closed", NoDialer>>
Stdin == <<"stdin", NoDialer>>
Listener == <<"listener", NoDialer>>
Socket(d) == <<"socket", d>>      \* the socket dial makes
Request(d) == <<"request", d>>    \* socketFd of protect()
Accepted(d) == <<"accepted", d>>  \* the server's end of that request

VARIABLES
    fds,        \* process -> number -> what it stands for
    pc,         \* dialer -> where its dial is
    fd,         \* dialer -> its variable fd
    socketFd,   \* dialer -> protect's socketFd
    connFd,     \* dialer -> the number inside the net.Conn it returned, 0 if none
    to,         \* dialer -> who connected its socket
    backlog,    \* requests the server has not accepted yet
    message,    \* dialer -> what travels with its request and is not received yet
    reply,      \* dialer -> what the server has answered
    serving,    \* protectServer's accept loop runs
    listening,  \* the listener is open; Tun2ray.Close closes it
    handler,    \* dialer -> where the handler of its request is
    served,     \* dialer -> the handler's connFd
    recvFd,     \* dialer -> the handler's recvFd
    verdict,    \* dialer -> what the protector said to the handler
    protected,  \* sockets the protector has protected
    stray       \* history: a close has hit a number that stood for another object by then

dialVars == <<pc, fd, socketFd, connFd, to>>
requestVars == <<backlog, message, reply>>
serverVars == <<serving, listening, handler, served, recvFd, verdict>>
vars == <<fds, dialVars, requestVars, serverVars, protected, stray>>

Init ==
    /\ \E cast \in Casts :
           /\ pc = [d \in Dialers |-> IF d \in cast.who THEN "socket" ELSE "failed"]
           /\ fds = [p \in Processes |-> [n \in 0 .. cast[p] - 1 |->
                        IF n = 0 THEN Stdin ELSE IF n = 1 /\ p = "vpn" THEN Listener ELSE Closed]]
    /\ fd = [d \in Dialers |-> 0] /\ socketFd = [d \in Dialers |-> 0] /\ connFd = [d \in Dialers |-> 0]
    /\ to = [d \in Dialers |-> NoDialer]
    /\ backlog = <<>>
    /\ message = [d \in AppDialers |-> Closed] /\ reply = [d \in AppDialers |-> "none"]
    /\ serving = TRUE /\ listening = TRUE
    /\ handler = [d \in AppDialers |-> "none"]
    /\ served = [d \in AppDialers |-> 0] /\ recvFd = [d \in AppDialers |-> 0]
    /\ verdict = [d \in AppDialers |-> FALSE]
    /\ protected = {} /\ stray = FALSE

-----------------------------------------------------------------------------
(* The kernel: numbers and objects (external).                              *)

Numbers(p) == DOMAIN fds[p]
Free(p) == {n \in Numbers(p) : fds[p][n] = Closed}
Open(p, n, object) == n = Min(Free(p)) /\ fds' = [fds EXCEPT ![p][n] = object]

(* Closing a number that is meant to stand for object. *)
Close(p, n, object) ==
    /\ fds' = [fds EXCEPT ![p][n] = Closed]
    /\ stray' = (stray \/ fds[p][n] \notin {Closed, object})

Sockets == {Socket(d) : d \in Dialers}
IsOpen(p, object) == \E n \in Numbers(p) : fds[p][n] = object
ServerHolds(d) == IsOpen("vpn", Accepted(d)) \/ \E i \in 1..Len(backlog) : backlog[i] = d

-----------------------------------------------------------------------------
(* protectedDialer.Dial and dial.                                           *)

Goto(d, from, label) == pc[d] = from /\ pc' = [pc EXCEPT ![d] = label]

(* A name that does not resolve, an invalid destination, or no number left. *)
DialFails(d) ==
    /\ Goto(d, "socket", "failed")
    /\ UNCHANGED <<fds, fd, socketFd, connFd, to, requestVars, serverVars, protected, stray>>

OpenSocket(d) ==
    /\ Goto(d, "socket", "protect")
    /\ Free(Home(d)) # {}
    /\ \E n \in Numbers(Home(d)) : Open(Home(d), n, Socket(d)) /\ fd' = [fd EXCEPT ![d] = n]
    /\ UNCHANGED <<socketFd, connFd, to, requestVars, serverVars, protected, stray>>

(* The protector may always refuse; what it agrees to is protected. *)
Protects(n, yes) ==
    /\ yes => fds["vpn"][n] # Closed
    /\ protected' = protected \cup (IF yes THEN {fds["vpn"][n]} \cap Sockets ELSE {})

ProtectDirectly(d) ==
    /\ d \in VpnDialers
    /\ \E yes \in BOOLEAN : Protects(fd[d], yes) /\ Goto(d, "protect", IF yes THEN "connect" ELSE "drop")
    /\ UNCHANGED <<fds, fd, socketFd, connFd, to, requestVars, serverVars, stray>>

(* unix.Connect fails, or succeeds on what the number stands for now. *)
ConnectFails(d) ==
    /\ Goto(d, "connect", "drop")
    /\ UNCHANGED <<fds, fd, socketFd, connFd, to, requestVars, serverVars, protected, stray>>

Connect(d) ==
    /\ Goto(d, "connect", "wrap")
    /\ \E e \in Dialers :
           /\ fds[Home(d)][fd[d]] = Socket(e) /\ to[e] = NoDialer
           /\ to' = [to EXCEPT ![e] = d]
    /\ UNCHANGED <<fds, fd, socketFd, connFd, requestVars, serverVars, protected, stray>>

(* unix.Close(fd) after a refusal or a failed connect. *)
Drop(d) ==
    /\ Goto(d, "drop", "failed")
    /\ Close(Home(d), fd[d], Socket(d))
    /\ fd' = [fd EXCEPT ![d] = 0]
    /\ UNCHANGED <<socketFd, connFd, to, requestVars, serverVars, protected>>

(* net.FileConn duplicates the descriptor. *)
Wrap(d) ==
    /\ Goto(d, "wrap", "closeFile")
    /\ fds[Home(d)][fd[d]] # Closed /\ Free(Home(d)) # {}
    /\ \E n \in Numbers(Home(d)) :
           Open(Home(d), n, fds[Home(d)][fd[d]]) /\ connFd' = [connFd EXCEPT ![d] = n]
    /\ UNCHANGED <<fd, socketFd, to, requestVars, serverVars, protected, stray>>

(* It cannot: the descriptor is closed here and once more by file.Close.    *)
WrapFails(d) ==
    /\ Goto(d, "wrap", "closeFile")
    /\ fds[Home(d)][fd[d]] = Closed \/ Free(Home(d)) = {}
    /\ Close(Home(d), fd[d], Socket(d))
    /\ UNCHANGED <<fd, socketFd, connFd, to, requestVars, serverVars, protected>>

(* Mutant: no defer file.Close(). *)
FileLeftOpen(d) ==
    /\ Goto(d, "closeFile", IF connFd[d] = 0 THEN "failed" ELSE "up")
    /\ UNCHANGED <<fds, fd, socketFd, connFd, to, requestVars, serverVars, protected, stray>>

CloseFile(d) ==
    /\ Goto(d, "closeFile", IF connFd[d] = 0 THEN "failed" ELSE "up")
    /\ Close(Home(d), fd[d], Socket(d))
    /\ fd' = [fd EXCEPT ![d] = 0]
    /\ UNCHANGED <<socketFd, connFd, to, requestVars, serverVars, protected>>

-----------------------------------------------------------------------------
(* protect(), called by an app dialer.                                      *)

RequestSocket(d) ==
    /\ d \in AppDialers
    /\ Goto(d, "protect", IF Free("app") = {} THEN "drop" ELSE "request")
    /\ IF Free("app") = {} THEN UNCHANGED <<fds, socketFd>>
       ELSE \E n \in Numbers("app") : Open("app", n, Request(d)) /\ socketFd' = [socketFd EXCEPT ![d] = n]
    /\ UNCHANGED <<fd, connFd, to, requestVars, serverVars, protected, stray>>

(* The deferred unix.Close(socketFd) as protect() returns. *)
HangUp(d, yes) ==
    /\ Goto(d, pc[d], IF yes THEN "connect" ELSE "drop")
    /\ Close("app", socketFd[d], Request(d))
    /\ socketFd' = [socketFd EXCEPT ![d] = 0]
    /\ UNCHANGED <<fd, connFd, to, serverVars, protected>>

RequestConnect(d) ==
    /\ Goto(d, "request", "send") /\ listening
    /\ backlog' = Append(backlog, d)
    /\ UNCHANGED <<fds, fd, socketFd, connFd, to, message, reply, serverVars, protected, stray>>

RequestConnectFails(d) ==
    /\ pc[d] = "request" /\ ~listening
    /\ HangUp(d, FALSE)
    /\ UNCHANGED requestVars

(* Sendmsg fails when the server has closed its end already. *)
CanSend(d) == ServerHolds(d) /\ fds["app"][fd[d]] # Closed

RequestSend(d) ==
    /\ Goto(d, "send", "await") /\ CanSend(d)
    /\ message' = [message EXCEPT ![d] = fds["app"][fd[d]]]
    /\ UNCHANGED <<fds, fd, socketFd, connFd, to, backlog, reply, serverVars, protected, stray>>

RequestSendFails(d) ==
    /\ pc[d] = "send" /\ ~CanSend(d)
    /\ HangUp(d, FALSE)
    /\ UNCHANGED requestVars

(* Read returns the answer, or that the server closed its end without one. *)
RequestAnswered(d) ==
    /\ pc[d] = "await"
    /\ reply[d] # "none" \/ ~ServerHolds(d)
    /\ HangUp(d, reply[d] = "ProtectSuccess")
    /\ reply' = [reply EXCEPT ![d] = "none"]
    /\ UNCHANGED <<backlog, message>>

-----------------------------------------------------------------------------
(* protectServer.                                                           *)

Accept ==
    /\ serving /\ backlog # <<>> /\ Free("vpn") # {}
    /\ LET d == Head(backlog) IN
           /\ \E n \in Numbers("vpn") : Open("vpn", n, Accepted(d)) /\ served' = [served EXCEPT ![d] = n]
           /\ handler' = [handler EXCEPT ![d] = "receive"]
    /\ backlog' = Tail(backlog)
    /\ UNCHANGED <<dialVars, message, reply, serving, listening, recvFd, verdict, protected, stray>>

(* No number is left for the connection: Accept fails, and the loop         *)
(* returns as if the listener had been closed.                              *)
AcceptFails ==
    /\ serving /\ backlog # <<>> /\ Free("vpn") = {}
    /\ serving' = FALSE
    /\ UNCHANGED <<fds, dialVars, requestVars, listening, handler, served, recvFd, verdict, protected, stray>>

Step(d, from, label) == handler[d] = from /\ handler' = [handler EXCEPT ![d] = label]

(* The request whose message a read of number n would find. *)
Readable(n) == {e \in AppDialers : fds["vpn"][n] = Accepted(e) /\ message[e] # Closed}

(* getOneFd does not wait for the message: Recvmsg on a nonblocking         *)
(* descriptor.                                                              *)
Receive(d) ==
    /\ Step(d, "receive", "ask")
    /\ Free("vpn") # {}
    /\ \E e \in Readable(served[d]), n \in Numbers("vpn") :
           /\ Open("vpn", n, message[e])
           /\ recvFd' = [recvFd EXCEPT ![d] = n]
           /\ message' = [message EXCEPT ![e] = Closed]
    /\ UNCHANGED <<dialVars, backlog, reply, serving, listening, served, verdict, protected, stray>>

(* It fails: nothing was sent yet, or there is no number for what was sent. *)
(* The error is overwritten by what Control returns, nil, so that the       *)
(* handler goes on, with 0 in recvFd.                                       *)
ReceiveFails(d) ==
    /\ Step(d, "receive", "ask")
    /\ Readable(served[d]) = {} \/ Free("vpn") = {}
    /\ message' = [e \in AppDialers |-> IF e \in Readable(served[d]) THEN Closed ELSE message[e]]
    /\ UNCHANGED <<fds, dialVars, backlog, reply, serving, listening, served, recvFd, verdict, protected, stray>>

(* Mutant: the protector is asked about the connection's own descriptor. *)
AskAboutConnection(d) ==
    /\ Step(d, "ask", "answer")
    /\ \E yes \in BOOLEAN : Protects(served[d], yes) /\ verdict' = [verdict EXCEPT ![d] = yes]
    /\ UNCHANGED <<fds, dialVars, requestVars, serving, listening, served, recvFd, stray>>

Ask(d) ==
    /\ Step(d, "ask", "answer")
    /\ \E yes \in BOOLEAN : Protects(recvFd[d], yes) /\ verdict' = [verdict EXCEPT ![d] = yes]
    /\ UNCHANGED <<fds, dialVars, requestVars, serving, listening, served, recvFd, stray>>

(* Mutant: no answer after a refusal, and the handler stays. *)
AnswerOnlyYes(d) ==
    /\ Step(d, "answer", "rawClose")
    /\ verdict[d]
    /\ reply' = [e \in AppDialers |-> IF fds["vpn"][served[d]] = Accepted(e) THEN "ProtectSuccess" ELSE reply[e]]
    /\ UNCHANGED <<fds, dialVars, backlog, message, serving, listening, served, recvFd, verdict, protected, stray>>

Answer(d) ==
    /\ Step(d, "answer", "rawClose")
    /\ reply' = [e \in AppDialers |->
                    IF fds["vpn"][served[d]] # Accepted(e) \/ ~IsOpen("app", Request(e)) THEN reply[e]
                    ELSE IF verdict[d] THEN "ProtectSuccess" ELSE "ProtectFailed"]
    /\ verdict' = [verdict EXCEPT ![d] = FALSE]
    /\ UNCHANGED <<fds, dialVars, backlog, message, serving, listening, served, recvFd, protected, stray>>

(* The deferred unix.Close(connFd), and the deferred conn.Close after it. *)
RawClose(d) ==
    /\ Step(d, "rawClose", "connClose")
    /\ Close("vpn", served[d], Accepted(d))
    /\ message' = [message EXCEPT ![d] = Closed]
    /\ UNCHANGED <<dialVars, backlog, reply, serving, listening, served, recvFd, verdict, protected>>

ConnClose(d) ==
    /\ Step(d, "connClose", "done")
    /\ Close("vpn", served[d], Accepted(d))
    /\ served' = [served EXCEPT ![d] = 0]
    /\ UNCHANGED <<dialVars, requestVars, serving, listening, recvFd, verdict, protected>>

(* Tun2ray.Close: Accept fails, and the kernel resets the requests that     *)
(* were not accepted.                                                       *)
CloseServer ==
    /\ listening
    /\ listening' = FALSE /\ serving' = FALSE
    /\ backlog' = <<>>
    /\ Close("vpn", 1, Listener)
    /\ UNCHANGED <<dialVars, message, reply, handler, served, recvFd, verdict, protected>>

-----------------------------------------------------------------------------
DialStep(d) ==
    \/ ProtectDirectly(d) \/ ConnectFails(d) \/ Connect(d) \/ Drop(d)
    \/ Wrap(d) \/ WrapFails(d) \/ CloseFile(d)
    \/ RequestSocket(d) \/ RequestConnect(d) \/ RequestConnectFails(d)
    \/ RequestSend(d) \/ RequestSendFails(d) \/ RequestAnswered(d)

HandlerStep(d) ==
    Receive(d) \/ ReceiveFails(d) \/ Ask(d) \/ Answer(d) \/ RawClose(d) \/ ConnClose(d)

Next ==
    \/ \E d \in Dialers : DialFails(d) \/ OpenSocket(d) \/ DialStep(d)
    \/ Accept \/ AcceptFails
    \/ \E d \in AppDialers : HandlerStep(d)
    \/ CloseServer

(* The goroutines of the server run, the protector returns, and a read that *)
(* has something to return does: as long as one of these steps is possible, *)
(* one of them is taken.  That is less than fairness to each, and enough,   *)
(* because every dial has only finitely many.  Nothing else has to happen.  *)
ServerSide == Accept \/ AcceptFails \/ \E d \in AppDialers : HandlerStep(d) \/ RequestAnswered(d)

Spec == Init /\ [][Next]_vars /\ WF_vars(ServerSide)

-----------------------------------------------------------------------------
(* Correctness.                                                             *)

Unreceived(d) == d \in AppDialers /\ handler[d] \notin {"none", "receive"} /\ recvFd[d] = 0

(* As long as no close has hit another's descriptor, a connection is made   *)
(* on the dialer's own socket, and the protector has protected that socket: *)
(* the answer a dialer reads belongs to its own request, and the descriptor *)
(* the server asked about is the one that request carried.  The exception   *)
(* is a request the server took up before its descriptor had arrived        *)
(* (protect.go:76-82).                                                      *)
ConnectedIsProtected ==
    ~stray =>
        \A d \in Dialers : to[d] # NoDialer =>
            to[d] = d /\ (Socket(d) \in protected \/ Unreceived(d))

HasFd(d) == fd[d] # 0 /\ ~(pc[d] = "closeFile" /\ connFd[d] = 0)

Accounted(p) ==
    LET Of(D) == {d \in D : Home(d) = p} IN
    {0} \cup {n \in {1} : p = "vpn" /\ listening}
    \cup {fd[d] : d \in {e \in Of(Dialers) : HasFd(e)}}
    \cup {connFd[d] : d \in Of(Dialers)} \cup {socketFd[d] : d \in Of(AppDialers)}
    \cup (IF p = "app" THEN {} ELSE {served[d] : d \in {e \in AppDialers : handler[e] # "connClose"}}
                                    \cup {recvFd[d] : d \in AppDialers})

(* As long as no close has hit another's descriptor, every open number      *)
(* belongs to somebody who will still close it, on every error path, except *)
(* the descriptors the server received: those nobody closes, so that every  *)
(* request costs the VPN's process one number for good.                     *)
DescriptorsAccounted ==
    ~stray => \A p \in Processes : {n \in Numbers(p) : fds[p][n] # Closed} = Accounted(p)

(* protect() returns: the server answers or hangs up on every request, so   *)
(* that again and again nobody waits for it, unless its accept loop has     *)
(* ended for want of a descriptor while the listener stays open - and then  *)
(* Tun2ray.Close makes protect() return.                                    *)
ProtectReturns ==
    []<>((\A d \in AppDialers : pc[d] # "await") \/ (~serving /\ listening))

(* protect.go:79-82 and the errors of getOneFd: a request from which no     *)
(* descriptor was received ends there, and the protector is not asked.      *)
AsksAboutReceived == \A d \in AppDialers : handler[d] \in {"answer", "rawClose"} => recvFd[d] # 0
=============================================================================
