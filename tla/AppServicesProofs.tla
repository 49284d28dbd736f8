-------------------------- MODULE AppServicesProofs --------------------------
(***************************************************************************)
(* Proofs about the parts of AppServices.  Each part has an inductive      *)
(* invariant of its own: the other parts leave its variables alone.        *)
(***************************************************************************)
EXTENDS AppServices, SequenceTheorems, WellFoundedInduction, TLAPS

-----------------------------------------------------------------------------
(* ProtectedDial: its inductive invariant.                                  *)

AskingPlaces == {"request", "send", "await"}
DialPlaces ==
    {"socket", "protect", "connect", "wrap", "closeFile", "drop", "up", "failed"} \cup AskingPlaces
Claiming == {"protect", "connect", "wrap"} \cup AskingPlaces
HandlerPlaces == {"none", "receive", "ask", "answer", "rawClose", "connClose", "done"}

FdsType ==
    /\ DOMAIN fds = Processes /\ \A p \in Processes : Numbers(p) \subseteq Nat
    /\ stray \in BOOLEAN

DiallingType ==
    /\ pc \in [Dialers -> DialPlaces] /\ \A d \in VpnDialers : pc[d] \notin AskingPlaces
    /\ fd \in [Dialers -> Nat]
    /\ to \in [Dialers -> Dialers \cup {NoDialer}]

RequestsType ==
    /\ backlog \in Seq(AppDialers)
    /\ DOMAIN message = AppDialers
    /\ reply \in [AppDialers -> {"none", "ProtectSuccess", "ProtectFailed"}]

ServerType ==
    /\ handler \in [AppDialers -> HandlerPlaces]
    /\ served \in [AppDialers -> Nat] /\ recvFd \in [AppDialers -> Nat]
    /\ verdict \in [AppDialers -> BOOLEAN]

DialType == FdsType /\ DiallingType /\ RequestsType /\ ServerType

(* A dialer makes one request, and the server takes it up once. *)
RequestInv ==
    /\ \A i, j \in 1 .. Len(backlog) : backlog[i] = backlog[j] => i = j
    /\ \A i \in 1 .. Len(backlog) :
          handler[backlog[i]] = "none" /\ pc[backlog[i]] \notin {"socket", "protect", "request"}
    /\ \A d \in AppDialers : pc[d] \in {"socket", "protect", "request"} => handler[d] = "none"
    /\ \A d \in AppDialers : handler[d] \in {"none", "receive"} => recvFd[d] = 0

Stands(p, n, object) == n \in Numbers(p) /\ fds[p][n] = object

(* As long as no close has hit another's descriptor, a number that somebody *)
(* is about to use stands for what he means by it.                          *)
SocketInv ==
    ~stray =>
        \A d \in Dialers : pc[d] \in Claiming => Stands(Home(d), fd[d], Socket(d))

HandlerInv ==
    ~stray =>
        \A d \in AppDialers :
            /\ handler[d] \in {"receive", "ask", "answer", "rawClose"} => Stands("vpn", served[d], Accepted(d))
            /\ recvFd[d] # 0 => Stands("vpn", recvFd[d], Socket(d))
            /\ message[d] \in {Closed, Socket(d)}

(* The protector has protected the socket of d, or was never asked about it. *)
Approved(d) == Socket(d) \in protected \/ Unreceived(d)

ApprovedInv ==
    ~stray =>
        /\ \A d \in AppDialers : verdict[d] \/ reply[d] = "ProtectSuccess" => Approved(d)
        /\ \A d \in Dialers : pc[d] = "connect" => Approved(d)
        /\ \A d \in Dialers : to[d] # NoDialer => to[d] = d /\ Approved(d)

DialInv == DialType /\ RequestInv /\ SocketInv /\ HandlerInv /\ ApprovedInv

LEMMA ObjectsDiffer ==
    /\ \A d, e : Socket(d) = Socket(e) => d = e
    /\ \A d, e : Accepted(d) = Accepted(e) => d = e
    /\ \A d, e : Socket(d) # Request(e) /\ Socket(d) # Accepted(e) /\ Request(d) # Accepted(e)
    /\ \A d : Socket(d) # Closed /\ Request(d) # Closed /\ Accepted(d) # Closed
    /\ \A d : Socket(d) # Listener /\ Accepted(d) # Listener
BY DEF Socket, Request, Accepted, Closed, Listener

LEMMA HomeFacts ==
    /\ \A d \in Dialers : Home(d) \in Processes /\ (d \in AppDialers \/ d \in VpnDialers)
    /\ \A d \in AppDialers : Home(d) = "app" /\ d \in Dialers
    /\ \A d \in VpnDialers : Home(d) = "vpn" /\ d \in Dialers /\ d \notin AppDialers
    /\ "app" \in Processes /\ "vpn" \in Processes /\ NoDialer \notin Dialers
BY DialerAssumption DEF Home, Processes, Dialers

LEMMA LowestFree == ASSUME NEW S \in SUBSET Nat, S # {} PROVE Min(S) \in S
<1> DEFINE R == OpToRel(<, Nat)
<1>1. IsWellFoundedOn(R, Nat)
    BY NatLessThanWellFounded, Zenon
<1>2. PICK m \in S : \A k \in S : ~(<<k, m>> \in R)
    <2> HIDE DEF R
    <2>1. QED
        BY <1>1, WFMin
<1>3. \A k \in S : m <= k
    <2> TAKE k \in S
    <2>1. ~(k < m)
        BY <1>2 DEF OpToRel
    <2>2. QED
        BY <2>1
<1>4. QED
    BY <1>3 DEF Min

(* What a number stood for it still does, unless it was object in process p. *)
Keep(p, object) ==
    \A q \in Processes : \A m, o :
        Stands(q, m, o) /\ o # Closed /\ <<q, o>> # <<p, object>> => m \in DOMAIN fds'[q] /\ fds'[q][m] = o

(* A number that is given out was free, and no other number changes. *)
LEMMA OpenTakesFree ==
    ASSUME FdsType, NEW p \in Processes, NEW n, NEW object, Free(p) # {}, Open(p, n, object)
    PROVE  /\ n \in Numbers(p) /\ fds[p][n] = Closed
           /\ DOMAIN fds' = DOMAIN fds /\ fds'[p] = [fds[p] EXCEPT ![n] = object]
           /\ \A q \in Processes : q # p => fds'[q] = fds[q]
<1>1. Free(p) \in SUBSET Nat
    BY DEF Free, FdsType
<1>2. n \in Free(p)
    BY <1>1, LowestFree DEF Open
<1>3. QED
    BY <1>2 DEF Open, Free, FdsType

LEMMA OpenKeeps ==
    ASSUME FdsType, NEW p \in Processes, NEW n, NEW object, Free(p) # {}, Open(p, n, object), UNCHANGED stray
    PROVE  FdsType' /\ n \in DOMAIN fds'[p] /\ fds'[p][n] = object /\ Keep(p, Closed)
<1>1. /\ n \in Numbers(p) /\ fds[p][n] = Closed
      /\ DOMAIN fds' = DOMAIN fds /\ fds'[p] = [fds[p] EXCEPT ![n] = object]
      /\ \A q \in Processes : q # p => fds'[q] = fds[q]
    BY OpenTakesFree
<1>2. QED
    BY <1>1 DEF FdsType, Numbers, Stands, Keep

(* A close that hits no other object frees numbers of this object only. *)
LEMMA CloseFrees ==
    ASSUME FdsType, NEW p \in Processes, NEW n, NEW object, Close(p, n, object)
    PROVE  /\ DOMAIN fds' = DOMAIN fds /\ fds'[p] = [fds[p] EXCEPT ![n] = Closed]
           /\ \A q \in Processes : q # p => fds'[q] = fds[q]
           /\ ~stray' => ~stray /\ fds[p][n] \in {Closed, object}
BY DEF FdsType, Close

LEMMA CloseKeeps ==
    ASSUME FdsType, NEW p \in Processes, NEW n, NEW object, Close(p, n, object)
    PROVE  FdsType' /\ (~stray' => ~stray /\ Keep(p, object))
<1>1. /\ DOMAIN fds' = DOMAIN fds /\ fds'[p] = [fds[p] EXCEPT ![n] = Closed]
      /\ \A q \in Processes : q # p => fds'[q] = fds[q]
      /\ ~stray' => ~stray /\ fds[p][n] \in {Closed, object}
    BY CloseFrees
<1>2. FdsType'
    BY <1>1 DEF FdsType, Numbers, Close
<1>3. ~stray' => ~stray /\ Keep(p, object)
    BY <1>1 DEF Stands, FdsType, Numbers, Keep
<1>4. QED
    BY <1>2, <1>3

LEMMA DialInitInv == Init => DialInv
<1> SUFFICES ASSUME Init PROVE DialInv
    OBVIOUS
<1>1. FdsType
    <2>1. PICK cast \in Casts :
              fds = [p \in Processes |-> [n \in 0 .. cast[p] - 1 |->
                        IF n = 0 THEN Stdin ELSE IF n = 1 /\ p = "vpn" THEN Listener ELSE Closed]]
        BY DEF Init
    <2>2. \A p \in Processes : cast[p] \in Nat
        BY CastAssumption DEF Processes
    <2>3. \A p \in Processes : Numbers(p) = 0 .. cast[p] - 1
        BY <2>1 DEF Numbers
    <2>4. \A p \in Processes : 0 .. cast[p] - 1 \subseteq Nat
        BY <2>2
    <2>5. QED
        BY <2>1, <2>3, <2>4 DEF FdsType, Init
<1>2. pc \in [Dialers -> {"socket", "failed"}]
    BY DEF Init
<1>3. DiallingType
    BY <1>2, HomeFacts DEF Init, DiallingType, DialPlaces, AskingPlaces
<1>4. RequestsType /\ ServerType
    BY DEF Init, RequestsType, ServerType, HandlerPlaces
<1>5. RequestInv
    BY DEF Init, RequestInv
<1>6. SocketInv /\ HandlerInv /\ ApprovedInv
    BY <1>2 DEF Init, SocketInv, Claiming, HandlerInv, ApprovedInv, AskingPlaces
<1>7. QED
    BY <1>1, <1>3, <1>4, <1>5, <1>6 DEF DialInv, DialType

(* What a step does to the place of a dialer, and to no other. *)
LEMMA GotoFacts ==
    ASSUME DialInv, NEW d \in Dialers, NEW from, NEW label \in DialPlaces, Goto(d, from, label),
           d \in AppDialers \/ label \notin AskingPlaces
    PROVE  /\ pc[d] = from /\ pc'[d] = label /\ \A e \in Dialers : e # d => pc'[e] = pc[e]
           /\ pc' \in [Dialers -> DialPlaces] /\ \A e \in VpnDialers : pc'[e] \notin AskingPlaces
           /\ from \in AskingPlaces => d \in AppDialers
BY HomeFacts DEF DialInv, DialType, DiallingType, Goto


(* What the server holds keeps its meaning, and so does its memory of it. *)
LEMMA HandlerStays ==
    ASSUME DialInv, UNCHANGED <<handler, served, recvFd, message>>,
           NEW p \in Processes, NEW object, ~stray' => ~stray /\ Keep(p, object),
           p = "vpn" => \A d \in AppDialers : object \notin {Accepted(d), Socket(d)}
    PROVE  HandlerInv'
<1> SUFFICES ASSUME ~stray', NEW d \in AppDialers
             PROVE  /\ handler[d] \in {"receive", "ask", "answer", "rawClose"} => Stands("vpn", served[d], Accepted(d))'
                    /\ recvFd[d] # 0 => Stands("vpn", recvFd[d], Socket(d))'
                    /\ message[d] \in {Closed, Socket(d)}
    BY DEF HandlerInv
<1>1. Keep(p, object) /\ HandlerInv /\ ~stray
    BY DEF DialInv
<1>2. Accepted(d) # Closed /\ Socket(d) # Closed /\ <<"vpn", Accepted(d)>> # <<p, object>> /\ <<"vpn", Socket(d)>> # <<p, object>>
    BY ObjectsDiffer
<1>3. \A m : /\ Stands("vpn", m, Accepted(d)) => m \in DOMAIN fds'["vpn"] /\ fds'["vpn"][m] = Accepted(d)
             /\ Stands("vpn", m, Socket(d)) => m \in DOMAIN fds'["vpn"] /\ fds'["vpn"][m] = Socket(d)
    BY <1>1, <1>2, HomeFacts DEF Keep
<1>4. QED
    BY <1>1, <1>3 DEF HandlerInv, Stands, Numbers

(* Nobody asks anything of the server. *)
LEMMA RequestsStay ==
    ASSUME DialInv, UNCHANGED <<backlog, handler, recvFd>>,
           \A e \in Dialers : /\ pc'[e] \in {"socket", "protect", "request"} => pc[e] \in {"socket", "protect", "request"}
                              /\ pc[e] \notin {"socket", "protect", "request"} => pc'[e] \notin {"socket", "protect", "request"}
    PROVE  RequestInv'
BY HomeFacts DEF DialInv, RequestInv, DialType, RequestsType

(* A step of a dialer, other than to make its request and to send with it. *)
LEMMA OwnStep ==
    ASSUME DialInv, NEW d \in Dialers, NEW from, NEW label \in DialPlaces, Goto(d, from, label),
           label \in AskingPlaces => d \in AppDialers,
           label \in {"socket", "protect", "request"} => from \in {"socket", "protect", "request"},
           FdsType', NEW object \in {Closed, Socket(d), Request(d)}, ~stray' => ~stray /\ Keep(Home(d), object),
           fd' \in [Dialers -> Nat], \A e \in Dialers \ {d} : fd'[e] = fd[e],
           label \in Claiming /\ ~stray' => fd'[d] \in DOMAIN fds'[Home(d)] /\ fds'[Home(d)][fd'[d]] = Socket(d),
           UNCHANGED <<backlog, message, serverVars>>, protected \subseteq protected',
           reply' \in [AppDialers -> {"none", "ProtectSuccess", "ProtectFailed"}],
           \A e \in AppDialers : reply'[e] = "ProtectSuccess" => reply[e] = "ProtectSuccess",
           label = "connect" /\ ~stray' => Approved(d)',
           to' \in [Dialers -> Dialers \cup {NoDialer}],
           \A e \in Dialers : ~stray' => to'[e] = to[e] \/ (to'[e] = e /\ Approved(e)')
    PROVE  DialInv'
<1>1. /\ pc[d] = from /\ pc'[d] = label /\ \A e \in Dialers : e # d => pc'[e] = pc[e]
      /\ pc' \in [Dialers -> DialPlaces] /\ \A e \in VpnDialers : pc'[e] \notin AskingPlaces
    BY GotoFacts, HomeFacts
<1>2. UNCHANGED <<handler, served, recvFd, verdict, message, backlog>>
    BY DEF serverVars
<1>3. DialType'
    BY <1>1, <1>2 DEF DialInv, DialType, DiallingType, RequestsType, ServerType
<1>4. RequestInv'
    BY <1>1, <1>2, RequestsStay
<1>5. SocketInv'
    <2> SUFFICES ASSUME ~stray', NEW e \in Dialers, pc'[e] \in Claiming
                 PROVE  fd'[e] \in DOMAIN fds'[Home(e)] /\ fds'[Home(e)][fd'[e]] = Socket(e)
        BY DEF SocketInv, Claiming, Stands, Numbers
    <2>1. CASE e = d
        BY <1>1, <2>1
    <2>2. CASE e # d
        <3>1. Keep(Home(d), object) /\ Stands(Home(e), fd[e], Socket(e)) /\ fd'[e] = fd[e]
            BY <1>1, <2>2 DEF DialInv, SocketInv, Claiming
        <3>2. Socket(e) # object /\ Socket(e) # Closed
            BY <2>2, ObjectsDiffer
        <3>3. QED
            BY <3>1, <3>2, HomeFacts DEF Keep
    <2>3. QED
        BY <2>1, <2>2
<1>6. HandlerInv'
    <2>1. Home(d) = "vpn" => \A e \in AppDialers : object \notin {Accepted(e), Socket(e)}
        BY ObjectsDiffer, HomeFacts
    <2>2. QED
        BY <1>2, <2>1, HandlerStays, HomeFacts
<1>7. ApprovedInv'
    <2>1. \A e \in Dialers : Approved(e) => Approved(e)'
        BY <1>2 DEF Approved, Unreceived
    <2>2. SUFFICES ASSUME ~stray' PROVE ApprovedInv'
        BY DEF ApprovedInv
    <2>3. \A e \in AppDialers : verdict'[e] \/ reply'[e] = "ProtectSuccess" => Approved(e)'
        BY <1>2, <2>1, <2>2, HomeFacts DEF DialInv, ApprovedInv
    <2>4. \A e \in Dialers : pc'[e] = "connect" => Approved(e)'
        BY <1>1, <2>1, <2>2 DEF DialInv, ApprovedInv
    <2>5. \A e \in Dialers : to'[e] # NoDialer => to'[e] = e /\ Approved(e)'
        BY <2>1, <2>2 DEF DialInv, ApprovedInv
    <2>6. QED
        BY <2>3, <2>4, <2>5 DEF ApprovedInv
<1>8. QED
    BY <1>3, <1>4, <1>5, <1>6, <1>7 DEF DialInv

LEMMA DialTypeFacts ==
    ASSUME DialInv
    PROVE  /\ FdsType /\ fd \in [Dialers -> Nat] /\ to \in [Dialers -> Dialers \cup {NoDialer}]
           /\ reply \in [AppDialers -> {"none", "ProtectSuccess", "ProtectFailed"}]
BY DEF DialInv, DialType, DiallingType, RequestsType

LEMMA DialFailsInv == ASSUME DialInv, NEW d \in Dialers, DialFails(d) PROVE DialInv'
<1>1. /\ Goto(d, "socket", "failed") /\ "failed" \in DialPlaces \ (AskingPlaces \cup Claiming)
      /\ UNCHANGED <<fds, fd, to, backlog, message, reply, serverVars, protected, stray>>
    BY DEF DialFails, DialPlaces, AskingPlaces, Claiming, requestVars
<1>2. FdsType' /\ Keep(Home(d), Closed)
    BY <1>1, DialTypeFacts DEF FdsType, Keep, Stands, Numbers
<1>3. QED
    BY <1>1, <1>2, DialTypeFacts, OwnStep

LEMMA OpenSocketInv == ASSUME DialInv, NEW d \in Dialers, OpenSocket(d) PROVE DialInv'
<1>1. PICK n \in Numbers(Home(d)) : Open(Home(d), n, Socket(d)) /\ fd' = [fd EXCEPT ![d] = n]
    BY DEF OpenSocket
<1>2. /\ Goto(d, "socket", "protect") /\ "protect" \in DialPlaces \ AskingPlaces
      /\ Free(Home(d)) # {} /\ UNCHANGED <<to, backlog, message, reply, serverVars, protected, stray>>
    BY DEF OpenSocket, DialPlaces, AskingPlaces, requestVars
<1>3. FdsType' /\ n \in DOMAIN fds'[Home(d)] /\ fds'[Home(d)][n] = Socket(d) /\ Keep(Home(d), Closed)
    BY <1>1, <1>2, DialTypeFacts, OpenKeeps, HomeFacts
<1>4. fd' \in [Dialers -> Nat] /\ fd'[d] = n /\ \A e \in Dialers \ {d} : fd'[e] = fd[e]
    BY <1>1, DialTypeFacts, HomeFacts DEF FdsType
<1>5. QED
    BY <1>2, <1>3, <1>4, DialTypeFacts, OwnStep

LEMMA ProtectDirectlyInv == ASSUME DialInv, NEW d \in Dialers, ProtectDirectly(d) PROVE DialInv'
<1>1. PICK yes \in BOOLEAN : Protects(fd[d], yes) /\ Goto(d, "protect", IF yes THEN "connect" ELSE "drop")
    BY DEF ProtectDirectly
<1>2. /\ d \in VpnDialers /\ UNCHANGED <<fds, fd, to, backlog, message, reply, serverVars, stray>>
    BY DEF ProtectDirectly, requestVars
<1>3. FdsType' /\ Keep(Home(d), Closed)
    BY <1>2, DialTypeFacts DEF FdsType, Keep, Stands, Numbers
<1>4. ~stray => fd[d] \in DOMAIN fds[Home(d)] /\ fds[Home(d)][fd[d]] = Socket(d)
    BY <1>1 DEF DialInv, SocketInv, Claiming, Stands, Numbers, Goto
<1>5. protected \subseteq protected'
    BY <1>1 DEF Protects
<1>6. CASE yes
    <2>1. ~stray => Approved(d)'
        BY <1>1, <1>2, <1>4, <1>6, HomeFacts DEF Protects, Approved, Sockets
    <2>2. Goto(d, "protect", "connect") /\ "connect" \in DialPlaces \ AskingPlaces
        BY <1>1, <1>6 DEF DialPlaces, AskingPlaces
    <2>3. QED
        BY <1>2, <1>3, <1>4, <1>5, <2>1, <2>2, DialTypeFacts, OwnStep
<1>7. CASE ~yes
    <2>1. Goto(d, "protect", "drop") /\ "drop" \in DialPlaces \ (AskingPlaces \cup Claiming)
        BY <1>1, <1>7 DEF DialPlaces, AskingPlaces, Claiming
    <2>2. QED
        BY <1>2, <1>3, <1>5, <2>1, DialTypeFacts, OwnStep
<1>8. QED
    BY <1>6, <1>7

LEMMA ConnectFailsInv == ASSUME DialInv, NEW d \in Dialers, ConnectFails(d) PROVE DialInv'
<1>1. /\ Goto(d, "connect", "drop") /\ "drop" \in DialPlaces \ (AskingPlaces \cup Claiming)
      /\ UNCHANGED <<fds, fd, to, backlog, message, reply, serverVars, protected, stray>>
    BY DEF ConnectFails, DialPlaces, AskingPlaces, Claiming, requestVars
<1>2. FdsType' /\ Keep(Home(d), Closed)
    BY <1>1, DialTypeFacts DEF FdsType, Keep, Stands, Numbers
<1>3. QED
    BY <1>1, <1>2, DialTypeFacts, OwnStep

LEMMA ConnectInv == ASSUME DialInv, NEW d \in Dialers, Connect(d) PROVE DialInv'
<1>1. PICK e \in Dialers : fds[Home(d)][fd[d]] = Socket(e) /\ to' = [to EXCEPT ![e] = d]
    BY DEF Connect
<1>2. /\ Goto(d, "connect", "wrap") /\ "wrap" \in DialPlaces \ AskingPlaces
      /\ UNCHANGED <<fds, fd, backlog, message, reply, serverVars, protected, stray>>
    BY DEF Connect, DialPlaces, AskingPlaces, requestVars
<1>3. FdsType' /\ Keep(Home(d), Closed)
    BY <1>2, DialTypeFacts DEF FdsType, Keep, Stands, Numbers
<1>4. ~stray => fd[d] \in DOMAIN fds[Home(d)] /\ fds[Home(d)][fd[d]] = Socket(d) /\ e = d
    BY <1>1, <1>2, ObjectsDiffer DEF DialInv, SocketInv, Claiming, Stands, Numbers, Goto
<1>5. ~stray => Approved(d)'
    BY <1>2 DEF DialInv, ApprovedInv, Approved, Unreceived, Goto, serverVars
<1>6. /\ to' \in [Dialers -> Dialers \cup {NoDialer}]
      /\ \A f \in Dialers : ~stray' => to'[f] = to[f] \/ (to'[f] = f /\ Approved(f)')
    BY <1>1, <1>2, <1>4, <1>5, DialTypeFacts
<1>7. QED
    BY <1>2, <1>3, <1>4, <1>6, DialTypeFacts, OwnStep

LEMMA DropInv == ASSUME DialInv, NEW d \in Dialers, Drop(d) PROVE DialInv'
<1>1. /\ Goto(d, "drop", "failed") /\ "failed" \in DialPlaces \ (AskingPlaces \cup Claiming)
      /\ Close(Home(d), fd[d], Socket(d)) /\ fd' = [fd EXCEPT ![d] = 0]
      /\ UNCHANGED <<to, backlog, message, reply, serverVars, protected>>
    BY DEF Drop, DialPlaces, AskingPlaces, Claiming, requestVars
<1>2. FdsType' /\ (~stray' => ~stray /\ Keep(Home(d), Socket(d)))
    BY <1>1, CloseKeeps, DialTypeFacts, HomeFacts
<1>3. fd' \in [Dialers -> Nat] /\ \A e \in Dialers \ {d} : fd'[e] = fd[e]
    BY <1>1, DialTypeFacts
<1>4. QED
    BY <1>1, <1>2, <1>3, DialTypeFacts, OwnStep

LEMMA WrapInv == ASSUME DialInv, NEW d \in Dialers, Wrap(d) \/ WrapFails(d) PROVE DialInv'
<1>1. /\ Goto(d, "wrap", "closeFile") /\ "closeFile" \in DialPlaces \ (AskingPlaces \cup Claiming)
      /\ UNCHANGED <<fd, to, backlog, message, reply, serverVars, protected>>
    BY DEF Wrap, WrapFails, DialPlaces, AskingPlaces, Claiming, requestVars
<1>2. CASE Wrap(d)
    <2>1. PICK n \in Numbers(Home(d)) : Open(Home(d), n, fds[Home(d)][fd[d]])
        BY <1>2 DEF Wrap
    <2>2. FdsType' /\ Keep(Home(d), Closed) /\ stray' = stray
        BY <1>2, <2>1, DialTypeFacts, OpenKeeps, HomeFacts DEF Wrap
    <2>3. QED
        BY <1>1, <2>2, DialTypeFacts, OwnStep
<1>3. CASE WrapFails(d)
    <2>1. FdsType' /\ (~stray' => ~stray /\ Keep(Home(d), Socket(d)))
        BY <1>3, CloseKeeps, DialTypeFacts, HomeFacts DEF WrapFails
    <2>2. QED
        BY <1>1, <2>1, DialTypeFacts, OwnStep
<1>4. QED
    BY <1>2, <1>3

LEMMA CloseFileInv == ASSUME DialInv, NEW d \in Dialers, CloseFile(d) PROVE DialInv'
<1>1. PICK label \in {"failed", "up"} : Goto(d, "closeFile", label)
    BY DEF CloseFile
<1>2. /\ label \in DialPlaces \ (AskingPlaces \cup Claiming) /\ label \notin {"socket", "protect", "request", "connect"}
      /\ Close(Home(d), fd[d], Socket(d)) /\ fd' = [fd EXCEPT ![d] = 0]
      /\ UNCHANGED <<to, backlog, message, reply, serverVars, protected>>
    BY DEF CloseFile, DialPlaces, AskingPlaces, Claiming, requestVars
<1>3. FdsType' /\ (~stray' => ~stray /\ Keep(Home(d), Socket(d)))
    BY <1>2, CloseKeeps, DialTypeFacts, HomeFacts
<1>4. fd' \in [Dialers -> Nat] /\ \A e \in Dialers \ {d} : fd'[e] = fd[e]
    BY <1>2, DialTypeFacts
<1>5. QED
    BY <1>1, <1>2, <1>3, <1>4, DialTypeFacts, OwnStep

LEMMA RequestSocketInv == ASSUME DialInv, NEW d \in Dialers, RequestSocket(d) PROVE DialInv'
<1>1. d \in AppDialers /\ UNCHANGED <<fd, to, backlog, message, reply, serverVars, protected, stray>>
    BY DEF RequestSocket, requestVars
<1>2. CASE Free("app") = {}
    <2>1. /\ Goto(d, "protect", "drop") /\ "drop" \in DialPlaces \ (AskingPlaces \cup Claiming) /\ UNCHANGED fds
        BY <1>2 DEF RequestSocket, DialPlaces, AskingPlaces, Claiming
    <2>2. FdsType' /\ Keep(Home(d), Closed)
        BY <1>1, <2>1, DialTypeFacts DEF FdsType, Keep, Stands, Numbers
    <2>3. QED
        BY <1>1, <2>1, <2>2, DialTypeFacts, OwnStep
<1>3. CASE Free("app") # {}
    <2>1. PICK n \in Numbers("app") : Open("app", n, Request(d))
        BY <1>3 DEF RequestSocket
    <2>2. Goto(d, "protect", "request") /\ "request" \in DialPlaces
        BY <1>3 DEF RequestSocket, DialPlaces, AskingPlaces
    <2>3. FdsType' /\ Keep(Home(d), Closed)
        BY <1>1, <1>3, <2>1, DialTypeFacts, OpenKeeps, HomeFacts
    <2>4. ~stray => Stands("app", fd[d], Socket(d)) /\ Home(d) = "app"
        BY <1>1, <2>2, HomeFacts DEF DialInv, SocketInv, Claiming, Goto
    <2>5. ~stray => fd[d] \in DOMAIN fds'[Home(d)] /\ fds'[Home(d)][fd[d]] = Socket(d)
        BY <2>3, <2>4, ObjectsDiffer, HomeFacts DEF Keep
    <2>6. QED
        BY <1>1, <2>2, <2>3, <2>5, DialTypeFacts, OwnStep
<1>4. QED
    BY <1>2, <1>3

LEMMA HangUpInv ==
    ASSUME DialInv, NEW d \in Dialers, pc[d] \in AskingPlaces, NEW yes \in BOOLEAN, HangUp(d, yes),
           UNCHANGED <<backlog, message>>, reply' = reply \/ reply' = [reply EXCEPT ![d] = "none"],
           yes => reply[d] = "ProtectSuccess"
    PROVE  DialInv'
<1>1. d \in AppDialers /\ Home(d) = "app"
    BY HomeFacts DEF DialInv, DialType, DiallingType
<1>2. Close("app", socketFd[d], Request(d)) /\ UNCHANGED <<fd, to, serverVars, protected>>
    BY DEF HangUp
<1>3. FdsType' /\ (~stray' => ~stray /\ Keep(Home(d), Request(d)))
    BY <1>1, <1>2, CloseKeeps, DialTypeFacts, HomeFacts
<1>4. /\ reply' \in [AppDialers -> {"none", "ProtectSuccess", "ProtectFailed"}]
      /\ \A e \in AppDialers : reply'[e] = "ProtectSuccess" => reply[e] = "ProtectSuccess"
    BY <1>1, DialTypeFacts
<1>5. CASE yes
    <2>1. Goto(d, pc[d], "connect") /\ "connect" \in DialPlaces \ AskingPlaces
        BY <1>5 DEF HangUp, DialPlaces, AskingPlaces
    <2>2. ~stray => Approved(d)
        BY <1>1, <1>5 DEF DialInv, ApprovedInv
    <2>3. ~stray' => Approved(d)'
        BY <1>2, <1>3, <2>2 DEF Approved, Unreceived, serverVars
    <2>4. ~stray => Stands("app", fd[d], Socket(d))
        BY <1>1 DEF DialInv, SocketInv, Claiming
    <2>5. ~stray' => fd[d] \in DOMAIN fds'[Home(d)] /\ fds'[Home(d)][fd[d]] = Socket(d)
        BY <1>1, <1>3, <2>4, ObjectsDiffer, HomeFacts DEF Keep
    <2>6. QED
        BY <1>1, <1>2, <1>3, <1>4, <2>1, <2>3, <2>5, DialTypeFacts, OwnStep
<1>6. CASE ~yes
    <2>1. Goto(d, pc[d], "drop") /\ "drop" \in DialPlaces \ (AskingPlaces \cup Claiming)
        BY <1>6 DEF HangUp, DialPlaces, AskingPlaces, Claiming
    <2>2. QED
        BY <1>1, <1>2, <1>3, <1>4, <2>1, DialTypeFacts, OwnStep
<1>7. QED
    BY <1>5, <1>6

LEMMA RequestEndsInv ==
    ASSUME DialInv, NEW d \in Dialers, RequestConnectFails(d) \/ RequestSendFails(d) \/ RequestAnswered(d)
    PROVE  DialInv'
<1>1. CASE RequestConnectFails(d)
    BY <1>1, HangUpInv DEF RequestConnectFails, AskingPlaces, requestVars
<1>2. CASE RequestSendFails(d)
    BY <1>2, HangUpInv DEF RequestSendFails, AskingPlaces, requestVars
<1>3. CASE RequestAnswered(d)
    BY <1>3, HangUpInv DEF RequestAnswered, AskingPlaces
<1>4. QED
    BY <1>1, <1>2, <1>3

LEMMA RequestConnectInv == ASSUME DialInv, NEW d \in Dialers, RequestConnect(d) PROVE DialInv'
<1>1. /\ Goto(d, "request", "send") /\ backlog' = Append(backlog, d)
      /\ UNCHANGED <<fds, fd, to, message, reply, handler, served, recvFd, verdict, protected, stray>>
    BY DEF RequestConnect, serverVars
<1>2. d \in AppDialers /\ handler[d] = "none" /\ pc[d] = "request"
    BY <1>1, HomeFacts DEF DialInv, DialType, DiallingType, RequestInv, Goto, AskingPlaces
<1>3. /\ pc'[d] = "send" /\ \A e \in Dialers : e # d => pc'[e] = pc[e]
      /\ pc' \in [Dialers -> DialPlaces] /\ \A e \in VpnDialers : pc'[e] \notin AskingPlaces
    BY <1>1, <1>2, GotoFacts DEF DialPlaces, AskingPlaces
<1>4. DialType'
    <2>1. DiallingType' /\ FdsType'
        BY <1>1, <1>3 DEF DialInv, DialType, DiallingType, FdsType, Numbers
    <2>2. RequestsType' /\ ServerType'
        BY <1>1, <1>2 DEF DialInv, DialType, RequestsType, ServerType
    <2>3. QED
        BY <2>1, <2>2 DEF DialType
<1>5. RequestInv'
    <2>1. /\ Len(backlog) \in Nat /\ Len(backlog') = Len(backlog) + 1
          /\ \A i \in 1 .. Len(backlog) : backlog'[i] = backlog[i] /\ backlog[i] \in AppDialers /\ backlog[i] # d
          /\ backlog'[Len(backlog) + 1] = d
        BY <1>1, <1>2 DEF DialInv, DialType, RequestsType, RequestInv
    <2>2. \A i, j \in 1 .. Len(backlog') : backlog'[i] = backlog'[j] => i = j
        BY <2>1 DEF DialInv, RequestInv
    <2>3. \A i \in 1 .. Len(backlog') :
              handler[backlog'[i]] = "none" /\ pc'[backlog'[i]] \notin {"socket", "protect", "request"}
        BY <1>2, <1>3, <2>1, HomeFacts DEF DialInv, RequestInv
    <2>4. QED
        BY <1>1, <1>2, <1>3, <2>2, <2>3, HomeFacts DEF DialInv, RequestInv
<1>6. SocketInv'
    BY <1>1, <1>2, <1>3 DEF DialInv, SocketInv, Claiming, Stands, Numbers, AskingPlaces
<1>7. HandlerInv'
    BY <1>1 DEF DialInv, HandlerInv, Stands, Numbers
<1>8. ApprovedInv'
    BY <1>1, <1>3 DEF DialInv, ApprovedInv, Approved, Unreceived
<1>9. QED
    BY <1>4, <1>5, <1>6, <1>7, <1>8 DEF DialInv

LEMMA RequestSendInv == ASSUME DialInv, NEW d \in Dialers, RequestSend(d) PROVE DialInv'
<1>1. /\ Goto(d, "send", "await") /\ message' = [message EXCEPT ![d] = fds["app"][fd[d]]]
      /\ UNCHANGED <<fds, fd, to, backlog, reply, handler, served, recvFd, verdict, protected, stray>>
    BY DEF RequestSend, serverVars
<1>2. d \in AppDialers /\ pc[d] = "send"
    BY <1>1, HomeFacts DEF DialInv, DialType, DiallingType, Goto, AskingPlaces
<1>3. /\ pc'[d] = "await" /\ \A e \in Dialers : e # d => pc'[e] = pc[e]
      /\ pc' \in [Dialers -> DialPlaces] /\ \A e \in VpnDialers : pc'[e] \notin AskingPlaces
    BY <1>1, <1>2, GotoFacts DEF DialPlaces, AskingPlaces
<1>4. DialType'
    BY <1>1, <1>3 DEF DialInv, DialType, DiallingType, FdsType, Numbers, RequestsType, ServerType
<1>5. RequestInv'
    BY <1>1, <1>2, <1>3, RequestsStay
<1>6. SocketInv'
    BY <1>1, <1>2, <1>3 DEF DialInv, SocketInv, Claiming, Stands, Numbers, AskingPlaces
<1>7. HandlerInv'
    <2>1. ~stray => fds["app"][fd[d]] = Socket(d)
        BY <1>2, HomeFacts DEF DialInv, SocketInv, Claiming, Stands, AskingPlaces
    <2>2. DOMAIN message = AppDialers
        BY DEF DialInv, DialType, RequestsType
    <2>3. QED
        BY <1>1, <2>1, <2>2 DEF DialInv, HandlerInv, Stands, Numbers
<1>8. ApprovedInv'
    BY <1>1, <1>3 DEF DialInv, ApprovedInv, Approved, Unreceived
<1>9. QED
    BY <1>4, <1>5, <1>6, <1>7, <1>8 DEF DialInv

(* A step of the server: it closes no socket, and forgets no request. *)
LEMMA ServerStep ==
    ASSUME DialInv, UNCHANGED dialVars, FdsType', RequestsType', ServerType', RequestInv', HandlerInv',
           NEW object, \A d \in Dialers : object # Socket(d), ~stray' => ~stray /\ Keep("vpn", object),
           protected \subseteq protected', \A d \in AppDialers : Unreceived(d) => Unreceived(d)',
           \A d \in AppDialers :
               ~stray' /\ (verdict'[d] \/ reply'[d] = "ProtectSuccess") =>
                   verdict[d] \/ reply[d] = "ProtectSuccess" \/ Approved(d)'
    PROVE  DialInv'
<1>1. UNCHANGED <<pc, fd, to>>
    BY DEF dialVars
<1>2. DiallingType'
    BY <1>1 DEF DialInv, DialType, DiallingType
<1>3. SocketInv'
    <2> SUFFICES ASSUME ~stray', NEW d \in Dialers, pc[d] \in Claiming
                 PROVE  fd[d] \in DOMAIN fds'[Home(d)] /\ fds'[Home(d)][fd[d]] = Socket(d)
        BY <1>1 DEF SocketInv, Claiming, Stands, Numbers
    <2>1. Keep("vpn", object) /\ Stands(Home(d), fd[d], Socket(d))
        BY DEF DialInv, SocketInv, Claiming
    <2>2. QED
        BY <2>1, ObjectsDiffer, HomeFacts DEF Keep
<1>4. ApprovedInv'
    <2>1. \A d \in Dialers : Approved(d) => Approved(d)'
        BY DEF Approved, Unreceived
    <2>2. QED
        BY <1>1, <2>1, HomeFacts DEF DialInv, ApprovedInv
<1>5. QED
    BY <1>2, <1>3, <1>4 DEF DialInv, DialType

(* What a step does to the handler of one request, and to no other. *)
LEMMA StepFacts ==
    ASSUME DialInv, NEW d \in AppDialers, NEW from \in HandlerPlaces \ {"none"},
           NEW label \in HandlerPlaces \ {"none", "receive"}, Step(d, from, label)
    PROVE  /\ handler[d] = from /\ handler'[d] = label /\ \A e \in AppDialers : e # d => handler'[e] = handler[e]
           /\ handler' \in [AppDialers -> HandlerPlaces]
           /\ UNCHANGED <<backlog, pc>> /\ (\A e \in AppDialers : e # d => recvFd'[e] = recvFd[e]) => RequestInv'
<1>1. /\ handler[d] = from /\ handler'[d] = label /\ \A e \in AppDialers : e # d => handler'[e] = handler[e]
      /\ handler' \in [AppDialers -> HandlerPlaces]
    BY DEF Step, DialInv, DialType, ServerType
<1>2. ASSUME UNCHANGED <<backlog, pc>>, \A e \in AppDialers : e # d => recvFd'[e] = recvFd[e]
      PROVE  RequestInv'
    <2>1. \A i \in 1 .. Len(backlog) : backlog[i] \in AppDialers
        BY DEF DialInv, DialType, RequestsType
    <2>2. QED
        BY <1>1, <1>2, <2>1 DEF DialInv, RequestInv
<1>3. QED
    BY <1>1, <1>2

LEMMA AcceptInv == ASSUME DialInv, Accept PROVE DialInv'
<1> DEFINE d == Head(backlog)
<1>1. PICK n \in Numbers("vpn") : Open("vpn", n, Accepted(d)) /\ served' = [served EXCEPT ![d] = n]
    BY DEF Accept
<1>2. /\ backlog # <<>> /\ Free("vpn") # {} /\ handler' = [handler EXCEPT ![d] = "receive"]
      /\ backlog' = Tail(backlog)
      /\ UNCHANGED <<dialVars, pc, message, reply, recvFd, verdict, protected, stray>>
    BY DEF Accept, dialVars
<1>3. /\ Len(backlog) \in Nat /\ Len(backlog') = Len(backlog) - 1 /\ backlog' \in Seq(AppDialers)
      /\ \A i \in 1 .. Len(backlog) : backlog[i] \in AppDialers
      /\ \A i \in 1 .. Len(backlog') : backlog'[i] = backlog[i + 1]
      /\ d = backlog[1] /\ d \in AppDialers /\ Len(backlog) > 0
    BY <1>2 DEF DialInv, DialType, RequestsType
<1> HIDE DEF d
<1>4. handler[d] = "none" /\ pc[d] \notin {"socket", "protect", "request"} /\ recvFd[d] = 0
    BY <1>3 DEF DialInv, RequestInv
<1>5. FdsType' /\ n \in DOMAIN fds'["vpn"] /\ fds'["vpn"][n] = Accepted(d) /\ Keep("vpn", Closed) /\ n \in Nat
    BY <1>1, <1>2, DialTypeFacts, OpenKeeps, HomeFacts DEF FdsType
<1>6. RequestsType' /\ ServerType'
    BY <1>1, <1>2, <1>3, <1>5 DEF DialInv, DialType, RequestsType, ServerType, HandlerPlaces
<1>7. /\ handler'[d] = "receive" /\ served'[d] = n
      /\ \A e \in AppDialers : e # d => handler'[e] = handler[e] /\ served'[e] = served[e]
    BY <1>1, <1>2, <1>3 DEF DialInv, DialType, ServerType
<1>8. RequestInv'
    <2>1. \A i, j \in 1 .. Len(backlog') : backlog'[i] = backlog'[j] => i = j
        BY <1>3 DEF DialInv, RequestInv
    <2>2. \A i \in 1 .. Len(backlog') : i + 1 \in 1 .. Len(backlog) /\ backlog'[i] # d
        BY <1>3 DEF DialInv, RequestInv
    <2>3. \A i \in 1 .. Len(backlog') :
              handler'[backlog'[i]] = "none" /\ pc[backlog'[i]] \notin {"socket", "protect", "request"}
        BY <1>3, <1>7, <2>2 DEF DialInv, RequestInv
    <2>4. QED
        BY <1>2, <1>4, <1>7, <2>1, <2>3 DEF DialInv, RequestInv
<1>9. HandlerInv'
    <2> SUFFICES ASSUME ~stray', NEW e \in AppDialers
                 PROVE  /\ handler'[e] \in {"receive", "ask", "answer", "rawClose"} =>
                              served'[e] \in DOMAIN fds'["vpn"] /\ fds'["vpn"][served'[e]] = Accepted(e)
                        /\ recvFd[e] # 0 => recvFd[e] \in DOMAIN fds'["vpn"] /\ fds'["vpn"][recvFd[e]] = Socket(e)
                        /\ message[e] \in {Closed, Socket(e)}
        BY <1>2 DEF HandlerInv, Stands, Numbers
    <2>1. /\ handler[e] \in {"receive", "ask", "answer", "rawClose"} => Stands("vpn", served[e], Accepted(e))
          /\ recvFd[e] # 0 => Stands("vpn", recvFd[e], Socket(e))
          /\ message[e] \in {Closed, Socket(e)}
        BY <1>2 DEF DialInv, HandlerInv
    <2>2. QED
        BY <1>5, <1>7, <2>1, ObjectsDiffer, HomeFacts DEF Keep
<1>10. \A e \in AppDialers : Unreceived(e) => Unreceived(e)'
    BY <1>2, <1>4, <1>7 DEF Unreceived
<1>11. QED
    BY <1>2, <1>5, <1>6, <1>8, <1>9, <1>10, ObjectsDiffer, ServerStep

LEMMA NothingChanges ==
    ASSUME DialInv,
           UNCHANGED <<fds, stray, dialVars, pc, backlog, message, reply, handler, served, recvFd, verdict, protected>>
    PROVE  DialInv'
<1>1. FdsType' /\ RequestsType' /\ ServerType' /\ RequestInv'
    BY DEF DialInv, DialType, FdsType, RequestsType, ServerType, RequestInv, Numbers
<1>2. HandlerInv'
    BY DEF DialInv, HandlerInv, Stands, Numbers
<1>3. Keep("vpn", Closed) /\ \A d \in AppDialers : Unreceived(d) => Unreceived(d)'
    BY HomeFacts DEF Keep, Stands, Numbers, Unreceived
<1>4. QED
    BY <1>1, <1>2, <1>3, ObjectsDiffer, ServerStep

LEMMA AcceptFailsInv == ASSUME DialInv, AcceptFails PROVE DialInv'
BY NothingChanges DEF AcceptFails, dialVars, requestVars

(* A step of the handler of d; after a stray close it may have read the     *)
(* message of another.                                                      *)
LEMMA HandlerSteps ==
    ASSUME DialInv, NEW d \in AppDialers, NEW object \in {Closed, Accepted(d)},
           ~stray' => ~stray /\ Keep("vpn", object),
           \A e \in AppDialers : e # d => handler'[e] = handler[e] /\ served'[e] = served[e] /\ recvFd'[e] = recvFd[e],
           ~stray' /\ handler'[d] \in {"receive", "ask", "answer", "rawClose"} =>
               served'[d] \in DOMAIN fds'["vpn"] /\ fds'["vpn"][served'[d]] = Accepted(d),
           ~stray' /\ recvFd'[d] # 0 =>
               recvFd'[d] = recvFd[d] \/ (recvFd'[d] \in DOMAIN fds'["vpn"] /\ fds'["vpn"][recvFd'[d]] = Socket(d)),
           \A e \in AppDialers : message'[e] \in {Closed, message[e]}
    PROVE  HandlerInv'
<1> SUFFICES ASSUME ~stray', NEW e \in AppDialers
             PROVE  /\ handler'[e] \in {"receive", "ask", "answer", "rawClose"} =>
                          served'[e] \in DOMAIN fds'["vpn"] /\ fds'["vpn"][served'[e]] = Accepted(e)
                    /\ recvFd'[e] # 0 => recvFd'[e] \in DOMAIN fds'["vpn"] /\ fds'["vpn"][recvFd'[e]] = Socket(e)
                    /\ message'[e] \in {Closed, Socket(e)}
    BY DEF HandlerInv, Stands, Numbers
<1>1. /\ handler[e] \in {"receive", "ask", "answer", "rawClose"} => Stands("vpn", served[e], Accepted(e))
      /\ recvFd[e] # 0 => Stands("vpn", recvFd[e], Socket(e))
      /\ message[e] \in {Closed, Socket(e)}
    BY DEF DialInv, HandlerInv
<1>2. /\ \A m : Stands("vpn", m, Socket(e)) => m \in DOMAIN fds'["vpn"] /\ fds'["vpn"][m] = Socket(e)
      /\ e # d => \A m : Stands("vpn", m, Accepted(e)) => m \in DOMAIN fds'["vpn"] /\ fds'["vpn"][m] = Accepted(e)
    BY ObjectsDiffer, HomeFacts DEF Keep
<1>3. CASE e = d
    BY <1>1, <1>2, <1>3
<1>4. CASE e # d
    BY <1>1, <1>2, <1>4
<1>5. QED
    BY <1>3, <1>4

LEMMA ReceiveInv == ASSUME DialInv, NEW d \in AppDialers, Receive(d) PROVE DialInv'
<1>1. PICK e \in Readable(served[d]), n \in Numbers("vpn") :
          /\ Open("vpn", n, message[e])
          /\ recvFd' = [recvFd EXCEPT ![d] = n] /\ message' = [message EXCEPT ![e] = Closed]
    BY DEF Receive
<1>2. /\ Step(d, "receive", "ask") /\ Free("vpn") # {}
      /\ UNCHANGED <<dialVars, pc, backlog, reply, served, verdict, protected, stray>>
    BY DEF Receive, dialVars
<1>3. /\ handler[d] = "receive" /\ handler'[d] = "ask" /\ \A f \in AppDialers : f # d => handler'[f] = handler[f]
      /\ handler' \in [AppDialers -> HandlerPlaces]
      /\ (\A f \in AppDialers : f # d => recvFd'[f] = recvFd[f]) => RequestInv'
    BY <1>2, StepFacts DEF HandlerPlaces
<1>4. FdsType' /\ n \in DOMAIN fds'["vpn"] /\ fds'["vpn"][n] = message[e] /\ Keep("vpn", Closed) /\ n \in Nat
    BY <1>1, <1>2, DialTypeFacts, OpenKeeps, HomeFacts DEF FdsType
<1>5. RequestsType' /\ ServerType'
    BY <1>1, <1>2, <1>3, <1>4 DEF DialInv, DialType, RequestsType, ServerType
<1>6. /\ recvFd'[d] = n /\ \A f \in AppDialers : f # d => recvFd'[f] = recvFd[f]
      /\ \A f \in AppDialers : message'[f] \in {Closed, message[f]}
    BY <1>1, <1>5 DEF DialInv, DialType, RequestsType, ServerType
<1>7. HandlerInv'
    <2>1. ~stray => Stands("vpn", served[d], Accepted(d)) /\ fds["vpn"][served[d]] = Accepted(e)
        BY <1>1, <1>3 DEF DialInv, HandlerInv, Readable
    <2>2. ~stray => e = d /\ message[d] = Socket(d)
        BY <1>1, <2>1, ObjectsDiffer DEF DialInv, HandlerInv, Stands, Readable
    <2>3. ~stray => served[d] \in DOMAIN fds'["vpn"] /\ fds'["vpn"][served[d]] = Accepted(d)
        BY <1>4, <2>1, ObjectsDiffer, HomeFacts DEF Keep
    <2>4. QED
        BY <1>2, <1>3, <1>4, <1>6, <2>2, <2>3, HandlerSteps
<1>8. \A f \in AppDialers : Unreceived(f) => Unreceived(f)'
    BY <1>3, <1>6 DEF Unreceived
<1>9. QED
    BY <1>2, <1>3, <1>4, <1>5, <1>6, <1>7, <1>8, ObjectsDiffer, ServerStep

LEMMA ReceiveFailsInv == ASSUME DialInv, NEW d \in AppDialers, ReceiveFails(d) PROVE DialInv'
<1>1. /\ Step(d, "receive", "ask")
      /\ message' = [e \in AppDialers |-> IF e \in Readable(served[d]) THEN Closed ELSE message[e]]
      /\ UNCHANGED <<fds, dialVars, pc, backlog, reply, served, recvFd, verdict, protected, stray>>
    BY DEF ReceiveFails, dialVars
<1>2. /\ handler[d] = "receive" /\ handler'[d] = "ask" /\ \A f \in AppDialers : f # d => handler'[f] = handler[f]
      /\ handler' \in [AppDialers -> HandlerPlaces] /\ RequestInv'
    BY <1>1, StepFacts DEF HandlerPlaces
<1>3. FdsType' /\ RequestsType' /\ ServerType' /\ Keep("vpn", Closed)
    BY <1>1, <1>2 DEF DialInv, DialType, FdsType, RequestsType, ServerType, Keep, Stands, Numbers
<1>4. HandlerInv'
    <2>1. ~stray => Stands("vpn", served[d], Accepted(d))
        BY <1>2 DEF DialInv, HandlerInv
    <2>2. QED
        BY <1>1, <1>2, <1>3, <2>1, HandlerSteps DEF Stands, Numbers
<1>5. \A f \in AppDialers : Unreceived(f) => Unreceived(f)'
    BY <1>1, <1>2 DEF Unreceived
<1>6. QED
    BY <1>1, <1>2, <1>3, <1>4, <1>5, ObjectsDiffer, ServerStep

LEMMA AskInv == ASSUME DialInv, NEW d \in AppDialers, Ask(d) PROVE DialInv'
<1>1. PICK yes \in BOOLEAN : Protects(recvFd[d], yes) /\ verdict' = [verdict EXCEPT ![d] = yes]
    BY DEF Ask
<1>2. /\ Step(d, "ask", "answer")
      /\ UNCHANGED <<fds, dialVars, pc, backlog, message, reply, served, recvFd, stray>>
    BY DEF Ask, dialVars, requestVars
<1>3. /\ handler[d] = "ask" /\ handler'[d] = "answer" /\ \A f \in AppDialers : f # d => handler'[f] = handler[f]
      /\ handler' \in [AppDialers -> HandlerPlaces] /\ RequestInv'
    BY <1>2, StepFacts DEF HandlerPlaces
<1>4. /\ FdsType' /\ RequestsType' /\ ServerType' /\ Keep("vpn", Closed)
      /\ protected \subseteq protected' /\ \A e \in AppDialers : e # d => verdict'[e] = verdict[e]
    BY <1>1, <1>2, <1>3 DEF DialInv, DialType, FdsType, RequestsType, ServerType, Keep, Stands, Numbers, Protects
<1>5. HandlerInv'
    <2>1. ~stray => Stands("vpn", served[d], Accepted(d))
        BY <1>3 DEF DialInv, HandlerInv
    <2>2. QED
        BY <1>2, <1>3, <1>4, <2>1, HandlerSteps DEF Stands, Numbers
<1>6. \A f \in AppDialers : Unreceived(f) => Unreceived(f)'
    BY <1>2, <1>3 DEF Unreceived
<1>7. ~stray /\ verdict'[d] => Approved(d)'
    <2>1. CASE recvFd[d] = 0
        BY <1>2, <1>3, <2>1 DEF Approved, Unreceived
    <2>2. CASE recvFd[d] # 0
        <3>1. ~stray => fds["vpn"][recvFd[d]] = Socket(d)
            BY <2>2 DEF DialInv, HandlerInv, Stands
        <3>2. verdict'[d] = yes
            BY <1>1 DEF DialInv, DialType, ServerType
        <3>3. QED
            BY <1>1, <3>1, <3>2, HomeFacts DEF Protects, Approved, Sockets
    <2>3. QED
        BY <2>1, <2>2
<1>8. \A e \in AppDialers :
          ~stray' /\ (verdict'[e] \/ reply'[e] = "ProtectSuccess") =>
              verdict[e] \/ reply[e] = "ProtectSuccess" \/ Approved(e)'
    BY <1>2, <1>4, <1>7
<1>9. QED
    BY <1>2, <1>3, <1>4, <1>5, <1>6, <1>8, ObjectsDiffer, ServerStep

LEMMA AnswerInv == ASSUME DialInv, NEW d \in AppDialers, Answer(d) PROVE DialInv'
<1>1. /\ Step(d, "answer", "rawClose")
      /\ reply' = [e \in AppDialers |->
                      IF fds["vpn"][served[d]] # Accepted(e) \/ ~IsOpen("app", Request(e)) THEN reply[e]
                      ELSE IF verdict[d] THEN "ProtectSuccess" ELSE "ProtectFailed"]
      /\ verdict' = [verdict EXCEPT ![d] = FALSE]
      /\ UNCHANGED <<fds, dialVars, pc, backlog, message, served, recvFd, protected, stray>>
    BY DEF Answer, dialVars
<1>2. /\ handler[d] = "answer" /\ handler'[d] = "rawClose" /\ \A f \in AppDialers : f # d => handler'[f] = handler[f]
      /\ handler' \in [AppDialers -> HandlerPlaces] /\ RequestInv'
    BY <1>1, StepFacts DEF HandlerPlaces
<1>3. FdsType' /\ RequestsType' /\ ServerType' /\ Keep("vpn", Closed)
    BY <1>1, <1>2 DEF DialInv, DialType, FdsType, RequestsType, ServerType, Keep, Stands, Numbers
<1>4. ~stray => Stands("vpn", served[d], Accepted(d))
    BY <1>2 DEF DialInv, HandlerInv
<1>5. HandlerInv'
    BY <1>1, <1>2, <1>3, <1>4, HandlerSteps DEF Stands, Numbers
<1>6. \A f \in AppDialers : Unreceived(f) => Unreceived(f)'
    BY <1>1, <1>2 DEF Unreceived
<1>7. \A e \in AppDialers :
          ~stray' /\ (verdict'[e] \/ reply'[e] = "ProtectSuccess") => verdict[e] \/ reply[e] = "ProtectSuccess"
    <2> TAKE e \in AppDialers
    <2>1. verdict'[e] => verdict[e]
        BY <1>1 DEF DialInv, DialType, ServerType
    <2>2. ~stray /\ e # d => reply'[e] = reply[e]
        BY <1>1, <1>4, ObjectsDiffer DEF Stands
    <2>3. reply'[d] = "ProtectSuccess" => reply[d] = "ProtectSuccess" \/ verdict[d]
        BY <1>1
    <2>4. QED
        BY <1>1, <2>1, <2>2, <2>3
<1>8. QED
    BY <1>1, <1>2, <1>3, <1>5, <1>6, <1>7, ObjectsDiffer, ServerStep

LEMMA HandlerClosesInv == ASSUME DialInv, NEW d \in AppDialers, RawClose(d) \/ ConnClose(d) PROVE DialInv'
<1>1. /\ Close("vpn", served[d], Accepted(d)) /\ UNCHANGED <<dialVars, pc, backlog, reply, recvFd, verdict, protected>>
      /\ message' = message \/ message' = [message EXCEPT ![d] = Closed]
      /\ served' = served \/ served' = [served EXCEPT ![d] = 0]
    BY DEF RawClose, ConnClose, dialVars, requestVars
<1>2. PICK from \in {"rawClose", "connClose"}, label \in {"connClose", "done"} : Step(d, from, label)
    BY DEF RawClose, ConnClose
<1>3. /\ handler[d] = from /\ handler'[d] = label /\ \A f \in AppDialers : f # d => handler'[f] = handler[f]
      /\ handler' \in [AppDialers -> HandlerPlaces] /\ RequestInv'
    BY <1>1, <1>2, StepFacts DEF HandlerPlaces
<1>4. FdsType' /\ (~stray' => ~stray /\ Keep("vpn", Accepted(d)))
    BY <1>1, CloseKeeps, DialTypeFacts, HomeFacts
<1>5. RequestsType' /\ ServerType'
    BY <1>1, <1>3 DEF DialInv, DialType, RequestsType, ServerType
<1>6. /\ \A e \in AppDialers : e # d => served'[e] = served[e]
      /\ \A e \in AppDialers : message'[e] \in {Closed, message[e]}
    BY <1>1 DEF DialInv, DialType, RequestsType, ServerType
<1>7. HandlerInv'
    BY <1>1, <1>3, <1>4, <1>6, HandlerSteps
<1>8. \A f \in AppDialers : Unreceived(f) => Unreceived(f)'
    BY <1>1, <1>3 DEF Unreceived
<1>9. QED
    BY <1>1, <1>3, <1>4, <1>5, <1>7, <1>8, ObjectsDiffer, ServerStep

LEMMA CloseServerInv == ASSUME DialInv, CloseServer PROVE DialInv'
<1>1. /\ Close("vpn", 1, Listener) /\ backlog' = <<>>
      /\ UNCHANGED <<dialVars, pc, message, reply, handler, served, recvFd, verdict, protected>>
    BY DEF CloseServer, dialVars
<1>2. FdsType' /\ (~stray' => ~stray /\ Keep("vpn", Listener))
    BY <1>1, CloseKeeps, DialTypeFacts, HomeFacts
<1>3. RequestsType' /\ ServerType' /\ RequestInv'
    BY <1>1 DEF DialInv, DialType, RequestsType, ServerType, RequestInv
<1>4. HandlerInv'
    BY <1>1, <1>2, HandlerStays, ObjectsDiffer, HomeFacts
<1>5. \A f \in AppDialers : Unreceived(f) => Unreceived(f)'
    BY <1>1 DEF Unreceived
<1>6. QED
    BY <1>1, <1>2, <1>3, <1>4, <1>5, ObjectsDiffer, ServerStep

LEMMA DialNextInv == DialInv /\ [Next]_vars => DialInv'
<1> SUFFICES ASSUME DialInv, [Next]_vars PROVE DialInv'
    OBVIOUS
<1>1. CASE UNCHANGED vars
    BY <1>1, NothingChanges DEF vars, dialVars, requestVars, serverVars
<1>2. CASE \E d \in Dialers : DialFails(d) \/ OpenSocket(d) \/ DialStep(d)
    BY <1>2, DialFailsInv, OpenSocketInv, ProtectDirectlyInv, ConnectFailsInv, ConnectInv, DropInv, WrapInv, CloseFileInv,
       RequestSocketInv, RequestConnectInv, RequestEndsInv, RequestSendInv DEF DialStep
<1>3. CASE Accept \/ AcceptFails \/ CloseServer
    BY <1>3, AcceptInv, AcceptFailsInv, CloseServerInv
<1>4. CASE \E d \in AppDialers : HandlerStep(d)
    BY <1>4, ReceiveInv, ReceiveFailsInv, AskInv, AnswerInv, HandlerClosesInv DEF HandlerStep
<1>5. QED
    BY <1>1, <1>2, <1>3, <1>4 DEF Next

(* As long as no close by number has hit another's descriptor, every        *)
(* connection is made on the dialer's own socket, and the protector has     *)
(* protected that socket unless the server took up the request before its   *)
(* descriptor had arrived (protect.go, dialer.go).                          *)
THEOREM ConnectedAlwaysProtected == AppSpec => []ConnectedIsProtected
<1>1. AppInit => DialInv
    BY DialInitInv DEF AppInit
<1>2. [AppNext]_all => [Next]_vars
    BY DEF AppNext, all, Dial
<1>3. DialInv => ConnectedIsProtected
    BY DEF DialInv, ApprovedInv, Approved, ConnectedIsProtected
<1>4. QED
    BY <1>1, <1>2, <1>3, DialNextInv, PTL DEF AppSpec

-----------------------------------------------------------------------------
(* ProtectedDial: who closes which number.                                  *)

FdHeld(p, n, o) == \E d \in Dialers : p = Home(d) /\ n = fd[d] /\ HasFd(d) /\ o = Socket(d)
ConnHeld(p, n, o) == \E d \in Dialers : p = Home(d) /\ n = connFd[d] /\ n # 0 /\ o = Socket(d)
RequestHeld(p, n, o) == \E d \in AppDialers : p = "app" /\ n = socketFd[d] /\ n # 0 /\ o = Request(d)
AcceptedHeld(p, n, o) ==
    \E d \in AppDialers : p = "vpn" /\ n = served[d] /\ n # 0 /\ handler[d] # "connClose" /\ o = Accepted(d)
ReceivedHeld(p, n, o) == \E d \in AppDialers : p = "vpn" /\ n = recvFd[d] /\ n # 0 /\ o = Socket(d)
ListenerHeld(p, n, o) == p = "vpn" /\ listening /\ n = 1 /\ o = Listener

(* Somebody has number n for object o. *)
Held(p, n, o) ==
    \/ n = 0 /\ o = Stdin
    \/ ListenerHeld(p, n, o)
    \/ FdHeld(p, n, o) \/ ConnHeld(p, n, o) \/ RequestHeld(p, n, o)
    \/ AcceptedHeld(p, n, o) \/ ReceivedHeld(p, n, o)

(* A variable that is about to be set holds no number yet. *)
UnsetInv ==
    /\ DOMAIN connFd = Dialers /\ DOMAIN socketFd = Dialers
    /\ \A d \in Dialers :
          /\ pc[d] = "socket" => fd[d] = 0
          /\ pc[d] \notin {"closeFile", "up"} => connFd[d] = 0
          /\ pc[d] \notin AskingPlaces => socketFd[d] = 0
    /\ \A d \in VpnDialers : socketFd[d] = 0
    /\ \A d \in AppDialers : handler[d] = "none" => served[d] = 0

(* As long as no close has hit another's descriptor, numbers stand for what *)
(* somebody has them for, and the two of a wrapped socket differ.           *)
AccountInv ==
    ~stray =>
        /\ \A p \in Processes : \A n, o : o # Closed => (Held(p, n, o) <=> Stands(p, n, o))
        /\ \A d \in Dialers : connFd[d] # 0 => connFd[d] # fd[d]

NumbersInv == DialInv /\ UnsetInv /\ AccountInv

LEMMA OpenAccounts ==
    ASSUME FdsType, AccountInv, NEW p \in Processes, NEW n \in Numbers(p), NEW object,
           Free(p) # {}, Open(p, n, object), UNCHANGED stray, ~stray => object # Closed,
           ~stray => \A q \in Processes : \A m, o :
               Held(q, m, o)' <=> Held(q, m, o) \/ (q = p /\ m = n /\ o = object),
           ~stray => \A d \in Dialers : connFd'[d] # 0 => connFd'[d] # fd'[d]
    PROVE  AccountInv'
<1> SUFFICES ASSUME ~stray PROVE AccountInv'
    BY DEF AccountInv
<1>1. /\ n \in Numbers(p) /\ fds[p][n] = Closed
      /\ DOMAIN fds' = DOMAIN fds /\ fds'[p] = [fds[p] EXCEPT ![n] = object]
      /\ \A q \in Processes : q # p => fds'[q] = fds[q]
    BY OpenTakesFree
<1>2. ASSUME NEW q \in Processes, NEW m, NEW o, o # Closed
      PROVE  Stands(q, m, o)' <=> Stands(q, m, o) \/ (q = p /\ m = n /\ o = object)
    BY <1>1, <1>2 DEF Stands, Numbers, FdsType
<1>3. QED
    BY <1>2 DEF AccountInv

LEMMA CloseAccounts ==
    ASSUME FdsType, AccountInv, NEW p \in Processes, NEW n, NEW object, Close(p, n, object),
           ~stray => \A q \in Processes : \A m, o :
               Held(q, m, o)' <=> Held(q, m, o) /\ ~(q = p /\ m = n /\ o = object),
           ~stray => \A d \in Dialers : connFd'[d] # 0 => connFd'[d] # fd'[d]
    PROVE  AccountInv'
<1> SUFFICES ASSUME ~stray' PROVE AccountInv'
    BY DEF AccountInv
<1>1. /\ DOMAIN fds' = DOMAIN fds /\ fds'[p] = [fds[p] EXCEPT ![n] = Closed]
      /\ \A q \in Processes : q # p => fds'[q] = fds[q]
      /\ ~stray' => ~stray /\ fds[p][n] \in {Closed, object}
    BY CloseFrees
<1>2. ASSUME NEW q \in Processes, NEW m, NEW o, o # Closed
      PROVE  Stands(q, m, o)' <=> Stands(q, m, o) /\ ~(q = p /\ m = n /\ o = object)
    BY <1>1, <1>2 DEF Stands, Numbers, FdsType
<1>3. QED
    BY <1>1, <1>2 DEF AccountInv

(* Who leaves his variables alone holds what he held. *)
LEMMA HeldStays ==
    /\ UNCHANGED fd /\ (\A d \in Dialers : HasFd(d)' <=> HasFd(d)) =>
           \A q, m, o : FdHeld(q, m, o)' <=> FdHeld(q, m, o)
    /\ UNCHANGED connFd => \A q, m, o : ConnHeld(q, m, o)' <=> ConnHeld(q, m, o)
    /\ UNCHANGED socketFd => \A q, m, o : RequestHeld(q, m, o)' <=> RequestHeld(q, m, o)
    /\ UNCHANGED recvFd => \A q, m, o : ReceivedHeld(q, m, o)' <=> ReceivedHeld(q, m, o)
    /\ UNCHANGED listening => \A q, m, o : ListenerHeld(q, m, o)' <=> ListenerHeld(q, m, o)
    /\ UNCHANGED served /\ (\A d \in AppDialers : handler'[d] = "connClose" <=> handler[d] = "connClose") =>
           \A q, m, o : AcceptedHeld(q, m, o)' <=> AcceptedHeld(q, m, o)
BY DEF FdHeld, ConnHeld, RequestHeld, ReceivedHeld, ListenerHeld, AcceptedHeld

(* Number 0 is standard input, and is not given out. *)
LEMMA ZeroIsTaken ==
    ASSUME AccountInv, ~stray, NEW p \in Processes, NEW n, fds[p][n] = Closed
    PROVE  n # 0
<1>1. Stands(p, 0, Stdin) /\ Stdin # Closed
    BY DEF AccountInv, Held, Stdin, Closed
<1>2. QED
    BY <1>1 DEF Stands

(* A step that neither opens nor closes anything. *)
LEMMA NothingOpens ==
    ASSUME AccountInv, UNCHANGED <<fds, stray, fd, connFd, socketFd, served, recvFd, listening>>,
           \A d \in Dialers : pc'[d] = "closeFile" <=> pc[d] = "closeFile",
           \A d \in AppDialers : handler'[d] = "connClose" <=> handler[d] = "connClose"
    PROVE  AccountInv'
<1>1. \A q, m, o : Held(q, m, o)' <=> Held(q, m, o)
    <2>1. \A d \in Dialers : HasFd(d)' <=> HasFd(d)
        BY DEF HasFd
    <2>2. QED
        BY <2>1, HeldStays DEF Held
<1>2. \A q, m, o : Stands(q, m, o)' <=> Stands(q, m, o)
    BY DEF Stands, Numbers
<1>3. QED
    BY <1>1, <1>2 DEF AccountInv

LEMMA OpenSocketAccounts ==
    ASSUME NumbersInv, NEW d \in Dialers, OpenSocket(d)
    PROVE  AccountInv'
<1>1. PICK n \in Numbers(Home(d)) : Open(Home(d), n, Socket(d)) /\ fd' = [fd EXCEPT ![d] = n]
    BY DEF OpenSocket
<1>2. /\ pc[d] = "socket" /\ pc' = [pc EXCEPT ![d] = "protect"] /\ Free(Home(d)) # {}
      /\ UNCHANGED <<socketFd, connFd, listening, handler, served, recvFd, stray>>
    BY DEF OpenSocket, Goto, serverVars
<1>3. /\ FdsType /\ fd \in [Dialers -> Nat] /\ pc \in [Dialers -> DialPlaces] /\ Home(d) \in Processes
      /\ fd[d] = 0 /\ connFd[d] = 0 /\ Socket(d) # Closed /\ AccountInv
    BY <1>2, HomeFacts, ObjectsDiffer DEF NumbersInv, DialInv, DialType, DiallingType, UnsetInv
<1>4. ~stray => n # 0
    BY <1>1, <1>2, <1>3, OpenTakesFree, ZeroIsTaken
<1>5. ASSUME ~stray
      PROVE  \A q, m, o : FdHeld(q, m, o)' <=> FdHeld(q, m, o) \/ (q = Home(d) /\ m = n /\ o = Socket(d))
    <2>1. fd'[d] = n /\ HasFd(d)' /\ ~HasFd(d)
        BY <1>1, <1>2, <1>3, <1>4, <1>5 DEF HasFd
    <2>2. \A e \in Dialers : e # d => fd'[e] = fd[e] /\ (HasFd(e)' <=> HasFd(e))
        BY <1>1, <1>2, <1>3 DEF HasFd
    <2>3. QED
        BY <2>1, <2>2 DEF FdHeld
<1>6. ~stray => \A q, m, o : Held(q, m, o)' <=> Held(q, m, o) \/ (q = Home(d) /\ m = n /\ o = Socket(d))
    BY <1>2, <1>5, HeldStays DEF Held
<1>7. ~stray => \A e \in Dialers : connFd'[e] # 0 => connFd'[e] # fd'[e]
    BY <1>1, <1>2, <1>3 DEF AccountInv
<1>8. QED
    BY <1>1, <1>2, <1>3, <1>6, <1>7, OpenAccounts

(* Drop, WrapFails and CloseFile. *)
LEMMA ClosesFdAccounts ==
    ASSUME NumbersInv, NEW d \in Dialers, Close(Home(d), fd[d], Socket(d)), ~HasFd(d)', fd'[d] \in {0, fd[d]},
           \A e \in Dialers : e # d => fd'[e] = fd[e] /\ (HasFd(e)' <=> HasFd(e)),
           UNCHANGED <<socketFd, connFd, listening, handler, served, recvFd>>
    PROVE  AccountInv'
<1>1. FdsType /\ Home(d) \in Processes /\ AccountInv
    BY HomeFacts DEF NumbersInv, DialInv, DialType
<1>2. \A q, m, o : FdHeld(q, m, o)' <=> FdHeld(q, m, o) /\ ~(q = Home(d) /\ m = fd[d] /\ o = Socket(d))
    BY ObjectsDiffer DEF FdHeld
<1>3. ~stray => ~ConnHeld(Home(d), fd[d], Socket(d))
    BY <1>1, ObjectsDiffer DEF AccountInv, ConnHeld
<1>4. ~ReceivedHeld(Home(d), fd[d], Socket(d))
    BY ObjectsDiffer, HomeFacts DEF ReceivedHeld
<1>5. /\ ~RequestHeld(Home(d), fd[d], Socket(d)) /\ ~AcceptedHeld(Home(d), fd[d], Socket(d))
      /\ ~ListenerHeld(Home(d), fd[d], Socket(d)) /\ Socket(d) # Stdin
    BY ObjectsDiffer DEF RequestHeld, AcceptedHeld, ListenerHeld, Socket, Stdin
<1>6. ~stray => \A q, m, o : Held(q, m, o)' <=> Held(q, m, o) /\ ~(q = Home(d) /\ m = fd[d] /\ o = Socket(d))
    BY <1>2, <1>3, <1>4, <1>5, HeldStays DEF Held
<1>7. ~stray => \A e \in Dialers : connFd'[e] # 0 => connFd'[e] # fd'[e]
    BY <1>1 DEF AccountInv
<1>8. QED
    BY <1>1, <1>6, <1>7, CloseAccounts

LEMMA CloseFdAccounts ==
    ASSUME NumbersInv, NEW d \in Dialers, Drop(d) \/ WrapFails(d) \/ CloseFile(d)
    PROVE  AccountInv'
<1>1. /\ Close(Home(d), fd[d], Socket(d)) /\ UNCHANGED <<socketFd, connFd, listening, handler, served, recvFd>>
      /\ \E label : pc' = [pc EXCEPT ![d] = label]
      /\ fd' = [fd EXCEPT ![d] = 0] \/ (fd' = fd /\ WrapFails(d))
    BY DEF Drop, WrapFails, CloseFile, Goto, serverVars
<1>2. fd \in [Dialers -> Nat] /\ pc \in [Dialers -> DialPlaces]
    BY DEF NumbersInv, DialInv, DialType, DiallingType
<1>3. ~HasFd(d)' /\ fd'[d] \in {0, fd[d]}
    <2>1. CASE fd' = [fd EXCEPT ![d] = 0]
        BY <1>2, <2>1 DEF HasFd
    <2>2. CASE fd' = fd /\ WrapFails(d)
        <3>1. pc[d] = "wrap" /\ pc'[d] = "closeFile"
            BY <1>2, <2>2 DEF WrapFails, Goto
        <3>2. connFd'[d] = 0
            BY <1>1, <3>1 DEF NumbersInv, UnsetInv
        <3>3. QED
            BY <2>2, <3>1, <3>2 DEF HasFd
    <2>3. QED
        BY <1>1, <2>1, <2>2
<1>4. \A e \in Dialers : e # d => fd'[e] = fd[e] /\ (HasFd(e)' <=> HasFd(e))
    BY <1>1, <1>2 DEF HasFd
<1>5. QED
    BY <1>1, <1>3, <1>4, ClosesFdAccounts

LEMMA WrapAccounts ==
    ASSUME NumbersInv, NEW d \in Dialers, Wrap(d)
    PROVE  AccountInv'
<1>1. PICK n \in Numbers(Home(d)) : Open(Home(d), n, fds[Home(d)][fd[d]]) /\ connFd' = [connFd EXCEPT ![d] = n]
    BY DEF Wrap
<1>2. /\ pc[d] = "wrap" /\ pc' = [pc EXCEPT ![d] = "closeFile"] /\ Free(Home(d)) # {}
      /\ fds[Home(d)][fd[d]] # Closed
      /\ UNCHANGED <<fd, socketFd, listening, handler, served, recvFd, stray>>
    BY DEF Wrap, Goto, serverVars
<1>3. /\ FdsType /\ pc \in [Dialers -> DialPlaces] /\ Home(d) \in Processes
      /\ DOMAIN connFd = Dialers /\ connFd[d] = 0 /\ AccountInv
    BY <1>2, HomeFacts DEF NumbersInv, DialInv, DialType, DiallingType, UnsetInv
<1>4. ~stray => fds[Home(d)][fd[d]] = Socket(d)
    BY <1>2 DEF NumbersInv, DialInv, SocketInv, Claiming, Stands
<1>5. fds[Home(d)][n] = Closed
    BY <1>1, <1>2, <1>3, OpenTakesFree
<1>6. n # fd[d] /\ (~stray => n # 0)
    BY <1>2, <1>3, <1>5, ZeroIsTaken
<1>7. connFd'[d] = n /\ \A e \in Dialers : e # d => connFd'[e] = connFd[e]
    BY <1>1, <1>3
<1>8. ASSUME ~stray
      PROVE  \A q, m, o : ConnHeld(q, m, o)' <=> ConnHeld(q, m, o) \/ (q = Home(d) /\ m = n /\ o = Socket(d))
    BY <1>3, <1>6, <1>7, <1>8 DEF ConnHeld
<1>9. ~stray => \A e \in Dialers : HasFd(e)' <=> HasFd(e)
    BY <1>2, <1>3, <1>6, <1>7 DEF HasFd
<1>10. ~stray => \A q, m, o : Held(q, m, o)' <=> Held(q, m, o) \/ (q = Home(d) /\ m = n /\ o = Socket(d))
    BY <1>2, <1>8, <1>9, HeldStays DEF Held
<1>11. ~stray => \A e \in Dialers : connFd'[e] # 0 => connFd'[e] # fd'[e]
    BY <1>2, <1>3, <1>6, <1>7 DEF AccountInv
<1>12. ASSUME ~stray PROVE AccountInv'
    <2>1. Open(Home(d), n, Socket(d)) /\ Socket(d) # Closed
        BY <1>1, <1>4, <1>12, ObjectsDiffer
    <2>2. QED
        BY <1>2, <1>3, <1>10, <1>11, <2>1, OpenAccounts
<1>13. QED
    BY <1>2, <1>12 DEF AccountInv

LEMMA RequestSocketAccounts ==
    ASSUME NumbersInv, NEW d \in Dialers, RequestSocket(d)
    PROVE  AccountInv'
<1>1. /\ d \in AppDialers /\ pc[d] = "protect" /\ \E label \in {"drop", "request"} : pc' = [pc EXCEPT ![d] = label]
      /\ UNCHANGED <<fd, connFd, listening, handler, served, recvFd, stray>>
    BY DEF RequestSocket, Goto, serverVars
<1>2. /\ FdsType /\ pc \in [Dialers -> DialPlaces] /\ "app" \in Processes
      /\ DOMAIN socketFd = Dialers /\ socketFd[d] = 0 /\ AccountInv
    BY <1>1, HomeFacts DEF NumbersInv, DialInv, DialType, DiallingType, UnsetInv, AskingPlaces
<1>3. \A e \in Dialers : pc'[e] = "closeFile" <=> pc[e] = "closeFile"
    BY <1>1, <1>2
<1>4. CASE Free("app") = {}
    <2>1. UNCHANGED <<fds, socketFd>>
        BY <1>4 DEF RequestSocket
    <2>2. QED
        BY <1>1, <1>2, <1>3, <2>1, NothingOpens
<1>5. CASE Free("app") # {}
    <2>1. PICK n \in Numbers("app") : Open("app", n, Request(d)) /\ socketFd' = [socketFd EXCEPT ![d] = n]
        BY <1>5 DEF RequestSocket
    <2>2. ~stray => n # 0
        BY <1>2, <1>5, <2>1, OpenTakesFree, ZeroIsTaken
    <2>3. ASSUME ~stray
          PROVE  \A q, m, o : RequestHeld(q, m, o)' <=> RequestHeld(q, m, o) \/ (q = "app" /\ m = n /\ o = Request(d))
        <3>1. socketFd'[d] = n /\ \A e \in AppDialers : e # d => socketFd'[e] = socketFd[e]
            BY <1>2, <2>1, HomeFacts
        <3>2. QED
            BY <1>1, <1>2, <2>2, <2>3, <3>1 DEF RequestHeld
    <2>4. \A e \in Dialers : HasFd(e)' <=> HasFd(e)
        BY <1>1, <1>3 DEF HasFd
    <2>5. ~stray => \A q, m, o : Held(q, m, o)' <=> Held(q, m, o) \/ (q = "app" /\ m = n /\ o = Request(d))
        BY <1>1, <2>3, <2>4, HeldStays DEF Held
    <2>6. ~stray => \A e \in Dialers : connFd'[e] # 0 => connFd'[e] # fd'[e]
        BY <1>1, <1>2 DEF AccountInv
    <2>7. QED
        BY <1>1, <1>2, <1>5, <2>1, <2>5, <2>6, ObjectsDiffer, OpenAccounts
<1>6. QED
    BY <1>4, <1>5

LEMMA HangUpAccounts ==
    ASSUME NumbersInv, NEW d \in Dialers, RequestConnectFails(d) \/ RequestSendFails(d) \/ RequestAnswered(d)
    PROVE  AccountInv'
<1>1. /\ pc[d] \in AskingPlaces /\ \E label \in {"connect", "drop"} : pc' = [pc EXCEPT ![d] = label]
      /\ Close("app", socketFd[d], Request(d)) /\ socketFd' = [socketFd EXCEPT ![d] = 0]
      /\ UNCHANGED <<fd, connFd, listening, handler, served, recvFd>>
    BY DEF RequestConnectFails, RequestSendFails, RequestAnswered, HangUp, Goto, serverVars, AskingPlaces
<1>2. /\ FdsType /\ pc \in [Dialers -> DialPlaces] /\ "app" \in Processes /\ d \in AppDialers
      /\ DOMAIN socketFd = Dialers /\ AccountInv
    BY <1>1, HomeFacts DEF NumbersInv, DialInv, DialType, DiallingType, UnsetInv
<1>3. \A e \in Dialers : HasFd(e)' <=> HasFd(e)
    BY <1>1, <1>2 DEF HasFd, AskingPlaces
<1>4. \A q, m, o : RequestHeld(q, m, o)' <=> RequestHeld(q, m, o) /\ ~(q = "app" /\ m = socketFd[d] /\ o = Request(d))
    <2>1. socketFd'[d] = 0 /\ \A e \in AppDialers : e # d => socketFd'[e] = socketFd[e]
        BY <1>1, <1>2, HomeFacts
    <2>2. \A e, f : Request(e) = Request(f) => e = f
        BY DEF Request
    <2>3. QED
        BY <2>1, <2>2 DEF RequestHeld
<1>5. /\ \A q, m : ~FdHeld(q, m, Request(d)) /\ ~ConnHeld(q, m, Request(d)) /\ ~AcceptedHeld(q, m, Request(d))
      /\ \A q, m : ~ReceivedHeld(q, m, Request(d)) /\ ~ListenerHeld(q, m, Request(d)) /\ Request(d) # Stdin
    BY ObjectsDiffer DEF FdHeld, ConnHeld, AcceptedHeld, ReceivedHeld, ListenerHeld, Request, Stdin, Listener
<1>6. \A q, m, o : Held(q, m, o)' <=> Held(q, m, o) /\ ~(q = "app" /\ m = socketFd[d] /\ o = Request(d))
    BY <1>1, <1>3, <1>4, <1>5, HeldStays DEF Held
<1>7. ~stray => \A e \in Dialers : connFd'[e] # 0 => connFd'[e] # fd'[e]
    BY <1>1, <1>2 DEF AccountInv
<1>8. QED
    BY <1>1, <1>2, <1>6, <1>7, CloseAccounts

LEMMA AcceptAccounts == ASSUME NumbersInv, Accept PROVE AccountInv'
<1> DEFINE d == Head(backlog)
<1>1. PICK n \in Numbers("vpn") : Open("vpn", n, Accepted(d)) /\ served' = [served EXCEPT ![d] = n]
    BY DEF Accept
<1>2. /\ backlog # <<>> /\ Free("vpn") # {} /\ handler' = [handler EXCEPT ![d] = "receive"]
      /\ UNCHANGED <<pc, fd, connFd, socketFd, recvFd, listening, stray>>
    BY DEF Accept, dialVars
<1>3. /\ FdsType /\ "vpn" \in Processes /\ d \in AppDialers /\ d = backlog[1] /\ 1 \in 1 .. Len(backlog)
      /\ handler \in [AppDialers -> HandlerPlaces] /\ served \in [AppDialers -> Nat] /\ AccountInv
    BY <1>2, HomeFacts DEF NumbersInv, DialInv, DialType, RequestsType, ServerType
<1> HIDE DEF d
<1>4. handler[d] = "none" /\ served[d] = 0
    BY <1>3 DEF NumbersInv, DialInv, RequestInv, UnsetInv
<1>5. ~stray => n # 0
    BY <1>1, <1>2, <1>3, OpenTakesFree, ZeroIsTaken
<1>6. ASSUME ~stray
      PROVE  \A q, m, o : AcceptedHeld(q, m, o)' <=> AcceptedHeld(q, m, o) \/ (q = "vpn" /\ m = n /\ o = Accepted(d))
    <2>1. /\ served'[d] = n /\ handler'[d] = "receive"
          /\ \A e \in AppDialers : e # d => served'[e] = served[e] /\ handler'[e] = handler[e]
        BY <1>1, <1>2, <1>3
    <2>2. QED
        BY <1>3, <1>4, <1>5, <1>6, <2>1 DEF AcceptedHeld
<1>7. \A e \in Dialers : HasFd(e)' <=> HasFd(e)
    BY <1>2 DEF HasFd
<1>8. ~stray => \A q, m, o : Held(q, m, o)' <=> Held(q, m, o) \/ (q = "vpn" /\ m = n /\ o = Accepted(d))
    BY <1>2, <1>6, <1>7, HeldStays DEF Held
<1>9. ~stray => \A e \in Dialers : connFd'[e] # 0 => connFd'[e] # fd'[e]
    BY <1>2, <1>3 DEF AccountInv
<1>10. QED
    BY <1>1, <1>2, <1>3, <1>8, <1>9, ObjectsDiffer, OpenAccounts

LEMMA ReceiveAccounts == ASSUME NumbersInv, NEW d \in AppDialers, Receive(d) PROVE AccountInv'
<1>1. PICK e \in Readable(served[d]), n \in Numbers("vpn") :
          Open("vpn", n, message[e]) /\ recvFd' = [recvFd EXCEPT ![d] = n]
    BY DEF Receive
<1>2. /\ Free("vpn") # {} /\ handler[d] = "receive" /\ handler' = [handler EXCEPT ![d] = "ask"]
      /\ UNCHANGED <<pc, fd, connFd, socketFd, served, listening, stray>>
    BY DEF Receive, Step, dialVars
<1>3. /\ FdsType /\ "vpn" \in Processes /\ AccountInv
      /\ handler \in [AppDialers -> HandlerPlaces] /\ recvFd \in [AppDialers -> Nat] /\ recvFd[d] = 0
    BY <1>2, HomeFacts DEF NumbersInv, DialInv, DialType, ServerType, RequestInv
<1>4. ~stray => message[e] = Socket(d)
    <2>1. ~stray => fds["vpn"][served[d]] = Accepted(d) /\ fds["vpn"][served[d]] = Accepted(e)
        BY <1>1, <1>2 DEF NumbersInv, DialInv, HandlerInv, Stands, Readable
    <2>2. QED
        BY <1>1, <2>1, ObjectsDiffer DEF NumbersInv, DialInv, HandlerInv, Readable
<1>5. ~stray => n # 0
    BY <1>1, <1>2, <1>3, OpenTakesFree, ZeroIsTaken
<1>6. ASSUME ~stray
      PROVE  \A q, m, o : ReceivedHeld(q, m, o)' <=> ReceivedHeld(q, m, o) \/ (q = "vpn" /\ m = n /\ o = Socket(d))
    <2>1. recvFd'[d] = n /\ \A f \in AppDialers : f # d => recvFd'[f] = recvFd[f]
        BY <1>1, <1>3
    <2>2. QED
        BY <1>3, <1>5, <1>6, <2>1 DEF ReceivedHeld
<1>7. /\ \A f \in Dialers : HasFd(f)' <=> HasFd(f)
      /\ \A f \in AppDialers : handler'[f] = "connClose" <=> handler[f] = "connClose"
    BY <1>2, <1>3 DEF HasFd
<1>8. ~stray => \A q, m, o : Held(q, m, o)' <=> Held(q, m, o) \/ (q = "vpn" /\ m = n /\ o = Socket(d))
    BY <1>2, <1>6, <1>7, HeldStays DEF Held
<1>9. ~stray => \A f \in Dialers : connFd'[f] # 0 => connFd'[f] # fd'[f]
    BY <1>2, <1>3 DEF AccountInv
<1>10. ASSUME ~stray PROVE AccountInv'
    <2>1. Open("vpn", n, Socket(d)) /\ Socket(d) # Closed
        BY <1>1, <1>4, <1>10, ObjectsDiffer
    <2>2. QED
        BY <1>2, <1>3, <1>8, <1>9, <2>1, OpenAccounts
<1>11. QED
    BY <1>2, <1>10 DEF AccountInv

LEMMA HandlerClosesAccounts ==
    ASSUME NumbersInv, NEW d \in AppDialers, RawClose(d) \/ ConnClose(d)
    PROVE  AccountInv'
<1>1. /\ Close("vpn", served[d], Accepted(d)) /\ UNCHANGED <<pc, fd, connFd, socketFd, recvFd, listening>>
      /\ served' = served \/ served' = [served EXCEPT ![d] = 0]
      /\ RawClose(d) => handler' = [handler EXCEPT ![d] = "connClose"] /\ handler[d] = "rawClose"
      /\ ConnClose(d) => /\ handler' = [handler EXCEPT ![d] = "done"] /\ handler[d] = "connClose"
                         /\ served' = [served EXCEPT ![d] = 0]
    BY DEF RawClose, ConnClose, Step, dialVars
<1>2. /\ FdsType /\ "vpn" \in Processes /\ AccountInv
      /\ handler \in [AppDialers -> HandlerPlaces] /\ served \in [AppDialers -> Nat]
    BY HomeFacts DEF NumbersInv, DialInv, DialType, ServerType
<1>3. \A q, m, o : AcceptedHeld(q, m, o)' <=> AcceptedHeld(q, m, o) /\ ~(q = "vpn" /\ m = served[d] /\ o = Accepted(d))
    <2>1. /\ \A e \in AppDialers : e # d => served'[e] = served[e] /\ handler'[e] = handler[e]
          /\ handler'[d] = "connClose" \/ served'[d] = 0
        BY <1>1, <1>2
    <2>2. \A q, m, o : AcceptedHeld(q, m, o)' =>
              AcceptedHeld(q, m, o) /\ ~(q = "vpn" /\ m = served[d] /\ o = Accepted(d))
        BY <2>1, ObjectsDiffer DEF AcceptedHeld
    <2>3. ASSUME NEW q, NEW m, NEW o, AcceptedHeld(q, m, o), ~(q = "vpn" /\ m = served[d] /\ o = Accepted(d))
          PROVE  AcceptedHeld(q, m, o)'
        BY <2>1, <2>3 DEF AcceptedHeld
    <2>4. QED
        BY <2>2, <2>3
<1>4. \A e \in Dialers : HasFd(e)' <=> HasFd(e)
    BY <1>1 DEF HasFd
<1>5. /\ \A q, m : ~FdHeld(q, m, Accepted(d)) /\ ~ConnHeld(q, m, Accepted(d)) /\ ~RequestHeld(q, m, Accepted(d))
      /\ \A q, m : ~ReceivedHeld(q, m, Accepted(d)) /\ ~ListenerHeld(q, m, Accepted(d)) /\ Accepted(d) # Stdin
    BY ObjectsDiffer DEF FdHeld, ConnHeld, RequestHeld, ReceivedHeld, ListenerHeld, Accepted, Stdin
<1>6. \A q, m, o : Held(q, m, o)' <=> Held(q, m, o) /\ ~(q = "vpn" /\ m = served[d] /\ o = Accepted(d))
    BY <1>1, <1>3, <1>4, <1>5, HeldStays DEF Held
<1>7. ~stray => \A e \in Dialers : connFd'[e] # 0 => connFd'[e] # fd'[e]
    BY <1>1, <1>2 DEF AccountInv
<1>8. QED
    BY <1>1, <1>2, <1>6, <1>7, CloseAccounts

LEMMA CloseServerAccounts == ASSUME NumbersInv, CloseServer PROVE AccountInv'
<1>1. /\ Close("vpn", 1, Listener) /\ listening /\ ~listening'
      /\ UNCHANGED <<pc, fd, connFd, socketFd, handler, served, recvFd>>
    BY DEF CloseServer, dialVars
<1>2. FdsType /\ "vpn" \in Processes /\ AccountInv
    BY HomeFacts DEF NumbersInv, DialInv, DialType
<1>3. \A e \in Dialers : HasFd(e)' <=> HasFd(e)
    BY <1>1 DEF HasFd
<1>4. /\ \A q, m : ~FdHeld(q, m, Listener) /\ ~ConnHeld(q, m, Listener) /\ ~RequestHeld(q, m, Listener)
      /\ \A q, m : ~AcceptedHeld(q, m, Listener) /\ ~ReceivedHeld(q, m, Listener) /\ Listener # Stdin
    BY ObjectsDiffer DEF FdHeld, ConnHeld, RequestHeld, AcceptedHeld, ReceivedHeld, Request, Listener, Stdin
<1>5. \A q, m, o : ListenerHeld(q, m, o)' <=> ListenerHeld(q, m, o) /\ ~(q = "vpn" /\ m = 1 /\ o = Listener)
    BY <1>1 DEF ListenerHeld
<1>6. \A q, m, o : Held(q, m, o)' <=> Held(q, m, o) /\ ~(q = "vpn" /\ m = 1 /\ o = Listener)
    BY <1>1, <1>3, <1>4, <1>5, HeldStays DEF Held
<1>7. ~stray => \A e \in Dialers : connFd'[e] # 0 => connFd'[e] # fd'[e]
    BY <1>1, <1>2 DEF AccountInv
<1>8. QED
    BY <1>1, <1>2, <1>6, <1>7, CloseAccounts

(* The steps of a dialer that neither open nor close. *)
LEMMA DialerQuietAccounts ==
    ASSUME NumbersInv, NEW d \in Dialers,
           DialFails(d) \/ ProtectDirectly(d) \/ ConnectFails(d) \/ Connect(d) \/ RequestConnect(d) \/ RequestSend(d)
    PROVE  AccountInv'
<1>1. /\ \E label \in DialPlaces \ {"closeFile"} : pc' = [pc EXCEPT ![d] = label]
      /\ pc[d] # "closeFile"
      /\ UNCHANGED <<fds, stray, fd, connFd, socketFd, handler, served, recvFd, listening>>
    BY DEF DialFails, ProtectDirectly, ConnectFails, Connect, RequestConnect, RequestSend, Goto, serverVars,
           DialPlaces, AskingPlaces
<1>2. pc \in [Dialers -> DialPlaces] /\ AccountInv
    BY DEF NumbersInv, DialInv, DialType, DiallingType
<1>3. QED
    BY <1>1, <1>2, NothingOpens

LEMMA HandlerQuietAccounts ==
    ASSUME NumbersInv, NEW d \in AppDialers, ReceiveFails(d) \/ Ask(d) \/ Answer(d)
    PROVE  AccountInv'
<1>1. /\ \E label \in {"ask", "answer", "rawClose"} : handler' = [handler EXCEPT ![d] = label]
      /\ handler[d] # "connClose"
      /\ UNCHANGED <<fds, stray, pc, fd, connFd, socketFd, served, recvFd, listening>>
    BY DEF ReceiveFails, Ask, Answer, Step, dialVars
<1>2. handler \in [AppDialers -> HandlerPlaces] /\ AccountInv
    BY DEF NumbersInv, DialInv, DialType, ServerType
<1>3. QED
    BY <1>1, <1>2, NothingOpens

LEMMA UnsetNextInv == NumbersInv /\ [Next]_vars => UnsetInv'
<1> SUFFICES ASSUME NumbersInv, [Next]_vars PROVE UnsetInv'
    OBVIOUS
<1>1. /\ pc \in [Dialers -> DialPlaces] /\ fd \in [Dialers -> Nat] /\ UnsetInv
      /\ handler \in [AppDialers -> HandlerPlaces] /\ served \in [AppDialers -> Nat]
    BY DEF NumbersInv, DialInv, DialType, DiallingType, ServerType
<1>2. ASSUME NEW d \in Dialers, DialFails(d) \/ OpenSocket(d) \/ DialStep(d)
      PROVE  UnsetInv'
    <2>1. UNCHANGED <<handler, served>>
        BY <1>2 DEF DialFails, OpenSocket, DialStep, ProtectDirectly, ConnectFails, Connect, Drop, Wrap, WrapFails,
                    CloseFile, RequestSocket, RequestConnect, RequestConnectFails, RequestSend, RequestSendFails,
                    RequestAnswered, HangUp, serverVars
    <2>2. CASE DialFails(d) \/ OpenSocket(d)
        BY <1>1, <2>1, <2>2, HomeFacts DEF UnsetInv, DialFails, OpenSocket, Goto, AskingPlaces
    <2>3. CASE ProtectDirectly(d) \/ ConnectFails(d) \/ Connect(d)
        BY <1>1, <2>1, <2>3, HomeFacts DEF UnsetInv, ProtectDirectly, ConnectFails, Connect, Goto, AskingPlaces
    <2>4. CASE Drop(d) \/ Wrap(d) \/ WrapFails(d) \/ CloseFile(d)
        BY <1>1, <2>1, <2>4, HomeFacts DEF UnsetInv, Drop, Wrap, WrapFails, CloseFile, Goto, AskingPlaces
    <2>5. CASE RequestSocket(d)
        BY <1>1, <2>1, <2>5, HomeFacts DEF UnsetInv, RequestSocket, Goto, AskingPlaces
    <2>6. CASE RequestConnect(d) \/ RequestSend(d)
        BY <1>1, <2>1, <2>6, HomeFacts DEF UnsetInv, RequestConnect, RequestSend, Goto, AskingPlaces
    <2>7. CASE RequestConnectFails(d) \/ RequestSendFails(d) \/ RequestAnswered(d)
        BY <1>1, <2>1, <2>7, HomeFacts DEF UnsetInv, RequestConnectFails, RequestSendFails, RequestAnswered, HangUp,
           Goto, AskingPlaces
    <2>8. QED
        BY <1>2, <2>2, <2>3, <2>4, <2>5, <2>6, <2>7 DEF DialStep
<1>3. CASE Accept
    <2>1. UNCHANGED <<pc, fd, connFd, socketFd>> /\ handler' = [handler EXCEPT ![Head(backlog)] = "receive"]
        BY <1>3 DEF Accept, dialVars
    <2>2. \A d \in AppDialers : d # Head(backlog) => served'[d] = served[d]
        BY <1>1, <1>3 DEF Accept
    <2>3. QED
        BY <1>1, <2>1, <2>2 DEF UnsetInv
<1>4. CASE AcceptFails \/ CloseServer
    BY <1>1, <1>4 DEF AcceptFails, CloseServer, dialVars, UnsetInv
<1>5. ASSUME NEW d \in AppDialers, HandlerStep(d)
      PROVE  UnsetInv'
    <2>1. /\ UNCHANGED <<pc, fd, connFd, socketFd>>
          /\ \E label \in HandlerPlaces \ {"none"} : handler' = [handler EXCEPT ![d] = label]
          /\ served' = served \/ served' = [served EXCEPT ![d] = 0]
        BY <1>5 DEF HandlerStep, Receive, ReceiveFails, Ask, Answer, RawClose, ConnClose, Step, dialVars, HandlerPlaces
    <2>2. QED
        BY <1>1, <2>1 DEF UnsetInv
<1>6. CASE UNCHANGED vars
    BY <1>1, <1>6 DEF vars, dialVars, serverVars, UnsetInv
<1>7. QED
    BY <1>2, <1>3, <1>4, <1>5, <1>6 DEF Next

LEMMA NumbersInitInv == Init => NumbersInv
<1> SUFFICES ASSUME Init PROVE NumbersInv
    OBVIOUS
<1>1. DialInv
    BY DialInitInv
<1>2. UnsetInv
    BY HomeFacts DEF Init, UnsetInv
<1>3. AccountInv
    <2>1. PICK cast \in Casts :
              fds = [p \in Processes |-> [n \in 0 .. cast[p] - 1 |->
                        IF n = 0 THEN Stdin ELSE IF n = 1 /\ p = "vpn" THEN Listener ELSE Closed]]
        BY DEF Init
    <2>2. \A p \in Processes : cast[p] \in Nat \ {0, 1}
        BY CastAssumption DEF Processes
    <2>3. \A p \in Processes : 0 \in 0 .. cast[p] - 1 /\ 1 \in 0 .. cast[p] - 1
        BY <2>2
    <2>4. \A p \in Processes : \A n, o : o # Closed =>
              (Stands(p, n, o) <=> (n = 0 /\ o = Stdin) \/ (n = 1 /\ p = "vpn" /\ o = Listener))
        BY <2>1, <2>3 DEF Stands, Numbers
    <2>5. \A p, n, o : ~FdHeld(p, n, o) /\ ~ConnHeld(p, n, o) /\ ~RequestHeld(p, n, o)
        BY HomeFacts DEF Init, FdHeld, ConnHeld, RequestHeld, HasFd
    <2>6. \A p, n, o : ~AcceptedHeld(p, n, o) /\ ~ReceivedHeld(p, n, o)
        BY DEF Init, AcceptedHeld, ReceivedHeld
    <2>7. \A d \in Dialers : connFd[d] = 0
        BY DEF Init
    <2>8. listening
        BY DEF Init
    <2>9. QED
        BY <2>4, <2>5, <2>6, <2>7, <2>8 DEF AccountInv, Held, ListenerHeld
<1>4. QED
    BY <1>1, <1>2, <1>3 DEF NumbersInv

LEMMA NumbersNextInv == NumbersInv /\ [Next]_vars => NumbersInv'
<1> SUFFICES ASSUME NumbersInv, [Next]_vars PROVE NumbersInv'
    OBVIOUS
<1>1. DialInv' /\ UnsetInv'
    BY DialNextInv, UnsetNextInv DEF NumbersInv
<1>2. AccountInv'
    <2>1. CASE \E d \in Dialers : DialFails(d) \/ OpenSocket(d) \/ DialStep(d)
        BY <2>1, DialerQuietAccounts, OpenSocketAccounts, CloseFdAccounts, WrapAccounts, RequestSocketAccounts,
           HangUpAccounts DEF DialStep
    <2>2. CASE Accept \/ CloseServer
        BY <2>2, AcceptAccounts, CloseServerAccounts
    <2>3. CASE \E d \in AppDialers : HandlerStep(d)
        BY <2>3, ReceiveAccounts, HandlerQuietAccounts, HandlerClosesAccounts DEF HandlerStep
    <2>4. CASE AcceptFails \/ UNCHANGED vars
        BY <2>4, NothingOpens DEF AcceptFails, vars, dialVars, serverVars, NumbersInv
    <2>5. QED
        BY <2>1, <2>2, <2>3, <2>4 DEF Next
<1>3. QED
    BY <1>1, <1>2 DEF NumbersInv

(* As long as no close by number has hit another's descriptor, no error     *)
(* path of protect.go and dialer.go loses one: every open number is in a    *)
(* variable of somebody who will close it, or in a recvFd, which nobody     *)
(* closes.                                                                  *)
THEOREM DescriptorsAlwaysAccounted == AppSpec => []DescriptorsAccounted
<1>1. AppInit => NumbersInv
    BY NumbersInitInv DEF AppInit
<1>2. [AppNext]_all => [Next]_vars
    BY DEF AppNext, all, Dial
<1>3. NumbersInv => DescriptorsAccounted
    <2> SUFFICES ASSUME NumbersInv, ~stray, NEW p \in Processes
                 PROVE  {n \in Numbers(p) : fds[p][n] # Closed} = Accounted(p)
        BY DEF DescriptorsAccounted
    <2>1. \A n, o : o # Closed => (Held(p, n, o) <=> Stands(p, n, o))
        BY DEF NumbersInv, AccountInv
    <2>2. ASSUME NEW n \in Numbers(p), fds[p][n] # Closed
          PROVE  n \in Accounted(p)
        <3>1. Held(p, n, fds[p][n])
            BY <2>1, <2>2 DEF Stands
        <3>2. QED
            BY <3>1, HomeFacts DEF Held, ListenerHeld, FdHeld, ConnHeld, RequestHeld, AcceptedHeld, ReceivedHeld, Accounted
    <2>3. ASSUME NEW n \in Accounted(p)
          PROVE  \E o : o # Closed /\ Held(p, n, o)
        <3>1. n # 0 => \/ ListenerHeld(p, n, Listener)
                       \/ \E d \in Dialers : FdHeld(p, n, Socket(d)) \/ ConnHeld(p, n, Socket(d))
                       \/ \E d \in AppDialers : \/ RequestHeld(p, n, Request(d)) \/ AcceptedHeld(p, n, Accepted(d))
                                                 \/ ReceivedHeld(p, n, Socket(d))
            BY <2>3, HomeFacts DEF Accounted, ListenerHeld, FdHeld, ConnHeld, RequestHeld, AcceptedHeld, ReceivedHeld,
                                   Processes
        <3>2. Stdin # Closed /\ Listener # Closed
            BY DEF Stdin, Listener, Closed
        <3>3. QED
            BY <3>1, <3>2, ObjectsDiffer DEF Held
    <2>4. QED
        BY <2>1, <2>2, <2>3 DEF Stands
<1>4. QED
    BY <1>1, <1>2, <1>3, NumbersNextInv, PTL DEF AppSpec

-----------------------------------------------------------------------------
(* SystemDialers: its inductive invariant.                                  *)

MaybeResolvers == Resolvers \cup {Nil}
DialerType == [path : Paths \cup {"tun", "nil"}, resolver : MaybeResolvers, maker : Callers \cup {Nil}]
LocalPlaces == {"resolver", "lookup", "raw"}
MutexPlaces == {"make", "store", "use", "unlock"}
MethodType ==
    [pc : {"idle", "lock"} \cup LocalPlaces \cup MutexPlaces,
     instance : Instances \cup {Nil}, resolver : MaybeResolvers, path : Paths]

HookType ==
    /\ resolver \in [Instances -> MaybeResolvers]
    /\ lookupFunc \in MaybeResolvers /\ rawQueryFunc \in MaybeResolvers
    /\ systemDialer \in [Paths -> DialerType] /\ hook \in DialerType
    /\ method \in [Callers -> MethodType]
    /\ \A c \in Callers : method[c].pc # "idle" => method[c].instance \in Instances
    /\ overlap \in BOOLEAN

(* Who works on the dialers holds the mutex, and finds the field of its     *)
(* path as it was when it looked.                                           *)
MutexInv ==
    /\ \A c \in Callers : method[c].pc \in MutexPlaces => mutex = c
    /\ \A c \in Callers : method[c].pc = "store" => systemDialer[method[c].path] = NoDialerSet
    /\ \A path \in Paths : systemDialer[path] # NoDialerSet => systemDialer[path].path = path
    /\ hook.path \in Paths => hook = systemDialer[hook.path]

(* Until calls overlap, who sets a resolver is alone in localdns and with   *)
(* its instance; who makes a dialer has a resolver; and the two functions   *)
(* are of one resolver but for the moment between their stores.             *)
AloneInv ==
    ~overlap =>
        /\ \A c, d \in Callers :
              c # d /\ method[c].pc \in LocalPlaces /\ method[d].pc # "idle" =>
                  method[d].pc \notin LocalPlaces /\ method[d].instance # method[c].instance
        /\ \A c \in Callers :
              method[c].pc \in {"lock", "make", "store"} => resolver[method[c].instance] # Nil
        /\ \A path \in Paths : systemDialer[path] # NoDialerSet => systemDialer[path].resolver # Nil
        /\ \A c \in Callers : method[c].pc = "raw" => lookupFunc = method[c].resolver
        /\ \/ \E c \in Callers : method[c].pc = "raw"
           \/ rawQueryFunc = lookupFunc
           \/ lookupFunc \in Resolvers \ Exchanging

HookInv == HookType /\ MutexInv /\ AloneInv

LEMMA HookInitInv == HookInit => HookInv
<1> SUFFICES ASSUME HookInit PROVE HookInv
    OBVIOUS
<1> USE DEF HookInit, Idle, NoDialerSet, Paths
<1>1. HookType
    BY DEF HookType, MaybeResolvers, DialerType, MethodType
<1>2. MutexInv
    BY DEF MutexInv, MutexPlaces
<1>3. AloneInv
    BY DEF AloneInv, LocalPlaces
<1>4. QED
    BY <1>1, <1>2, <1>3 DEF HookInv

(* What a step of a caller does to its own call, and to no other. *)
LEMMA AtFacts ==
    ASSUME HookInv, NEW c \in Callers, NEW from, NEW at \in {"lock"} \cup LocalPlaces \cup MutexPlaces,
           At(c, from, at), from # "idle"
    PROVE  /\ method[c].pc = from
           /\ method' \in [Callers -> MethodType]
           /\ method'[c].pc = at /\ method'[c].path = method[c].path
           /\ method'[c].instance = method[c].instance /\ method'[c].resolver = method[c].resolver
           /\ \A d \in Callers : d # c => method'[d] = method[d]
           /\ method[c] \in MethodType /\ method[c].instance \in Instances
<1>1. /\ method[c] \in MethodType /\ method[c].pc = from /\ method[c].instance \in Instances
      /\ method' = [method EXCEPT ![c].pc = at] /\ method \in [Callers -> MethodType]
    BY DEF At, HookInv, HookType
<1>2. [method[c] EXCEPT !.pc = at] \in MethodType
    BY <1>1 DEF MethodType
<1>3. method' = [method EXCEPT ![c] = [method[c] EXCEPT !.pc = at]]
    BY <1>1
<1>4. QED
    BY <1>1, <1>2, <1>3 DEF MethodType

LEMMA LeavesFacts ==
    ASSUME HookInv, NEW c \in Callers, NEW from, Leaves(c, from), from # "idle"
    PROVE  /\ method[c].pc = from
           /\ method' \in [Callers -> MethodType]
           /\ method'[c] = Idle /\ method'[c].pc = "idle"
           /\ \A d \in Callers : d # c => method'[d] = method[d]
           /\ method[c] \in MethodType /\ method[c].instance \in Instances
<1>1. Idle \in MethodType /\ Idle.pc = "idle"
    BY DEF Idle, MethodType, MaybeResolvers, Paths
<1>2. QED
    BY <1>1 DEF Leaves, HookInv, HookType

-----------------------------------------------------------------------------
(* SystemDialers: one lemma per action.                                     *)

LEMMA WithLocalResolverInv ==
    ASSUME HookInv, NEW c \in Callers, NEW i \in Instances, NEW r \in MaybeResolvers, WithLocalResolver(c, i, r)
    PROVE  HookInv'
<1> DEFINE new == [pc |-> "resolver", instance |-> i, resolver |-> r, path |-> "none"]
<1>1. /\ method[c] = Idle /\ method' = [method EXCEPT ![c] = new]
      /\ overlap' = (overlap \/ \E d \in Callers \ {c} : Resolving(d) \/ method[d].instance = i)
      /\ UNCHANGED <<resolver, lookupFunc, rawQueryFunc, systemDialer, hook, mutex>>
    BY DEF WithLocalResolver, Calls, localdnsVars, dialerVars
<1>2. new \in MethodType /\ new.pc = "resolver" /\ new.instance = i
    BY DEF MethodType, LocalPlaces, Paths
<1>3. method' \in [Callers -> MethodType] /\ method'[c] = new /\ \A d \in Callers : d # c => method'[d] = method[d]
    BY <1>1, <1>2 DEF HookInv, HookType
<1>4. HookType'
    BY <1>1, <1>2, <1>3 DEF HookInv, HookType
<1>5. MutexInv'
    BY <1>1, <1>2, <1>3 DEF HookInv, MutexInv, MutexPlaces
<1>6. AloneInv'
    <2> SUFFICES ASSUME ~overlap' PROVE AloneInv'
        BY DEF AloneInv
    <2>1. ~overlap /\ \A d \in Callers \ {c} : method[d].pc \notin LocalPlaces /\ method[d].instance # i
        BY <1>1 DEF HookInv, HookType, Resolving, LocalPlaces
    <2>2. method[c].pc = "idle"
        BY <1>1 DEF Idle
    <2>3. QED
        BY <1>1, <1>2, <1>3, <2>1, <2>2 DEF HookInv, AloneInv, LocalPlaces
<1>7. QED
    BY <1>4, <1>5, <1>6 DEF HookInv

LEMMA WithAlternativeSystemDialerInv ==
    ASSUME HookInv, NEW c \in Callers, NEW i \in Instances, NEW path \in Paths,
           WithAlternativeSystemDialer(c, i, path)
    PROVE  HookInv'
<1> DEFINE new == [pc |-> "lock", instance |-> i, resolver |-> Nil, path |-> path]
<1>1. /\ method[c] = Idle /\ method' = [method EXCEPT ![c] = new] /\ resolver[i] # Nil
      /\ overlap' = (overlap \/ \E d \in Callers \ {c} : Resolving(d) /\ method[d].instance = i)
      /\ UNCHANGED <<resolver, lookupFunc, rawQueryFunc, systemDialer, hook, mutex>>
    BY DEF WithAlternativeSystemDialer, Calls, localdnsVars, dialerVars
<1>2. new \in MethodType /\ new.pc = "lock" /\ new.instance = i
    BY DEF MethodType, MaybeResolvers
<1>3. method' \in [Callers -> MethodType] /\ method'[c] = new /\ \A d \in Callers : d # c => method'[d] = method[d]
    BY <1>1, <1>2 DEF HookInv, HookType
<1>4. HookType'
    BY <1>1, <1>2, <1>3 DEF HookInv, HookType
<1>5. MutexInv'
    BY <1>1, <1>2, <1>3 DEF HookInv, MutexInv, MutexPlaces
<1>6. AloneInv'
    <2> SUFFICES ASSUME ~overlap' PROVE AloneInv'
        BY DEF AloneInv
    <2>1. ~overlap /\ \A d \in Callers \ {c} : method[d].pc \in LocalPlaces => method[d].instance # i
        BY <1>1 DEF HookInv, HookType, Resolving, LocalPlaces
    <2>2. method[c].pc = "idle"
        BY <1>1 DEF Idle
    <2>3. QED
        BY <1>1, <1>2, <1>3, <2>1, <2>2 DEF HookInv, AloneInv, LocalPlaces
<1>7. QED
    BY <1>4, <1>5, <1>6 DEF HookInv

LEMMA SetResolverInv ==
    ASSUME HookInv, NEW c \in Callers, SetResolver(c)
    PROVE  HookInv'
<1> DEFINE i == method[c].instance
<1>0. At(c, "resolver", "lookup")
    BY DEF SetResolver
<1>1. /\ resolver' = [resolver EXCEPT ![i] = method[c].resolver]
      /\ UNCHANGED <<lookupFunc, rawQueryFunc, systemDialer, hook, mutex, overlap>>
    BY DEF SetResolver, localdnsVars, dialerVars
<1>2. /\ method[c].pc = "resolver" /\ method' \in [Callers -> MethodType]
      /\ method'[c].pc = "lookup" /\ method'[c].instance = i
      /\ \A d \in Callers : d # c => method'[d] = method[d]
      /\ method[c] \in MethodType /\ i \in Instances
    BY <1>0, AtFacts DEF LocalPlaces
<1> HIDE DEF i
<1>3. HookType'
    BY <1>1, <1>2 DEF HookInv, HookType, MethodType
<1>4. MutexInv'
    BY <1>1, <1>2 DEF HookInv, MutexInv, MutexPlaces
<1>5. AloneInv'
    <2> SUFFICES ASSUME ~overlap PROVE AloneInv'
        BY <1>1 DEF AloneInv
    <2>1. \A d \in Callers : method[d].pc \in {"lock", "make", "store"} => method[d].instance # i
        BY <1>2 DEF HookInv, AloneInv, LocalPlaces, i
    <2>2. \A d \in Callers : method'[d].pc \in {"lock", "make", "store"} =>
              resolver'[method'[d].instance] # Nil
        BY <1>1, <1>2, <2>1 DEF HookInv, HookType, AloneInv
    <2>3. QED
        BY <1>1, <1>2, <2>2 DEF HookInv, AloneInv, LocalPlaces, i
<1>6. QED
    BY <1>3, <1>4, <1>5 DEF HookInv

LEMMA SetLookupFuncInv ==
    ASSUME HookInv, NEW c \in Callers, SetLookupFunc(c)
    PROVE  HookInv'
<1>0. At(c, "lookup", "raw")
    BY DEF SetLookupFunc
<1>1. /\ lookupFunc' = method[c].resolver
      /\ UNCHANGED <<resolver, rawQueryFunc, systemDialer, hook, mutex, overlap>>
    BY DEF SetLookupFunc, dialerVars
<1>2. /\ method[c].pc = "lookup" /\ method' \in [Callers -> MethodType]
      /\ method'[c].pc = "raw" /\ method'[c].instance = method[c].instance
      /\ method'[c].resolver = method[c].resolver
      /\ \A d \in Callers : d # c => method'[d] = method[d]
      /\ method[c] \in MethodType /\ method[c].instance \in Instances
    BY <1>0, AtFacts DEF LocalPlaces
<1>3. HookType'
    BY <1>1, <1>2 DEF HookInv, HookType, MethodType
<1>4. MutexInv'
    BY <1>1, <1>2 DEF HookInv, MutexInv, MutexPlaces
<1>5. AloneInv'
    <2> SUFFICES ASSUME ~overlap PROVE AloneInv'
        BY <1>1 DEF AloneInv
    <2>1. \A d \in Callers : d # c => method[d].pc # "raw"
        BY <1>2 DEF HookInv, AloneInv, LocalPlaces
    <2>2. QED
        BY <1>1, <1>2, <2>1 DEF HookInv, AloneInv, LocalPlaces
<1>6. QED
    BY <1>3, <1>4, <1>5 DEF HookInv

LEMMA SetRawQueryFuncInv ==
    ASSUME HookInv, NEW c \in Callers, SetRawQueryFunc(c)
    PROVE  HookInv'
<1>0. Leaves(c, "raw")
    BY DEF SetRawQueryFunc
<1>1. /\ rawQueryFunc' = IF method[c].resolver \in Exchanging \cup {Nil} THEN method[c].resolver ELSE rawQueryFunc
      /\ UNCHANGED <<resolver, lookupFunc, systemDialer, hook, mutex, overlap>>
    BY DEF SetRawQueryFunc, dialerVars
<1>2. /\ method[c].pc = "raw" /\ method' \in [Callers -> MethodType] /\ method'[c].pc = "idle"
      /\ \A d \in Callers : d # c => method'[d] = method[d]
      /\ method[c] \in MethodType
    BY <1>0, LeavesFacts
<1>3. HookType'
    BY <1>1, <1>2 DEF HookInv, HookType, MethodType
<1>4. MutexInv'
    BY <1>1, <1>2 DEF HookInv, MutexInv, MutexPlaces
<1>5. AloneInv'
    <2> SUFFICES ASSUME ~overlap PROVE AloneInv'
        BY <1>1 DEF AloneInv
    <2>1. lookupFunc = method[c].resolver /\ method[c].resolver \in Resolvers \cup {Nil}
        BY <1>2 DEF HookInv, AloneInv, MethodType, MaybeResolvers
    <2>2. rawQueryFunc' = lookupFunc' \/ lookupFunc' \in Resolvers \ Exchanging
        BY <1>1, <2>1
    <2>3. QED
        BY <1>1, <1>2, <2>2 DEF HookInv, AloneInv, LocalPlaces
<1>6. QED
    BY <1>3, <1>4, <1>5 DEF HookInv

LEMMA LockInv ==
    ASSUME HookInv, NEW c \in Callers, Lock(c)
    PROVE  HookInv'
<1>0. At(c, "lock", "make")
    BY DEF Lock
<1>1. mutex = Nil /\ mutex' = c /\ UNCHANGED <<resolver, lookupFunc, rawQueryFunc, systemDialer, hook, overlap>>
    BY DEF Lock, localdnsVars
<1>2. /\ method[c].pc = "lock" /\ method' \in [Callers -> MethodType]
      /\ method'[c].pc = "make" /\ method'[c].instance = method[c].instance
      /\ \A d \in Callers : d # c => method'[d] = method[d]
      /\ method[c].instance \in Instances
    BY <1>0, AtFacts DEF MutexPlaces
<1>3. HookType'
    BY <1>1, <1>2 DEF HookInv, HookType
<1>4. \A d \in Callers : method[d].pc \notin MutexPlaces
    BY <1>1, ResolverAssumption DEF HookInv, MutexInv
<1>5. MutexInv'
    BY <1>1, <1>2, <1>4 DEF HookInv, MutexInv, MutexPlaces
<1>6. AloneInv'
    BY <1>1, <1>2 DEF HookInv, AloneInv, LocalPlaces
<1>7. QED
    BY <1>3, <1>5, <1>6 DEF HookInv

LEMMA MakeDialerInv ==
    ASSUME HookInv, NEW c \in Callers, MakeDialer(c)
    PROVE  HookInv'
<1>1. UNCHANGED <<resolver, lookupFunc, rawQueryFunc, systemDialer, hook, mutex, overlap>>
    BY DEF MakeDialer, localdnsVars, dialerVars
<1>2. PICK at \in {"store", "use"} :
          /\ At(c, "make", at)
          /\ at = "store" => systemDialer[method[c].path] = NoDialerSet
    BY DEF MakeDialer
<1>3. /\ method[c].pc = "make" /\ method' \in [Callers -> MethodType]
      /\ method'[c].pc = at /\ method'[c].instance = method[c].instance /\ method'[c].path = method[c].path
      /\ \A d \in Callers : d # c => method'[d] = method[d]
      /\ method[c].instance \in Instances
    BY <1>2, AtFacts DEF MutexPlaces
<1>4. HookType'
    BY <1>1, <1>2, <1>3 DEF HookInv, HookType
<1>5. MutexInv'
    BY <1>1, <1>2, <1>3 DEF HookInv, MutexInv, MutexPlaces
<1>6. AloneInv'
    BY <1>1, <1>2, <1>3 DEF HookInv, AloneInv, LocalPlaces
<1>7. QED
    BY <1>4, <1>5, <1>6 DEF HookInv

LEMMA StoreDialerInv ==
    ASSUME HookInv, NEW c \in Callers, StoreDialer(c)
    PROVE  HookInv'
<1> DEFINE p == method[c].path
           i == method[c].instance
           new == [path |-> p, resolver |-> resolver[i], maker |-> c]
<1>0. At(c, "store", "use")
    BY DEF StoreDialer
<1>1. /\ systemDialer' = [systemDialer EXCEPT ![p] = new]
      /\ UNCHANGED <<resolver, lookupFunc, rawQueryFunc, hook, mutex, overlap>>
    BY DEF StoreDialer, localdnsVars
<1>2. /\ method[c].pc = "store" /\ method' \in [Callers -> MethodType]
      /\ method'[c].pc = "use" /\ method'[c].instance = i /\ method'[c].path = p
      /\ \A d \in Callers : d # c => method'[d] = method[d]
      /\ method[c] \in MethodType /\ i \in Instances
    BY <1>0, AtFacts DEF MutexPlaces
<1>3. p \in Paths /\ new \in DialerType /\ new.path = p /\ new.resolver = resolver[i]
    BY <1>2 DEF HookInv, HookType, DialerType, MethodType
<1> HIDE DEF p, i, new
<1>4. HookType'
    BY <1>1, <1>2, <1>3 DEF HookInv, HookType
<1>5. MutexInv'
    <2>1. /\ systemDialer[p] = NoDialerSet
          /\ \A d \in Callers : d # c => method[d].pc \notin MutexPlaces
        BY <1>2 DEF HookInv, MutexInv, MutexPlaces, p
    <2>2. hook.path # p
        <3> SUFFICES ASSUME hook.path = p PROVE FALSE
            OBVIOUS
        <3>1. hook = NoDialerSet
            BY <1>3, <2>1 DEF HookInv, MutexInv
        <3>2. QED
            BY <1>3, <3>1 DEF NoDialerSet, Paths
    <2>3. /\ systemDialer'[p].path = p /\ \A q \in Paths \ {p} : systemDialer'[q] = systemDialer[q]
        BY <1>1, <1>3 DEF HookInv, HookType
    <2>4. QED
        BY <1>1, <1>2, <2>1, <2>2, <2>3 DEF HookInv, MutexInv, MutexPlaces
<1>6. AloneInv'
    <2> SUFFICES ASSUME ~overlap PROVE AloneInv'
        BY <1>1 DEF AloneInv
    <2>1. resolver[i] # Nil
        BY <1>2 DEF HookInv, AloneInv, i
    <2>2. \A q \in Paths : systemDialer'[q] # NoDialerSet => systemDialer'[q].resolver # Nil
        BY <1>1, <1>3, <2>1 DEF HookInv, HookType, AloneInv
    <2>3. QED
        BY <1>1, <1>2, <2>2 DEF HookInv, AloneInv, LocalPlaces, i
<1>7. QED
    BY <1>4, <1>5, <1>6 DEF HookInv

LEMMA UseDialerInv ==
    ASSUME HookInv, NEW c \in Callers, UseDialer(c)
    PROVE  HookInv'
<1>0. At(c, "use", "unlock")
    BY DEF UseDialer
<1>1. /\ hook' = systemDialer[method[c].path]
      /\ UNCHANGED <<resolver, lookupFunc, rawQueryFunc, systemDialer, mutex, overlap>>
    BY DEF UseDialer, localdnsVars
<1>2. /\ method[c].pc = "use" /\ method' \in [Callers -> MethodType]
      /\ method'[c].pc = "unlock" /\ method'[c].instance = method[c].instance
      /\ \A d \in Callers : d # c => method'[d] = method[d]
      /\ method[c] \in MethodType /\ method[c].instance \in Instances
    BY <1>0, AtFacts DEF MutexPlaces
<1>3. method[c].path \in Paths
    BY <1>2 DEF MethodType
<1>4. HookType'
    BY <1>1, <1>2, <1>3 DEF HookInv, HookType
<1>5. MutexInv'
    <2>1. hook'.path \in Paths => hook' = systemDialer[hook'.path]
        <3>1. CASE hook' = NoDialerSet
            BY <3>1 DEF NoDialerSet, Paths
        <3>2. CASE hook' # NoDialerSet
            BY <1>1, <1>3, <3>2 DEF HookInv, MutexInv
        <3>3. QED
            BY <3>1, <3>2
    <2>2. QED
        BY <1>1, <1>2, <2>1 DEF HookInv, MutexInv, MutexPlaces
<1>6. AloneInv'
    BY <1>1, <1>2 DEF HookInv, AloneInv, LocalPlaces
<1>7. QED
    BY <1>4, <1>5, <1>6 DEF HookInv

LEMMA UnlockInv ==
    ASSUME HookInv, NEW c \in Callers, Unlock(c)
    PROVE  HookInv'
<1>0. Leaves(c, "unlock")
    BY DEF Unlock
<1>1. mutex' = Nil /\ UNCHANGED <<resolver, lookupFunc, rawQueryFunc, systemDialer, hook, overlap>>
    BY DEF Unlock, localdnsVars
<1>2. /\ method[c].pc = "unlock" /\ method' \in [Callers -> MethodType] /\ method'[c].pc = "idle"
      /\ \A d \in Callers : d # c => method'[d] = method[d]
    BY <1>0, LeavesFacts
<1>3. HookType'
    BY <1>1, <1>2 DEF HookInv, HookType
<1>4. \A d \in Callers : d # c => method[d].pc \notin MutexPlaces
    BY <1>2 DEF HookInv, MutexInv, MutexPlaces
<1>5. MutexInv'
    BY <1>1, <1>2, <1>4 DEF HookInv, MutexInv, MutexPlaces
<1>6. AloneInv'
    BY <1>1, <1>2 DEF HookInv, AloneInv, LocalPlaces
<1>7. QED
    BY <1>3, <1>5, <1>6 DEF HookInv

LEMMA TunSetsDialerInv ==
    ASSUME HookInv, NEW dialer \in {TunsDialer, NoDialerSet}, TunSetsDialer(dialer)
    PROVE  HookInv'
<1>1. /\ hook' = dialer
      /\ UNCHANGED <<resolver, lookupFunc, rawQueryFunc, systemDialer, mutex, method, overlap>>
    BY DEF TunSetsDialer, localdnsVars
<1>2. dialer \in DialerType /\ dialer.path \notin Paths
    BY DEF TunsDialer, NoDialerSet, DialerType, MaybeResolvers, Paths
<1>3. HookType' /\ MutexInv' /\ AloneInv'
    BY <1>1, <1>2 DEF HookInv, HookType, MutexInv, AloneInv
<1>4. QED
    BY <1>3 DEF HookInv

LEMMA HookNextInv == HookInv /\ [HookNext]_hookVars => HookInv'
<1> SUFFICES ASSUME HookInv, [HookNext]_hookVars PROVE HookInv'
    OBVIOUS
<1>1. CASE HookNext
    BY <1>1, WithLocalResolverInv, WithAlternativeSystemDialerInv, SetResolverInv, SetLookupFuncInv,
       SetRawQueryFuncInv, LockInv, MakeDialerInv, StoreDialerInv, UseDialerInv, UnlockInv, TunSetsDialerInv
       DEF HookNext, MaybeResolvers
<1>2. CASE UNCHANGED hookVars
    BY <1>2 DEF hookVars, localdnsVars, dialerVars, HookInv, HookType, MutexInv, AloneInv
<1>3. QED
    BY <1>1, <1>2

(* A dialer in use is the one the process keeps for its path, whoever makes *)
(* one at the same time; and as long as no two calls overlap, it has a      *)
(* resolver and both functions of localdns are of one (v2ray.go:95-163).    *)
THEOREM SharedHooksAlwaysAgree == AppSpec => []SharedHooksAgree
<1>1. AppInit => HookInv
    BY HookInitInv DEF AppInit
<1>2. [AppNext]_all => [HookNext]_hookVars
    BY DEF AppNext, all, Dial
<1>3. HookInv => SharedHooksAgree
    <2> SUFFICES ASSUME HookInv PROVE SharedHooksAgree
        OBVIOUS
    <2>1. (\E c \in Callers : method[c].pc = "raw") => \E c \in Callers : method[c] # Idle
        BY DEF Idle
    <2>2. QED
        BY <2>1 DEF HookInv, MutexInv, AloneInv, SharedHooksAgree
<1>4. QED
    BY <1>1, <1>2, <1>3, HookNextInv, PTL DEF AppSpec

-----------------------------------------------------------------------------
(* UidLookup: its inductive invariant.                                      *)

UidType ==
    /\ open \subseteq DOMAIN Rows /\ left \subseteq DOMAIN Rows /\ stable \subseteq open
    /\ index \in {"unset", "set", "failed"}
    /\ call \in {"idle", "init", "open", "scan", "done"}
    /\ v4 \in BOOLEAN /\ blind \in BOOLEAN
    /\ table \in Tables
    /\ next \in 1 .. Len(Rows) + 1
    /\ best \in [rank : {0, 2, 3}, uid : Nat \cup {Unknown}]
    /\ seen \subseteq [row : DOMAIN Rows, uid : Nat]

(* What the rows that are there say, and those that were: a row of a socket *)
(* that stays names its user, and no other is as exact as an exact one.     *)
RowsInv ==
    /\ open \cap left = {}
    /\ \A i, j \in open \cup left : Exact(i) /\ Exact(j) => i = j
    /\ \A i \in stable : Bound(i)
    /\ call # "idle" => \A i \in open \cup left : Bound(i) => Says(i, UserOf(i)) \in seen

SeenInv ==
    \A e \in seen, i \in stable :
        /\ e.row = i => e.uid = Rows[i].uid
        /\ Exact(e.row) /\ Exact(i) => e.row = i

(* The answer so far is of a row that was there. *)
BestInv ==
    /\ best.rank > 0 <=> best.uid # Unknown
    /\ best.uid # Unknown => \E e \in seen : e.uid = best.uid
    /\ call \in {"open", "scan"} => best.rank < 3
    /\ call \in {"init", "open"} => best = NoMatch

TableInv ==
    /\ call \in {"open", "scan"} => index = "set"
    /\ call \in {"open", "scan"} /\ table = "4" => v4

(* Of the rows that it has read in this table it has the best, and of those *)
(* as good the first; if it could read the first table and has not found    *)
(* anything there, no socket there has stayed.                              *)
FromRow(e) ==
    /\ e.uid = best.uid /\ Rows[e.row].table = table /\ Rank(e.row) = best.rank
    /\ \A i \in stable : Rows[i].table = table /\ Rank(i) = best.rank => e.row <= i

ScanInv ==
    /\ call = "scan" =>
          /\ \A i \in stable : Rows[i].table = table /\ i < next => Rank(i) <= best.rank
          /\ best.rank > 0 => \E e \in seen : FromRow(e)
    /\ call \in {"open", "scan"} /\ table # First /\ ~blind => \A i \in stable : Rows[i].table # First

Named(i) == best.uid = Rows[i].uid \/ \E e \in seen : e.uid = best.uid /\ Hides(e.row, i)

NamedInv ==
    call = "done" /\ index = "set" /\ ~blind => \A i \in stable : Rows[i].table \in Searched => Named(i)

UidInv == UidType /\ RowsInv /\ SeenInv /\ BestInv /\ TableInv /\ ScanInv /\ NamedInv

LEMMA RowFacts ==
    /\ Len(Rows) \in Nat /\ DOMAIN Rows = 1 .. Len(Rows)
    /\ \A i \in DOMAIN Rows :
          /\ Rows[i].table \in Tables /\ Rows[i].uid \in Nat /\ Rows[i].uid # Nobody
          /\ Rank(i) \in {0, 2, 3} /\ (Bound(i) <=> Rank(i) # 0) /\ (Exact(i) <=> Rank(i) = 3)
          /\ UserOf(i) \in Nat
<1> DEFINE Row == [table : Tables, local : {"source", "any"}, remote : {"dest", "other", "none"},
                   uid : Nat \ {Nobody}]
<1>1. Rows \in Seq(Row)
    BY SocketAssumption
<1> HIDE DEF Row
<1>2. Len(Rows) \in Nat /\ DOMAIN Rows = 1 .. Len(Rows) /\ \A i \in DOMAIN Rows : Rows[i] \in Row
    BY <1>1
<1>3. \A i \in DOMAIN Rows : Rows[i].table \in Tables /\ Rows[i].uid \in Nat /\ Rows[i].uid # Nobody
    BY <1>2 DEF Row
<1>4. \A i \in DOMAIN Rows :
         Rank(i) \in {0, 2, 3} /\ (Bound(i) <=> Rank(i) # 0) /\ (Exact(i) <=> Rank(i) = 3)
    BY DEF Rank, Exact
<1>5. \A i \in DOMAIN Rows : UserOf(i) \in Nat
    BY <1>3 DEF UserOf, Nobody
<1>6. QED
    BY <1>2, <1>3, <1>4, <1>5

LEMMA SaysIs ==
    \A i, u : Says(i, u).row = i /\ Says(i, u).uid = u
BY DEF Says

(* A row that was there, and is no worse than that of i, names its user or  *)
(* hides it.                                                                *)
LEMMA RowNames ==
    ASSUME UidType, SeenInv, NEW i \in stable, NEW e \in seen, e.uid = best.uid,
           \/ Rows[e.row].table = Rows[i].table /\ (Rank(e.row) > Rank(i) \/ (Rank(e.row) = Rank(i) /\ e.row <= i))
           \/ Rows[e.row].table # Rows[i].table /\ Rows[e.row].table = First
    PROVE  Named(i)
<1>1. /\ i \in DOMAIN Rows /\ e.row \in DOMAIN Rows /\ i \in Int /\ e.row \in Int
      /\ Rank(i) \in {0, 2, 3} /\ Rank(e.row) \in {0, 2, 3}
      /\ Exact(i) <=> Rank(i) = 3
      /\ Exact(e.row) <=> Rank(e.row) = 3
    BY RowFacts DEF UidType
<1>2. CASE e.row = i
    BY <1>2 DEF SeenInv, Named
<1>3. CASE e.row # i
    <2>1. Rank(e.row) < 3 \/ Rank(i) < 3
        BY <1>1, <1>3 DEF SeenInv
    <2>2. Hides(e.row, i)
        BY <1>1, <1>3, <2>1 DEF Hides
    <2>3. QED
        BY <2>2 DEF Named
<1>4. QED
    BY <1>2, <1>3

LEMMA UidInitInv == UidInit => UidInv
<1> SUFFICES ASSUME UidInit PROVE UidInv
    OBVIOUS
<1>1. UidType
    <2>1. next \in 1 .. Len(Rows) + 1 /\ best \in [rank : {0, 2, 3}, uid : Nat \cup {Unknown}]
        BY RowFacts DEF UidInit, NoMatch
    <2>2. QED
        BY <2>1 DEF UidInit, UidType, Tables
<1>2. RowsInv /\ SeenInv
    BY DEF UidInit, RowsInv, SeenInv
<1>3. BestInv /\ TableInv /\ ScanInv /\ NamedInv
    BY DEF UidInit, BestInv, TableInv, ScanInv, NamedInv, NoMatch, Unknown
<1>4. QED
    BY <1>1, <1>2, <1>3 DEF UidInv

(* A step of the kernel: the lookup has read what it has read. *)
LEMMA KernelKeeps ==
    ASSUME UidInv, stable' \subseteq stable, seen \subseteq seen',
           UNCHANGED <<index, call, tcp, v4, table, next, best, calls, blind>>
    PROVE  BestInv' /\ TableInv' /\ ScanInv' /\ NamedInv'
<1>1. BestInv' /\ TableInv'
    BY DEF UidInv, BestInv, TableInv
<1>2. \A e \in seen : FromRow(e) => FromRow(e)'
    BY DEF FromRow
<1>3. ScanInv'
    BY <1>2 DEF UidInv, ScanInv, First
<1>4. \A i \in stable : Named(i) => Named(i)'
    BY DEF Named, Hides, First
<1>5. NamedInv'
    BY <1>4 DEF UidInv, NamedInv, Searched
<1>6. QED
    BY <1>1, <1>3, <1>5

LEMMA AppOpensInv ==
    ASSUME UidInv, NEW i \in DOMAIN Rows, AppOpens(i)
    PROVE  UidInv'
<1>1. /\ i \notin open \cup left /\ (Exact(i) => \A j \in open \cup left : ~Exact(j))
      /\ open' = open \cup {i} /\ seen' = IF Bound(i) THEN seen \cup {Says(i, Rows[i].uid)} ELSE seen
      /\ UNCHANGED <<left, index, call, tcp, v4, table, next, best, calls, stable, blind>>
    BY DEF AppOpens
<1>2. Says(i, Rows[i].uid) \in [row : DOMAIN Rows, uid : Nat]
    BY RowFacts DEF Says
<1>3. UidType'
    BY <1>1, <1>2 DEF UidInv, UidType
<1>4. RowsInv'
    <2>1. \A j \in open \cup left : UserOf(j)' = UserOf(j)
        BY <1>1 DEF UserOf
    <2>2. UserOf(i)' = Rows[i].uid
        BY <1>1 DEF UserOf
    <2>3. call' # "idle" => \A j \in open' \cup left' : Bound(j) => Says(j, UserOf(j)') \in seen'
        BY <1>1, <2>1, <2>2 DEF UidInv, RowsInv
    <2>4. \A j, k \in open' \cup left' : Exact(j) /\ Exact(k) => j = k
        BY <1>1 DEF UidInv, RowsInv
    <2>5. QED
        BY <1>1, <2>3, <2>4 DEF UidInv, RowsInv
<1>5. SeenInv'
    <2>1. \A j \in stable : j # i /\ j \in open
        BY <1>1 DEF UidInv, UidType
    <2>2. QED
        BY <1>1, <2>1, SaysIs DEF UidInv, SeenInv
<1>6. BestInv' /\ TableInv' /\ ScanInv' /\ NamedInv'
    BY <1>1, KernelKeeps
<1>7. QED
    BY <1>3, <1>4, <1>5, <1>6 DEF UidInv

LEMMA AppClosesInv ==
    ASSUME UidInv, NEW i \in DOMAIN Rows, NEW leaves \in BOOLEAN, AppCloses(i, leaves)
    PROVE  UidInv'
<1>1. /\ i \in open /\ open' = open \ {i} /\ stable' = stable \ {i}
      /\ left' = IF leaves THEN left \cup {i} ELSE left
      /\ seen' = IF leaves /\ Bound(i) THEN seen \cup {Says(i, Nobody)} ELSE seen
      /\ UNCHANGED <<index, call, tcp, v4, table, next, best, calls, blind>>
    BY DEF AppCloses
<1>2. Says(i, Nobody) \in [row : DOMAIN Rows, uid : Nat]
    BY DEF Says, Nobody
<1>3. UidType'
    BY <1>1, <1>2 DEF UidInv, UidType
<1>4. RowsInv'
    <2>1. \A j \in open' \cup left' : j # i => UserOf(j)' = UserOf(j) /\ j \in open \cup left
        BY <1>1 DEF UserOf
    <2>2. i \in left' => leaves /\ UserOf(i)' = Nobody
        BY <1>1 DEF UidInv, RowsInv, UserOf
    <2>3. i \notin open' /\ open' \cap left' = {} /\ open' \cup left' \subseteq open \cup left
        BY <1>1 DEF UidInv, RowsInv
    <2>4. call' # "idle" => \A j \in open' \cup left' : Bound(j) => Says(j, UserOf(j)') \in seen'
        BY <1>1, <2>1, <2>2, <2>3 DEF UidInv, RowsInv
    <2>5. QED
        BY <1>1, <2>3, <2>4 DEF UidInv, RowsInv
<1>5. SeenInv'
    <2>1. \A j \in stable' : j # i /\ j \in open
        BY <1>1 DEF UidInv, UidType
    <2>2. \A j \in stable' : Exact(j) => ~Exact(i)
        BY <1>1, <2>1 DEF UidInv, RowsInv
    <2>3. QED
        BY <1>1, <2>1, <2>2, SaysIs DEF UidInv, SeenInv
<1>6. BestInv' /\ TableInv' /\ ScanInv' /\ NamedInv'
    BY <1>1, KernelKeeps
<1>7. QED
    BY <1>3, <1>4, <1>5, <1>6 DEF UidInv

LEMMA RowExpiresInv ==
    ASSUME UidInv, NEW i \in DOMAIN Rows, RowExpires(i)
    PROVE  UidInv'
<1>1. /\ i \in left /\ left' = left \ {i}
      /\ UNCHANGED <<open, index, call, tcp, v4, table, next, best, calls, stable, seen, blind>>
    BY DEF RowExpires
<1>2. UidType' /\ SeenInv'
    BY <1>1 DEF UidInv, UidType, SeenInv
<1>3. RowsInv'
    <2>1. \A j \in open' \cup left' : UserOf(j)' = UserOf(j)
        BY <1>1 DEF UidInv, RowsInv, UserOf
    <2>2. QED
        BY <1>1, <2>1 DEF UidInv, RowsInv
<1>4. BestInv' /\ TableInv' /\ ScanInv' /\ NamedInv'
    BY <1>1, KernelKeeps
<1>5. QED
    BY <1>2, <1>3, <1>4 DEF UidInv

LEMMA QueryInv ==
    ASSUME UidInv, NEW ip4 \in BOOLEAN, Query(ip4)
    PROVE  UidInv'
<1>1. /\ call \in {"idle", "done"} /\ call' = "init" /\ v4' = ip4 /\ best' = NoMatch /\ blind' = FALSE
      /\ stable' = {i \in open : Bound(i)}
      /\ seen' = {Says(i, UserOf(i)) : i \in {j \in open \cup left : Bound(j)}}
      /\ UNCHANGED <<open, left, index, tcp, table, next>>
    BY DEF Query, kernelVars
<1>2. \A e \in seen' : \E i \in open \cup left : e.row = i /\ e.uid = UserOf(i) /\ e = Says(i, UserOf(i))
    BY <1>1, SaysIs
<1>3. UidType'
    <2>1. \A i \in open \cup left : Says(i, UserOf(i)) \in [row : DOMAIN Rows, uid : Nat]
        BY RowFacts DEF Says, UidInv, UidType
    <2>2. seen' \subseteq [row : DOMAIN Rows, uid : Nat]
        BY <1>2, <2>1
    <2>3. QED
        BY <1>1, <2>2 DEF UidInv, UidType, NoMatch
<1>4. RowsInv'
    <2>1. \A i \in open \cup left : UserOf(i)' = UserOf(i)
        BY <1>1 DEF UserOf
    <2>2. QED
        BY <1>1, <2>1 DEF UidInv, RowsInv
<1>5. SeenInv'
    <2>1. \A i \in open : UserOf(i) = Rows[i].uid
        BY DEF UidInv, RowsInv, UserOf
    <2>2. QED
        BY <1>1, <1>2, <2>1 DEF UidInv, RowsInv, SeenInv
<1>6. BestInv' /\ TableInv' /\ ScanInv' /\ NamedInv'
    BY <1>1 DEF BestInv, TableInv, ScanInv, NamedInv, NoMatch, Unknown
<1>7. QED
    BY <1>3, <1>4, <1>5, <1>6 DEF UidInv

LEMMA LookupKeepsRows ==
    ASSUME UidInv, UNCHANGED <<open, left, stable, seen>>, call # "idle"
    PROVE  RowsInv' /\ SeenInv'
<1>1. \A i \in open \cup left : UserOf(i)' = UserOf(i)
    BY DEF UserOf
<1>2. QED
    BY <1>1 DEF UidInv, RowsInv, SeenInv

LEMMA InitOnceInv ==
    ASSUME UidInv, InitOnce
    PROVE  UidInv'
<1>1. /\ call = "init" /\ index' \in {"unset", "set", "failed"} /\ (index' = "unset" => index = "unset")
      /\ call' = (IF index' = "set" THEN "open" ELSE "done") /\ table' = (IF v4 THEN "4" ELSE "6")
      /\ UNCHANGED <<open, left, tcp, v4, next, best, calls, stable, seen, blind>>
    BY DEF InitOnce, kernelVars, UidInv, UidType
<1>2. UidType' /\ RowsInv' /\ SeenInv'
    BY <1>1, LookupKeepsRows DEF UidInv, UidType, Tables
<1>3. BestInv' /\ TableInv'
    BY <1>1 DEF UidInv, BestInv, TableInv, NoMatch, Unknown
<1>4. ScanInv' /\ NamedInv'
    BY <1>1 DEF ScanInv, NamedInv, First
<1>5. QED
    BY <1>2, <1>3, <1>4 DEF UidInv

LEMMA OpenTableInv ==
    ASSUME UidInv, OpenTable
    PROVE  UidInv'
<1>1. /\ call = "open" /\ call' = "scan" /\ next' = 1
      /\ UNCHANGED <<open, left, index, tcp, v4, table, best, calls, stable, seen, blind>>
    BY DEF OpenTable, UidGoto, kernelVars
<1>2. UidType' /\ RowsInv' /\ SeenInv'
    BY <1>1, RowFacts, LookupKeepsRows DEF UidInv, UidType
<1>3. BestInv' /\ TableInv' /\ NamedInv'
    BY <1>1 DEF UidInv, BestInv, TableInv, NamedInv
<1>4. ScanInv'
    <2>1. best.rank = 0 /\ best' = best /\ next' = 1
        BY <1>1 DEF UidInv, BestInv, NoMatch
    <2>2. \A i \in stable' : ~(i < next')
        BY <1>1, RowFacts DEF UidInv, UidType
    <2>3. QED
        BY <1>1, <2>1, <2>2 DEF UidInv, ScanInv, First
<1>5. QED
    BY <1>2, <1>3, <1>4 DEF UidInv

(* Whatever ends a table that could be read, every row of it was passed. *)
LEMMA FinishInv ==
    ASSUME UidInv, call \in {"open", "scan"}, Finish,
           blind' \/ (blind' = blind /\ call = "scan" /\ next \notin DOMAIN Rows), blind' \in BOOLEAN,
           UNCHANGED <<open, left, index, tcp, v4, next, best, calls, stable, seen>>
    PROVE  UidInv'
<1>1. \/ table = "4" /\ best.uid = Unknown /\ call' = "open" /\ table' = "6"
      \/ ~(table = "4" /\ best.uid = Unknown) /\ call' = "done" /\ table' = table
    BY DEF Finish
<1>2. UidType' /\ RowsInv' /\ SeenInv'
    BY <1>1, LookupKeepsRows DEF UidInv, UidType, Tables
<1>3. BestInv' /\ TableInv'
    <2>1. best \in [rank : {0, 2, 3}, uid : Nat \cup {Unknown}]
        BY DEF UidInv, UidType
    <2>2. best.uid = Unknown => best = NoMatch
        BY <2>1 DEF UidInv, BestInv, NoMatch
    <2>3. QED
        BY <1>1, <2>2 DEF UidInv, BestInv, TableInv
<1>4. ASSUME ~blind', NEW i \in stable, Rows[i].table = table
      PROVE  /\ best.rank > 0
             /\ Rank(i) \in {2, 3} /\ Rank(i) <= best.rank
    <2>1. ~blind /\ call = "scan" /\ next = Len(Rows) + 1 /\ i \in 1 .. Len(Rows)
        BY <1>4, RowFacts DEF UidInv, UidType
    <2>2. Rank(i) \in {2, 3}
        BY RowFacts DEF UidInv, UidType, RowsInv
    <2>3. Rank(i) <= best.rank
        BY <1>4, <2>1 DEF UidInv, ScanInv
    <2>4. best.rank \in {0, 2, 3}
        BY DEF UidInv, UidType
    <2>5. QED
        BY <2>2, <2>3, <2>4
<1>5. ScanInv'
    <2>1. CASE call' = "open"
        <3>1. best.rank = 0 /\ table = "4" /\ v4 /\ table' = "6"
            BY <1>1, <2>1 DEF UidInv, BestInv, TableInv, UidType
        <3>2. ~blind' => \A i \in stable : Rows[i].table # "4"
            BY <1>4, <3>1
        <3>3. QED
            BY <2>1, <3>1, <3>2 DEF ScanInv, First
    <2>2. CASE call' = "done"
        BY <2>2 DEF ScanInv
    <2>3. QED
        BY <1>1, <2>1, <2>2
<1>6. NamedInv'
    <2> SUFFICES ASSUME call' = "done", ~blind', NEW i \in stable, Rows[i].table \in Searched
                 PROVE  Named(i)
        BY DEF NamedInv, Searched, Named, Hides, First
    <2>1. ~blind /\ call = "scan" /\ ~(table = "4" /\ best.uid = Unknown)
        BY <1>1 DEF UidInv, UidType
    <2>2. Rows[i].table \in Tables /\ table \in Tables /\ best.rank \in {0, 2, 3} /\ i \in DOMAIN Rows
        BY RowFacts DEF UidInv, UidType
    <2>3. Rows[i].table # table => table = First /\ table = "4"
        BY <2>1, <2>2 DEF UidInv, ScanInv, Tables, First, Searched
    <2>4. best.rank > 0
        BY <1>4, <2>1, <2>2, <2>3 DEF UidInv, BestInv
    <2>5. PICK e \in seen : FromRow(e)
        BY <2>1, <2>4 DEF UidInv, ScanInv
    <2>6. e.uid = best.uid /\ Rows[e.row].table = table /\ Rank(e.row) = best.rank
        BY <2>5 DEF FromRow
    <2>7. Rows[i].table = table => Rank(e.row) > Rank(i) \/ (Rank(e.row) = Rank(i) /\ e.row <= i)
        <3> SUFFICES ASSUME Rows[i].table = table
                     PROVE  Rank(e.row) > Rank(i) \/ (Rank(e.row) = Rank(i) /\ e.row <= i)
            OBVIOUS
        <3>1. Rank(i) \in {2, 3} /\ Rank(i) <= best.rank
            BY <1>4
        <3>2. Rank(i) = best.rank => e.row <= i
            BY <2>5 DEF FromRow
        <3>3. QED
            BY <2>2, <2>6, <3>1, <3>2
    <2>8. QED
        BY <2>3, <2>6, <2>7, RowNames DEF UidInv
<1>7. QED
    BY <1>2, <1>3, <1>5, <1>6 DEF UidInv

LEMMA OpenFailsInv ==
    ASSUME UidInv, OpenFails
    PROVE  UidInv'
BY FinishInv DEF OpenFails, kernelVars

LEMMA TableEndsInv ==
    ASSUME UidInv, TableEnds
    PROVE  UidInv'
BY FinishInv DEF TableEnds, kernelVars, UidInv, UidType

LEMMA NoRowInv ==
    ASSUME UidInv, NoRow
    PROVE  UidInv'
<1>1. /\ call = "scan" /\ next \in DOMAIN Rows
      /\ Rows[next].table # table \/ next \notin open \cup left
      /\ next' = next + 1
      /\ UNCHANGED <<open, left, index, call, tcp, v4, table, best, calls, stable, seen, blind>>
    BY DEF NoRow, kernelVars
<1>2. UidType' /\ RowsInv' /\ SeenInv'
    BY <1>1, RowFacts, LookupKeepsRows DEF UidInv, UidType
<1>3. BestInv' /\ TableInv' /\ NamedInv'
    BY <1>1 DEF UidInv, BestInv, TableInv, NamedInv
<1>4. ScanInv'
    <2>1. \A i \in stable : i \in open /\ i \in 1 .. Len(Rows)
        BY RowFacts DEF UidInv, UidType
    <2>2. \A i \in stable : Rows[i].table = table /\ i < next' => i < next
        BY <1>1, <2>1, RowFacts DEF UidInv, UidType
    <2>3. \A e \in seen : FromRow(e)' <=> FromRow(e)
        BY <1>1 DEF FromRow
    <2>4. QED
        BY <1>1, <2>2, <2>3 DEF UidInv, ScanInv, First
<1>5. QED
    BY <1>2, <1>3, <1>4 DEF UidInv

LEMMA ReadRowInv ==
    ASSUME UidInv, ReadRow
    PROVE  UidInv'
<1> DEFINE n == next
<1>1. /\ call = "scan" /\ n \in DOMAIN Rows /\ Rows[n].table = table /\ n \in open \cup left
      /\ best' = IF Rank(n) <= best.rank THEN best ELSE [rank |-> Rank(n), uid |-> UserOf(n)]
      /\ call' = IF Rank(n) = 3 THEN "done" ELSE "scan"
      /\ next' = n + 1
      /\ UNCHANGED <<open, left, index, tcp, v4, table, calls, stable, seen, blind>>
    BY DEF ReadRow, kernelVars
<1>2. /\ n \in 1 .. Len(Rows) /\ Len(Rows) \in Nat
      /\ Rank(n) \in {0, 2, 3} /\ UserOf(n) \in Nat /\ (Bound(n) <=> Rank(n) # 0)
      /\ best \in [rank : {0, 2, 3}, uid : Nat \cup {Unknown}]
      /\ best.rank < 3 /\ (best.rank > 0 <=> best.uid # Unknown)
    BY <1>1, RowFacts DEF UidInv, UidType, BestInv
<1> HIDE DEF n
<1>3. Rank(n) # 0 => \E e \in seen : e.row = n /\ e.uid = UserOf(n)
    BY <1>1, <1>2, SaysIs DEF UidInv, RowsInv
<1>4. \/ Rank(n) <= best.rank /\ best' = best /\ Rank(n) # 3
      \/ Rank(n) > best.rank /\ best' = [rank |-> Rank(n), uid |-> UserOf(n)] /\ Rank(n) # 0
    BY <1>1, <1>2
<1>5. /\ best' \in [rank : {0, 2, 3}, uid : Nat \cup {Unknown}]
      /\ best'.rank > 0 <=> best'.uid # Unknown
      /\ Rank(n) # 3 => best'.rank < 3
      /\ Rank(n) <= best'.rank /\ best.rank <= best'.rank
    BY <1>2, <1>4 DEF Unknown
<1>6. UidType' /\ RowsInv' /\ SeenInv'
    BY <1>1, <1>2, <1>5, LookupKeepsRows DEF UidInv, UidType, n
<1>7. BestInv' /\ TableInv'
    <2>1. best'.uid # Unknown => \E e \in seen : e.uid = best'.uid
        BY <1>3, <1>4 DEF UidInv, BestInv
    <2>2. QED
        BY <1>1, <1>5, <2>1 DEF UidInv, BestInv, TableInv
<1>8. \A i \in stable : i \in 1 .. Len(Rows) /\ Rank(i) \in {2, 3} /\ Rows[i].table \in Tables
    BY RowFacts DEF UidInv, UidType, RowsInv
<1>9. ASSUME NEW i \in stable, Rows[i].table = table, Rank(i) > best.rank
      PROVE  n <= i
    <2>1. ~(i < n)
        BY <1>1, <1>2, <1>8, <1>9 DEF UidInv, ScanInv, n
    <2>2. QED
        BY <1>2, <1>8, <2>1
<1>10. ScanInv'
    <2>1. ASSUME NEW i \in stable, Rows[i].table = table, i < next'
          PROVE  Rank(i) <= best'.rank
        <3>1. i = n \/ i < n
            BY <1>1, <1>2, <1>8, <2>1
        <3>2. i < n => Rank(i) <= best.rank
            BY <1>1, <2>1 DEF UidInv, ScanInv, n
        <3>3. best'.rank \in {0, 2, 3} /\ best.rank \in {0, 2, 3}
            BY <1>2, <1>5
        <3>4. QED
            BY <1>2, <1>5, <1>8, <3>1, <3>2, <3>3
    <2>2. ASSUME best'.rank > 0 PROVE \E e \in seen : FromRow(e)'
        <3>1. CASE best' = best
            <4>1. PICK e \in seen : FromRow(e)
                BY <1>1, <2>2, <3>1 DEF UidInv, ScanInv
            <4>2. FromRow(e)'
                BY <1>1, <3>1, <4>1 DEF FromRow
            <4>3. QED
                BY <4>2
        <3>2. CASE Rank(n) > best.rank /\ best' = [rank |-> Rank(n), uid |-> UserOf(n)] /\ Rank(n) # 0
            <4>1. best'.rank = Rank(n) /\ best'.uid = UserOf(n)
                BY <3>2
            <4>2. \A i \in stable : Rows[i].table = table /\ Rank(i) = best'.rank => n <= i
                BY <1>9, <3>2, <4>1
            <4>3. PICK e \in seen : e.row = n /\ e.uid = best'.uid
                BY <1>3, <3>2, <4>1
            <4>4. FromRow(e)'
                BY <1>1, <4>1, <4>2, <4>3 DEF FromRow
            <4>5. QED
                BY <4>4
        <3>3. QED
            BY <1>4, <3>1, <3>2
    <2>3. QED
        BY <1>1, <2>1, <2>2 DEF UidInv, ScanInv, First
<1>11. NamedInv'
    <2> SUFFICES ASSUME call' = "done", ~blind, NEW i \in stable, Rows[i].table \in Searched
                 PROVE  Named(i)'
        BY <1>1 DEF NamedInv, Searched
    <2>1. Rank(n) = 3 /\ best'.uid = UserOf(n)
        BY <1>1, <1>4
    <2> PICK e \in seen : e.row = n /\ e.uid = best'.uid
        BY <1>3, <2>1
    <2>2. Rows[i].table # table => table = First
        BY <1>1, <1>8 DEF UidInv, UidType, ScanInv, Tables, First, Searched
    <2>3. Rank(i) < 3 \/ (Rank(i) = 3 /\ n = i)
        <3>1. n \in DOMAIN Rows /\ i \in DOMAIN Rows
            BY <1>1 DEF UidInv, UidType
        <3>2. Rank(i) = 3 => Exact(i) /\ Exact(n)
            BY <2>1, <3>1, RowFacts
        <3>3. Exact(i) /\ Exact(n) => n = i
            BY <2>1 DEF UidInv, SeenInv
        <3>4. QED
            BY <1>8, <3>2, <3>3
    <2>4. CASE Rank(i) = 3 /\ n = i
        <3>1. e.uid = Rows[i].uid
            BY <2>4 DEF UidInv, SeenInv
        <3>2. QED
            BY <3>1 DEF Named
    <2>5. CASE Rank(i) < 3
        <3>1. Hides(e.row, i)'
            BY <1>1, <1>8, <2>1, <2>2, <2>5 DEF Hides, First
        <3>2. QED
            BY <1>1, <3>1 DEF Named
    <2>6. QED
        BY <2>3, <2>4, <2>5
<1>12. QED
    BY <1>6, <1>7, <1>10, <1>11 DEF UidInv

LEMMA UidNextInv == UidInv /\ [UidNext]_uidVars => UidInv'
<1> SUFFICES ASSUME UidInv, [UidNext]_uidVars PROVE UidInv'
    OBVIOUS
<1>1. CASE UidNext
    BY <1>1, AppOpensInv, RowExpiresInv, AppClosesInv, QueryInv, InitOnceInv, OpenTableInv, OpenFailsInv,
       ReadRowInv, NoRowInv, TableEndsInv DEF UidNext
<1>2. CASE UNCHANGED uidVars
    <2>1. UNCHANGED <<open, left, index, call, tcp, v4, table, next, best, calls, stable, seen, blind>>
        BY <1>2 DEF uidVars, kernelVars
    <2>2. UidType' /\ SeenInv'
        BY <2>1 DEF UidInv, UidType, SeenInv
    <2>3. RowsInv'
        BY <2>1 DEF UidInv, RowsInv, UserOf
    <2>4. QED
        BY <2>1, <2>2, <2>3, KernelKeeps DEF UidInv
<1>3. QED
    BY <1>1, <1>2

(* However sockets of several users come and go while the tables are read,  *)
(* the answer is the user of a row that was there, and that of a socket     *)
(* that stayed bound to the source, unless a table could not be read or     *)
(* another row hides its own, which none does to an exact match in the      *)
(* first table (procfs.go:44-63, 95-136).                                   *)
THEOREM OwnerAlwaysFound == AppSpec => []OwnerFound
<1>1. AppInit => UidInv
    BY UidInitInv DEF AppInit
<1>2. [AppNext]_all => [UidNext]_uidVars
    BY DEF AppNext, all, Dial
<1>3. UidInv => OwnerFound
    BY DEF UidInv, BestInv, NamedInv, Named, OwnerFound
<1>4. QED
    BY <1>1, <1>2, <1>3, UidNextInv, PTL DEF AppSpec

-----------------------------------------------------------------------------
(* HttpExchange: its inductive invariant.                                   *)

GetPlaces == {"get", "getClose"}
BodyPlaces == {"open", "eof", "broken", "closed"}
ReaderPlaces == {"idle", "once", "got", "noFile"} \cup UsePlaces

HttpType ==
    /\ status \in {"none", "ok", "other"}
    /\ body \in [rest : Seq(Nat), state : BodyPlaces]
    /\ getOnce \in {"new", "running", "done"}
    /\ kept \in [bytes : Seq(Nat), failed : BOOLEAN]
    /\ file \in [Readers -> Seq(Nat)]
    /\ saved \subseteq Readers /\ saves \in Nat /\ mixed \in BOOLEAN
    /\ reading \in [Readers -> ReaderPlaces]
    /\ httpCalls \in Nat

(* One thread runs the function of getContentOnce, once; from then on the   *)
(* body is closed and what was kept is what all return.                     *)
GetInv ==
    /\ \A r, s \in Readers : reading[r] \in GetPlaces /\ reading[s] \in GetPlaces => r = s
    /\ getOnce = "running" <=> \E r \in Readers : reading[r] \in GetPlaces
    /\ \A r \in Readers : reading[r] = "got" => getOnce = "done"
    /\ \A r \in Readers : reading[r] = "get" => ~kept.failed
    /\ getOnce = "new" => kept = [bytes |-> <<>>, failed |-> FALSE]
    /\ getOnce = "done" => body.state = "closed"
    /\ returned \subseteq {kept}
    /\ returned # {} => getOnce = "done"

(* Every call leaves the body closed, and what was saved is not touched.    *)
SaveInv ==
    /\ saves > 0 => body.state = "closed"
    /\ \A r \in saved : reading[r] \notin {"save", "saveClose"}
    /\ httpCalls > 0 => body.state = "closed" \/ \E r \in Readers : reading[r] # "idle"

OneToOne(s) == \A i, j \in 1 .. Len(s) : s[i] = s[j] => i = j

(* A piece is in one place. *)
PieceInv ==
    /\ OneToOne(body.rest)
    /\ Range(kept.bytes) \cap Range(body.rest) = {}
    /\ \A r \in Readers : Range(file[r]) \cap Range(body.rest) = {} /\ Range(kept.bytes) \cap Range(file[r]) = {}
    /\ \A r, s \in Readers : r # s => Range(file[r]) \cap Range(file[s]) = {}

(* The body is what is in read, and then what is in rest. *)
Continues(read, rest) ==
    /\ Len(read) + Len(rest) = Len(Pieces)
    /\ \A i \in 1 .. Len(read) : read[i] = Pieces[i]
    /\ \A i \in 1 .. Len(rest) : rest[i] = Pieces[Len(read) + i]

GotAll == ~kept.failed /\ (getOnce = "done" \/ \E r \in Readers : reading[r] = "getClose")

(* Who is at a body that is not closed is alone, and what he has read of an *)
(* open one is all of it so far.                                            *)
SoleInv ==
    body.state # "closed" =>
        /\ \A r, s \in Readers : reading[r] \in UsePlaces /\ reading[s] \in UsePlaces => r = s
        /\ body.state = "eof" => \E r \in Readers : reading[r] \in {"getClose", "saveClose"}
        /\ body.state = "open" =>
              /\ (\A r \in Readers : reading[r] \notin UsePlaces) => body.rest = Pieces
              /\ \A r \in Readers : reading[r] = "get" => Continues(kept.bytes, body.rest)
              /\ \A r \in Readers : reading[r] = "save" => Continues(file[r], body.rest)

(* Only the first one that reads to the end succeeds, and has the whole.    *)
FirstInv ==
    /\ \A r \in Readers : reading[r] = "saveClose" => file[r] = Pieces /\ saves = 0
    /\ \A r, s \in Readers : reading[r] = "saveClose" /\ reading[s] = "saveClose" => r = s
    /\ \A r \in saved : file[r] = Pieces
    /\ saves <= 1
    /\ GotAll => kept.bytes = Pieces /\ saves = 0 /\ \A r \in Readers : reading[r] # "saveClose"

(* As long as no two are at the body before it is closed.                   *)
WholeInv == ~mixed => SoleInv /\ FirstInv

HttpInv == HttpType /\ GetInv /\ SaveInv /\ PieceInv /\ WholeInv

LEMMA PiecesFacts ==
    /\ Pieces \in Seq(Nat) /\ Len(Pieces) \in Nat /\ OneToOne(Pieces)
    /\ Continues(<<>>, Pieces)
    /\ Range(<<>>) = {}
<1>1. Pieces \in Seq(Nat) /\ Len(Pieces) \in Nat /\ DOMAIN Pieces = 1 .. Len(Pieces)
    BY PiecesAssumption
<1>2. \A i \in 1 .. Len(Pieces) : Pieces[i] = i
    BY <1>1, PiecesAssumption
<1>3. OneToOne(Pieces)
    BY <1>2 DEF OneToOne
<1>4. Continues(<<>>, Pieces)
    BY <1>1 DEF Continues
<1>5. Range(<<>>) = {}
    BY DEF Range
<1>6. QED
    BY <1>1, <1>3, <1>4, <1>5

LEMMA RangeIs ==
    ASSUME NEW s \in Seq(Nat)
    PROVE  Range(s) = {s[i] : i \in 1 .. Len(s)}
BY RangeEquality

(* Moving the first piece of b to the end of a. *)
LEMMA MoveHead ==
    ASSUME NEW a \in Seq(Nat), NEW b \in Seq(Nat), b # <<>>
    PROVE  /\ Append(a, Head(b)) \in Seq(Nat) /\ Tail(b) \in Seq(Nat)
           /\ Range(Append(a, Head(b))) = Range(a) \cup {Head(b)}
           /\ Head(b) \in Range(b) /\ Range(Tail(b)) \subseteq Range(b)
           /\ OneToOne(b) => OneToOne(Tail(b)) /\ Head(b) \notin Range(Tail(b))
           /\ Continues(a, b) => Continues(Append(a, Head(b)), Tail(b))
<1> DEFINE aa == Append(a, Head(b))
           bb == Tail(b)
<1>1. /\ Head(b) \in Nat /\ Len(b) \in Nat /\ Len(b) # 0 /\ Head(b) = b[1]
      /\ bb \in Seq(Nat) /\ Len(bb) = Len(b) - 1
      /\ \A i \in 1 .. Len(bb) : bb[i] = b[i + 1]
    BY HeadTailProperties, EmptySeq
<1>2. /\ Len(a) \in Nat /\ aa \in Seq(Nat) /\ Len(aa) = Len(a) + 1
      /\ \A i \in 1 .. Len(a) : aa[i] = a[i]
      /\ aa[Len(a) + 1] = Head(b)
    BY <1>1, AppendProperties, LenProperties
<1> HIDE DEF aa, bb
<1>3. /\ Range(a) = {a[i] : i \in 1 .. Len(a)} /\ Range(aa) = {aa[i] : i \in 1 .. Len(aa)}
      /\ Range(b) = {b[i] : i \in 1 .. Len(b)} /\ Range(bb) = {bb[i] : i \in 1 .. Len(bb)}
    BY <1>1, <1>2, RangeIs
<1>4. /\ \A i \in 1 .. Len(aa) : (i \in 1 .. Len(a) /\ aa[i] = a[i]) \/ (i = Len(a) + 1 /\ aa[i] = Head(b))
      /\ \A i \in 1 .. Len(a) : i \in 1 .. Len(aa)
      /\ Len(a) + 1 \in 1 .. Len(aa)
    BY <1>2
<1>5. Range(aa) = Range(a) \cup {Head(b)}
    BY <1>2, <1>3, <1>4
<1>6. \A i \in 1 .. Len(bb) : i + 1 \in 1 .. Len(b) /\ i + 1 # 1 /\ bb[i] = b[i + 1]
    BY <1>1
<1>7. 1 \in 1 .. Len(b) /\ Head(b) \in Range(b)
    BY <1>1, <1>3
<1>8. Range(bb) \subseteq Range(b)
    BY <1>3, <1>6
<1>9. ASSUME OneToOne(b)
      PROVE  OneToOne(bb) /\ Head(b) \notin Range(bb)
    <2>1. ASSUME NEW i \in 1 .. Len(bb), NEW j \in 1 .. Len(bb), bb[i] = bb[j]
          PROVE  i = j
        <3>1. i + 1 = j + 1
            BY <1>6, <1>9, <2>1 DEF OneToOne
        <3>2. QED
            BY <3>1
    <2>2. \A i \in 1 .. Len(bb) : bb[i] # b[1]
        BY <1>6, <1>7, <1>9 DEF OneToOne
    <2>3. QED
        BY <1>1, <1>3, <2>1, <2>2 DEF OneToOne
<1>10. ASSUME Continues(a, b)
       PROVE  Continues(aa, bb)
    <2>1. Len(aa) + Len(bb) = Len(Pieces)
        <3>1. Len(a) + Len(b) = Len(Pieces)
            BY <1>10 DEF Continues
        <3>2. /\ Len(aa) = Len(a) + 1 /\ Len(bb) = Len(b) - 1 /\ Len(a) \in Nat /\ Len(b) \in Nat
              /\ Len(aa) \in Nat /\ Len(bb) \in Nat /\ Len(Pieces) \in Nat
            BY <1>1, <1>2, LenProperties, PiecesFacts
        <3>3. QED
            BY <3>1, <3>2
    <2>2. Head(b) = Pieces[Len(a) + 1]
        BY <1>1, <1>7, <1>10 DEF Continues
    <2>3. \A i \in 1 .. Len(aa) : aa[i] = Pieces[i]
        BY <1>4, <1>10, <2>2 DEF Continues
    <2>4. ASSUME NEW i \in 1 .. Len(bb)
          PROVE  bb[i] = Pieces[Len(aa) + i]
        <3>1. Len(aa) + i = Len(a) + (i + 1)
            BY <1>2
        <3>2. b[i + 1] = Pieces[Len(a) + (i + 1)]
            BY <1>6, <1>10 DEF Continues
        <3>3. QED
            BY <1>6, <3>1, <3>2
    <2>5. QED
        BY <2>1, <2>3, <2>4 DEF Continues
<1>11. QED
    BY <1>1, <1>2, <1>5, <1>7, <1>8, <1>9, <1>10 DEF aa, bb

(* When nothing is left, all has been read. *)
LEMMA AllRead ==
    ASSUME NEW a \in Seq(Nat), Continues(a, <<>>)
    PROVE  a = Pieces
BY PiecesFacts DEF Continues

LEMMA StepsFacts ==
    ASSUME HttpInv, NEW r \in Readers, NEW from, NEW at \in ReaderPlaces, Steps(r, from, at)
    PROVE  /\ reading[r] = from /\ reading' \in [Readers -> ReaderPlaces] /\ reading'[r] = at
           /\ \A s \in Readers : s # r => reading'[s] = reading[s]
BY DEF HttpInv, HttpType, Steps

LEMMA HttpInitInv == HttpInit => HttpInv
<1> SUFFICES ASSUME HttpInit PROVE HttpInv
    OBVIOUS
<1>1. HttpType
    <2>1. /\ body \in [rest : Seq(Nat), state : BodyPlaces]
          /\ kept \in [bytes : Seq(Nat), failed : BOOLEAN] /\ file \in [Readers -> Seq(Nat)]
        BY PiecesFacts DEF HttpInit, BodyPlaces
    <2>2. QED
        BY <2>1 DEF HttpInit, HttpType, ReaderPlaces
<1>2. GetInv /\ SaveInv
    BY DEF HttpInit, GetInv, SaveInv, GetPlaces
<1>3. PieceInv
    BY PiecesFacts DEF HttpInit, PieceInv
<1>4. WholeInv
    BY DEF HttpInit, WholeInv, SoleInv, FirstInv, GotAll, UsePlaces
<1>5. QED
    BY <1>1, <1>2, <1>3, <1>4 DEF HttpInv

-----------------------------------------------------------------------------
(* HttpExchange: one lemma per action.                                      *)

LEMMA ReadFacts ==
    ASSUME HttpInv, BodyReads
    PROVE  /\ body.rest \in Seq(Nat) /\ body' \in [rest : Seq(Nat), state : BodyPlaces]
           /\ Piece => /\ body.rest # <<>> /\ body.state = "open"
                       /\ body'.rest = Tail(body.rest) /\ body'.state = "open"
           /\ ~Piece => /\ body'.rest = body.rest
                        /\ body'.state = IF body.state = "open" THEN "eof" ELSE body.state
                        /\ body.state = "open" => body.rest = <<>>
<1>1. /\ body \in [rest : Seq(Nat), state : BodyPlaces]
      /\ body.rest \in Seq(Nat)
    BY DEF HttpInv, HttpType
<1>2. CASE Piece
    <2>1. body.rest # <<>> /\ body.state = "open" /\ body' = [body EXCEPT !.rest = Tail(body.rest)]
        BY <1>2 DEF Piece, BodyReads
    <2>2. Tail(body.rest) \in Seq(Nat)
        BY <1>1, <2>1, MoveHead
    <2>3. QED
        BY <1>1, <1>2, <2>1, <2>2
<1>3. CASE ~Piece
    <2>1. body' = [body EXCEPT !.state = IF body.state = "open" THEN "eof" ELSE body.state]
        BY <1>3 DEF BodyReads
    <2>2. body.state = "open" => body.rest = <<>>
        BY <1>3 DEF Piece
    <2>3. QED
        BY <1>1, <1>3, <2>1, <2>2 DEF BodyPlaces
<1>4. QED
    BY <1>2, <1>3

LEMMA CloseFacts ==
    ASSUME HttpInv, BodyCloses
    PROVE  /\ body' \in [rest : Seq(Nat), state : BodyPlaces]
           /\ body'.rest = body.rest /\ body'.state = "closed"
BY DEF HttpInv, HttpType, BodyCloses, BodyPlaces

LEMMA ConnectionBreaksInv ==
    ASSUME HttpInv, ConnectionBreaks
    PROVE  HttpInv'
<1>1. /\ body.state = "open" /\ body' = [body EXCEPT !.state = "broken"]
      /\ UNCHANGED <<status, getOnce, kept, returned, file, saved, saves, reading, httpCalls, mixed>>
    BY DEF ConnectionBreaks, contentVars, fileVars
<1>2. /\ body' \in [rest : Seq(Nat), state : BodyPlaces]
      /\ body'.rest = body.rest /\ body'.state = "broken"
    BY <1>1 DEF HttpInv, HttpType, BodyPlaces
<1>3. HttpType' /\ PieceInv'
    BY <1>1, <1>2 DEF HttpInv, HttpType, PieceInv
<1>4. GetInv' /\ SaveInv'
    BY <1>1, <1>2 DEF HttpInv, GetInv, SaveInv
<1>5. WholeInv'
    BY <1>1, <1>2 DEF HttpInv, WholeInv, SoleInv, FirstInv, GotAll
<1>6. QED
    BY <1>3, <1>4, <1>5 DEF HttpInv

(* A step of a thread that is not at the body. *)
LEMMA MovesInv ==
    ASSUME HttpInv, NEW r \in Readers, reading[r] \in {"idle", "once"}, reading' \in [Readers -> ReaderPlaces],
           reading'[r] \in {"idle", "once", "got", "noFile"}, \A s \in Readers : s # r => reading'[s] = reading[s],
           reading'[r] = "got" => getOnce = "done",
           reading'[r] = "idle" => reading[r] = "idle" /\ httpCalls' = httpCalls,
           httpCalls' \in Nat, status' \in {"none", "ok", "other"},
           UNCHANGED <<body, getOnce, kept, returned, file, saved, saves, mixed>>
    PROVE  HttpInv'
<1>1. /\ \A s \in Readers : reading'[s] \in UsePlaces <=> reading[s] \in UsePlaces
      /\ \A s \in Readers : reading'[s] \in UsePlaces => reading'[s] = reading[s]
    BY DEF UsePlaces
<1>2. HttpType' /\ PieceInv'
    BY DEF HttpInv, HttpType, PieceInv
<1>3. GetInv'
    BY <1>1 DEF HttpInv, GetInv, GetPlaces, UsePlaces
<1>4. SaveInv'
    BY <1>1 DEF HttpInv, HttpType, SaveInv, UsePlaces
<1>5. WholeInv'
    <2>1. SoleInv => SoleInv'
        BY <1>1 DEF SoleInv, UsePlaces
    <2>2. GotAll' => GotAll
        BY <1>1 DEF GotAll, UsePlaces
    <2>3. FirstInv => FirstInv'
        BY <1>1, <2>2 DEF FirstInv, UsePlaces
    <2>4. QED
        BY <2>1, <2>3 DEF HttpInv, WholeInv
<1>6. QED
    BY <1>2, <1>3, <1>4, <1>5 DEF HttpInv

(* A thread comes to the body.  If another one is at it that counts as      *)
(* mixed, unless it is closed; if none is, it is whole.                     *)
LEMMA ComesInv ==
    ASSUME HttpInv, NEW r \in Readers, reading[r] \in {"idle", "once"}, reading'[r] \in {"get", "save"},
           \A s \in Readers : s # r => reading'[s] = reading[s],
           mixed' = (mixed \/ BodyShared), ~mixed',
           reading'[r] = "get" => kept.bytes = <<>>,
           reading'[r] = "save" => file'[r] = <<>>,
           UNCHANGED <<body, kept>>
    PROVE  SoleInv'
<1> SUFFICES ASSUME body.state # "closed" PROVE SoleInv'
    BY DEF SoleInv
<1>1. ~mixed /\ SoleInv /\ \A s \in Readers : reading[s] \notin UsePlaces
    BY DEF HttpInv, HttpType, WholeInv, BodyShared
<1>2. \A s \in Readers : s # r => reading'[s] \notin UsePlaces
    BY <1>1
<1>3. body.state # "eof" /\ (body.state = "open" => body.rest = Pieces)
    BY <1>1 DEF SoleInv, UsePlaces
<1>4. body.state = "open" /\ reading'[r] = "get" => Continues(kept'.bytes, body'.rest)
    BY <1>3, PiecesFacts
<1>5. body.state = "open" /\ reading'[r] = "save" => Continues(file'[r], body'.rest)
    BY <1>3, PiecesFacts
<1>6. QED
    BY <1>2, <1>3, <1>4, <1>5 DEF SoleInv, UsePlaces

LEMMA OnceInv ==
    ASSUME HttpInv, NEW r \in Readers, Once(r)
    PROVE  HttpInv'
<1>1. /\ \/ getOnce = "new" /\ Steps(r, "once", "get") /\ getOnce' = "running"
         \/ getOnce = "done" /\ Steps(r, "once", "got") /\ UNCHANGED getOnce
      /\ mixed' = (mixed \/ (getOnce = "new" /\ BodyShared))
      /\ UNCHANGED <<status, body, kept, returned, file, saved, saves, httpCalls>>
    BY DEF Once, fileVars, HttpInv, HttpType
<1>2. CASE getOnce = "done"
    <2>1. Steps(r, "once", "got") /\ UNCHANGED <<getOnce, mixed>>
        BY <1>1, <1>2 DEF HttpInv, HttpType
    <2>2. reading[r] = "once" /\ reading' \in [Readers -> ReaderPlaces] /\ reading'[r] = "got"
          /\ \A s \in Readers : s # r => reading'[s] = reading[s]
        BY <2>1, StepsFacts DEF ReaderPlaces
    <2>3. QED
        BY <1>1, <1>2, <2>1, <2>2, MovesInv DEF HttpInv, HttpType
<1>3. CASE getOnce = "new"
    <2>1. Steps(r, "once", "get") /\ getOnce' = "running" /\ mixed' = (mixed \/ BodyShared)
        BY <1>1, <1>3
    <2>2. reading[r] = "once" /\ reading' \in [Readers -> ReaderPlaces] /\ reading'[r] = "get"
          /\ \A s \in Readers : s # r => reading'[s] = reading[s]
        BY <2>1, StepsFacts DEF ReaderPlaces, UsePlaces
    <2>3. HttpType' /\ PieceInv'
        BY <1>1, <2>1, <2>2 DEF HttpInv, HttpType, PieceInv, BodyShared
    <2>4. \A s \in Readers : reading[s] \notin GetPlaces
        BY <1>3 DEF HttpInv, GetInv
    <2>5. GetInv'
        BY <1>1, <1>3, <2>1, <2>2, <2>4 DEF HttpInv, GetInv, GetPlaces
    <2>6. SaveInv'
        BY <1>1, <2>2 DEF HttpInv, HttpType, SaveInv
    <2>7. WholeInv'
        <3> SUFFICES ASSUME ~mixed' PROVE SoleInv' /\ FirstInv'
            BY DEF WholeInv
        <3>1. kept.bytes = <<>>
            BY <1>3 DEF HttpInv, GetInv
        <3>2. SoleInv'
            BY <1>1, <2>1, <2>2, <3>1, ComesInv
        <3>3. ~GotAll'
            BY <2>1, <2>2, <2>4 DEF GotAll, GetPlaces
        <3>4. FirstInv
            BY <2>1 DEF HttpInv, HttpType, WholeInv
        <3>5. QED
            BY <1>1, <2>2, <3>2, <3>3, <3>4 DEF FirstInv
    <2>8. QED
        BY <2>3, <2>5, <2>6, <2>7 DEF HttpInv
<1>4. QED
    BY <1>1, <1>2, <1>3

LEMMA ExecuteInv ==
    ASSUME HttpInv, NEW r \in Readers, NEW st \in {"ok", "other"}, Execute(r, st)
    PROVE  HttpInv'
<1>1. /\ status' = st /\ Steps(r, "idle", IF st = "ok" THEN "idle" ELSE "once")
      /\ UNCHANGED <<body, getOnce, kept, returned, file, saved, saves, httpCalls, mixed>>
    BY DEF Execute, contentVars, fileVars
<1>2. /\ reading[r] = "idle" /\ reading' \in [Readers -> ReaderPlaces] /\ reading'[r] \in {"idle", "once"}
      /\ \A s \in Readers : s # r => reading'[s] = reading[s]
    BY <1>1, StepsFacts DEF ReaderPlaces
<1>3. QED
    BY <1>1, <1>2, MovesInv DEF HttpInv, HttpType

LEMMA GetContentInv ==
    ASSUME HttpInv, NEW r \in Readers, GetContent(r)
    PROVE  HttpInv'
<1>1. /\ httpCalls' = httpCalls + 1 /\ Steps(r, "idle", "once")
      /\ UNCHANGED <<status, body, getOnce, kept, returned, file, saved, saves, mixed>>
    BY DEF GetContent, Begins, contentVars, fileVars
<1>2. /\ reading[r] = "idle" /\ reading' \in [Readers -> ReaderPlaces] /\ reading'[r] = "once"
      /\ \A s \in Readers : s # r => reading'[s] = reading[s]
    BY <1>1, StepsFacts DEF ReaderPlaces
<1>3. httpCalls' \in Nat
    BY <1>1 DEF HttpInv, HttpType
<1>4. QED
    BY <1>1, <1>2, <1>3, MovesInv DEF HttpInv, HttpType

LEMMA GetReturnsInv ==
    ASSUME HttpInv, NEW r \in Readers, GetReturns(r)
    PROVE  HttpInv'
<1>1. /\ Steps(r, "got", "idle") /\ returned' = returned \cup {kept}
      /\ UNCHANGED <<status, body, getOnce, kept, file, saved, saves, httpCalls, mixed>>
    BY DEF GetReturns, fileVars
<1>2. /\ reading[r] = "got" /\ reading' \in [Readers -> ReaderPlaces] /\ reading'[r] = "idle"
      /\ \A s \in Readers : s # r => reading'[s] = reading[s]
    BY <1>1, StepsFacts DEF ReaderPlaces
<1>3. getOnce = "done" /\ body.state = "closed"
    BY <1>2 DEF HttpInv, GetInv
<1>4. HttpType' /\ PieceInv'
    BY <1>1, <1>2 DEF HttpInv, HttpType, PieceInv
<1>5. GetInv'
    BY <1>1, <1>2, <1>3 DEF HttpInv, GetInv, GetPlaces
<1>6. SaveInv'
    BY <1>1, <1>2, <1>3 DEF HttpInv, HttpType, SaveInv
<1>7. WholeInv'
    <2>1. GotAll' => GotAll
        BY <1>1, <1>2 DEF GotAll
    <2>2. FirstInv => FirstInv'
        BY <1>1, <1>2, <2>1 DEF FirstInv
    <2>3. SoleInv'
        BY <1>1, <1>3 DEF SoleInv
    <2>4. QED
        BY <1>1, <2>2, <2>3 DEF HttpInv, WholeInv
<1>8. QED
    BY <1>4, <1>5, <1>6, <1>7 DEF HttpInv

LEMMA ReadAllInv ==
    ASSUME HttpInv, NEW r \in Readers, ReadAll(r)
    PROVE  HttpInv'
<1>1. /\ Steps(r, "get", IF Piece THEN "get" ELSE "getClose") /\ BodyReads
      /\ kept' = IF Piece THEN [kept EXCEPT !.bytes = Append(kept.bytes, Head(body.rest))]
                 ELSE [kept EXCEPT !.failed = BodyFails]
      /\ UNCHANGED <<status, getOnce, returned, file, saved, saves, httpCalls, mixed>>
    BY DEF ReadAll, fileVars
<1>2. /\ reading[r] = "get" /\ reading' \in [Readers -> ReaderPlaces]
      /\ reading'[r] = IF Piece THEN "get" ELSE "getClose"
      /\ \A s \in Readers : s # r => reading'[s] = reading[s]
    BY <1>1, StepsFacts DEF ReaderPlaces, UsePlaces
<1>3. /\ kept \in [bytes : Seq(Nat), failed : BOOLEAN] /\ kept.bytes \in Seq(Nat) /\ ~kept.failed
      /\ getOnce = "running" /\ returned = {}
      /\ \A s \in Readers : s # r => reading[s] \notin GetPlaces
    BY <1>2 DEF HttpInv, HttpType, GetInv, GetPlaces
<1>4. SaveInv'
    <2>1. body.state = "closed" => body'.state = "closed"
        BY <1>1, ReadFacts
    <2>2. \A s \in Readers : reading'[s] \in {"save", "saveClose"} => reading'[s] = reading[s]
        BY <1>2
    <2>3. reading'[r] # "idle"
        BY <1>2
    <2>4. QED
        BY <1>1, <2>1, <2>2, <2>3 DEF HttpInv, HttpType, SaveInv
<1>5. ~mixed /\ body.state # "closed" =>
         /\ \A s \in Readers : s # r => reading'[s] \notin UsePlaces
         /\ body.state # "eof" /\ saves = 0
         /\ body.state = "open" => Continues(kept.bytes, body.rest)
    <2>1. reading[r] \in UsePlaces
        BY <1>2 DEF UsePlaces
    <2>2. ~mixed /\ body.state # "closed" => \A s \in Readers : s # r => reading[s] \notin UsePlaces
        BY <2>1 DEF HttpInv, WholeInv, SoleInv
    <2>3. ~mixed => body.state # "eof"
        BY <1>2, <2>2 DEF HttpInv, WholeInv, SoleInv, UsePlaces
    <2>4. body.state # "closed" => saves = 0
        BY DEF HttpInv, HttpType, SaveInv
    <2>5. ~mixed /\ body.state = "open" => Continues(kept.bytes, body.rest)
        BY <1>2 DEF HttpInv, WholeInv, SoleInv
    <2>6. QED
        BY <1>2, <2>2, <2>3, <2>4, <2>5
<1>6. CASE Piece
    <2>1. /\ body.rest \in Seq(Nat) /\ body.rest # <<>> /\ body.state = "open"
          /\ body' \in [rest : Seq(Nat), state : BodyPlaces]
          /\ body'.rest = Tail(body.rest) /\ body'.state = "open"
        BY <1>1, <1>6, ReadFacts
    <2>2. /\ Append(kept.bytes, Head(body.rest)) \in Seq(Nat)
          /\ Range(Append(kept.bytes, Head(body.rest))) = Range(kept.bytes) \cup {Head(body.rest)}
          /\ Head(body.rest) \in Range(body.rest) /\ Range(Tail(body.rest)) \subseteq Range(body.rest)
          /\ OneToOne(body.rest) => OneToOne(Tail(body.rest)) /\ Head(body.rest) \notin Range(Tail(body.rest))
          /\ Continues(kept.bytes, body.rest) =>
                Continues(Append(kept.bytes, Head(body.rest)), Tail(body.rest))
        BY <1>3, <2>1, MoveHead
    <2>3. /\ kept' \in [bytes : Seq(Nat), failed : BOOLEAN]
          /\ kept'.bytes = Append(kept.bytes, Head(body.rest)) /\ ~kept'.failed
        BY <1>1, <1>3, <1>6, <2>2
    <2>4. HttpType'
        BY <1>1, <1>2, <2>1, <2>3 DEF HttpInv, HttpType
    <2>5. GetInv'
        BY <1>1, <1>2, <1>3, <1>6, <2>3 DEF HttpInv, GetInv, GetPlaces
    <2>6. PieceInv'
        <3> DEFINE piece == Head(body.rest)
                   rest == Range(body.rest)
        <3>1. /\ Range(kept'.bytes) = Range(kept.bytes) \cup {piece}
              /\ piece \in rest /\ Range(body'.rest) \subseteq rest
              /\ OneToOne(body.rest) => OneToOne(body'.rest) /\ piece \notin Range(body'.rest)
            BY <2>1, <2>2, <2>3
        <3> HIDE DEF piece, rest
        <3>2. /\ OneToOne(body.rest) /\ Range(kept.bytes) \cap rest = {}
              /\ \A s \in Readers : Range(file[s]) \cap rest = {} /\ Range(kept.bytes) \cap Range(file[s]) = {}
            BY DEF HttpInv, PieceInv, rest
        <3>3. \A s \in Readers :
                 Range(file[s]) \cap Range(body'.rest) = {} /\ Range(kept'.bytes) \cap Range(file[s]) = {}
            BY <3>1, <3>2
        <3>4. OneToOne(body'.rest) /\ Range(kept'.bytes) \cap Range(body'.rest) = {}
            BY <3>1, <3>2
        <3>5. QED
            BY <1>1, <3>3, <3>4 DEF HttpInv, PieceInv
    <2>7. WholeInv'
        <3> SUFFICES ASSUME ~mixed PROVE SoleInv' /\ FirstInv'
            BY <1>1 DEF WholeInv
        <3>1. \A s \in Readers : s # r => reading'[s] \notin UsePlaces
            BY <1>5, <2>1
        <3>2. Continues(kept'.bytes, body'.rest)
            BY <1>5, <2>1, <2>2, <2>3
        <3>3. SoleInv'
            BY <1>2, <1>6, <2>1, <3>1, <3>2 DEF SoleInv, UsePlaces
        <3>4. ~GotAll'
            BY <1>1, <1>2, <1>3, <1>6, <3>1 DEF GotAll, UsePlaces
        <3>5. \A s \in Readers : reading'[s] # "saveClose"
            BY <1>2, <1>6, <3>1 DEF UsePlaces
        <3>6. QED
            BY <1>1, <3>3, <3>4, <3>5 DEF HttpInv, WholeInv, FirstInv
    <2>8. QED
        BY <1>4, <2>4, <2>5, <2>6, <2>7 DEF HttpInv
<1>7. CASE ~Piece
    <2>1. /\ body.rest \in Seq(Nat) /\ body' \in [rest : Seq(Nat), state : BodyPlaces]
          /\ body'.rest = body.rest /\ (body.state = "open" => body.rest = <<>>)
          /\ body'.state = IF body.state = "open" THEN "eof" ELSE body.state
        BY <1>1, <1>7, ReadFacts
    <2>2. /\ kept' \in [bytes : Seq(Nat), failed : BOOLEAN]
          /\ kept'.bytes = kept.bytes /\ (kept'.failed <=> body.state \in {"broken", "closed"})
        <3>1. CASE body.state \in {"broken", "closed"}
            <4>1. BodyFails = TRUE
                BY <3>1 DEF BodyFails
            <4>2. QED
                BY <1>1, <1>3, <1>7, <3>1, <4>1
        <3>2. CASE body.state \notin {"broken", "closed"}
            <4>1. BodyFails = FALSE
                BY <3>2 DEF BodyFails
            <4>2. QED
                BY <1>1, <1>3, <1>7, <3>2, <4>1
        <3>3. QED
            BY <3>1, <3>2
    <2>3. HttpType'
        BY <1>1, <1>2, <2>1, <2>2 DEF HttpInv, HttpType
    <2>4. GetInv'
        BY <1>1, <1>2, <1>3, <1>7 DEF HttpInv, GetInv, GetPlaces
    <2>5. PieceInv'
        BY <1>1, <2>1, <2>2 DEF HttpInv, PieceInv
    <2>6. WholeInv'
        <3> SUFFICES ASSUME ~mixed PROVE SoleInv' /\ FirstInv'
            BY <1>1 DEF WholeInv
        <3>1. body.state # "closed" => \A s \in Readers : s # r => reading'[s] \notin UsePlaces
            BY <1>5
        <3>2. body.state \in BodyPlaces /\ body.state # "eof" /\ body'.state # "open"
              /\ (body'.state = "closed" <=> body.state = "closed")
            BY <1>5, <2>1 DEF HttpInv, HttpType
        <3>3. SoleInv'
            BY <1>2, <1>7, <3>1, <3>2 DEF SoleInv, UsePlaces
        <3>4. ASSUME ~kept'.failed
              PROVE  kept'.bytes = Pieces /\ saves = 0 /\ \A s \in Readers : reading'[s] # "saveClose"
            <4>1. body.state = "open"
                BY <2>2, <3>2, <3>4 DEF BodyPlaces
            <4>2. kept.bytes = Pieces
                BY <1>3, <1>5, <2>1, <4>1, AllRead
            <4>3. QED
                BY <1>2, <1>5, <1>7, <2>2, <3>1, <4>1, <4>2 DEF UsePlaces
        <3>5. GotAll' => ~kept'.failed
            BY DEF GotAll
        <3>6. \A s \in Readers : reading'[s] = "saveClose" => reading[s] = "saveClose"
            BY <1>2, <1>7
        <3>7. QED
            BY <1>1, <3>3, <3>4, <3>5, <3>6 DEF HttpInv, WholeInv, FirstInv
    <2>7. QED
        BY <1>4, <2>3, <2>4, <2>5, <2>6 DEF HttpInv
<1>8. QED
    BY <1>6, <1>7

LEMMA GetClosesInv ==
    ASSUME HttpInv, NEW r \in Readers, GetCloses(r)
    PROVE  HttpInv'
<1>1. /\ Steps(r, "getClose", "got") /\ BodyCloses /\ getOnce' = "done"
      /\ UNCHANGED <<status, kept, returned, file, saved, saves, httpCalls, mixed>>
    BY DEF GetCloses, fileVars
<1>2. /\ reading[r] = "getClose" /\ reading' \in [Readers -> ReaderPlaces] /\ reading'[r] = "got"
      /\ \A s \in Readers : s # r => reading'[s] = reading[s]
    BY <1>1, StepsFacts DEF ReaderPlaces
<1>3. /\ body' \in [rest : Seq(Nat), state : BodyPlaces]
      /\ body'.rest = body.rest /\ body'.state = "closed"
    BY <1>1, CloseFacts
<1>4. HttpType' /\ PieceInv'
    BY <1>1, <1>2, <1>3 DEF HttpInv, HttpType, PieceInv
<1>5. GetInv'
    BY <1>1, <1>2, <1>3 DEF HttpInv, GetInv, GetPlaces
<1>6. SaveInv'
    BY <1>1, <1>2, <1>3 DEF HttpInv, HttpType, SaveInv
<1>7. WholeInv'
    <2>1. GotAll' => GotAll
        BY <1>1, <1>2 DEF GotAll
    <2>2. FirstInv => FirstInv'
        BY <1>1, <1>2, <2>1 DEF FirstInv
    <2>3. SoleInv'
        BY <1>3 DEF SoleInv
    <2>4. QED
        BY <1>1, <2>2, <2>3 DEF HttpInv, WholeInv
<1>8. QED
    BY <1>4, <1>5, <1>6, <1>7 DEF HttpInv

LEMMA WriteToInv ==
    ASSUME HttpInv, NEW r \in Readers, WriteTo(r)
    PROVE  HttpInv'
<1>1. /\ httpCalls' = httpCalls + 1 /\ Steps(r, "idle", "save")
      /\ file' = [file EXCEPT ![r] = <<>>] /\ saved' = saved \ {r}
      /\ mixed' = (mixed \/ BodyShared)
      /\ UNCHANGED <<status, body, getOnce, kept, returned, saves>>
    BY DEF WriteTo, Begins, contentVars
<1>2. /\ reading[r] = "idle" /\ reading' \in [Readers -> ReaderPlaces] /\ reading'[r] = "save"
      /\ \A s \in Readers : s # r => reading'[s] = reading[s]
    BY <1>1, StepsFacts DEF ReaderPlaces, UsePlaces
<1>3. /\ file' \in [Readers -> Seq(Nat)] /\ file'[r] = <<>> /\ Range(file'[r]) = {}
      /\ \A s \in Readers : s # r => file'[s] = file[s]
    BY <1>1, PiecesFacts DEF HttpInv, HttpType
<1>4. HttpType'
    BY <1>1, <1>2, <1>3 DEF HttpInv, HttpType, BodyShared
<1>5. PieceInv'
    BY <1>1, <1>3 DEF HttpInv, PieceInv
<1>6. GetInv'
    BY <1>1, <1>2 DEF HttpInv, GetInv, GetPlaces
<1>7. SaveInv'
    BY <1>1, <1>2 DEF HttpInv, HttpType, SaveInv
<1>8. WholeInv'
    <2> SUFFICES ASSUME ~mixed' PROVE SoleInv' /\ FirstInv'
        BY DEF WholeInv
    <2>1. SoleInv'
        BY <1>1, <1>2, <1>3, ComesInv
    <2>2. GotAll' => GotAll
        BY <1>1, <1>2 DEF GotAll
    <2>3. FirstInv
        BY <1>1 DEF HttpInv, HttpType, WholeInv
    <2>4. QED
        BY <1>1, <1>2, <1>3, <2>1, <2>2, <2>3 DEF FirstInv
<1>9. QED
    BY <1>4, <1>5, <1>6, <1>7, <1>8 DEF HttpInv

LEMMA CreateFailsInv ==
    ASSUME HttpInv, NEW r \in Readers, CreateFails(r)
    PROVE  HttpInv'
<1>1. /\ httpCalls' = httpCalls + 1 /\ Steps(r, "idle", "noFile")
      /\ UNCHANGED <<status, body, getOnce, kept, returned, file, saved, saves, mixed>>
    BY DEF CreateFails, Begins, contentVars, fileVars
<1>2. /\ reading[r] = "idle" /\ reading' \in [Readers -> ReaderPlaces] /\ reading'[r] = "noFile"
      /\ \A s \in Readers : s # r => reading'[s] = reading[s]
    BY <1>1, StepsFacts DEF ReaderPlaces
<1>3. httpCalls' \in Nat
    BY <1>1 DEF HttpInv, HttpType
<1>4. QED
    BY <1>1, <1>2, <1>3, MovesInv DEF HttpInv, HttpType

LEMMA SaveStepInv ==
    ASSUME HttpInv, NEW r \in Readers, Save(r)
    PROVE  HttpInv'
<1>1. /\ Steps(r, "save", CASE Piece -> "save" [] BodyEnds -> "saveClose" [] BodyFails -> "saveFailed")
      /\ BodyReads
      /\ file' = IF Piece THEN [file EXCEPT ![r] = Append(file[r], Head(body.rest))] ELSE file
      /\ UNCHANGED <<status, getOnce, kept, returned, saved, saves, httpCalls, mixed>>
    BY DEF Save, contentVars
<1>2. /\ reading[r] = "save"
      /\ Piece => Steps(r, "save", "save")
      /\ ~Piece /\ body.state \in {"open", "eof"} => Steps(r, "save", "saveClose")
      /\ ~Piece /\ body.state \in {"broken", "closed"} => Steps(r, "save", "saveFailed")
    BY <1>1 DEF Steps, Piece, BodyEnds, BodyFails
<1>3. file \in [Readers -> Seq(Nat)] /\ file[r] \in Seq(Nat) /\ r \notin saved /\ body.state \in BodyPlaces
    BY <1>2 DEF HttpInv, HttpType, SaveInv
<1>4. ~mixed /\ body.state # "closed" =>
         /\ \A s \in Readers : s # r => reading[s] \notin UsePlaces
         /\ body.state # "eof" /\ saves = 0 /\ getOnce # "done"
         /\ body.state = "open" => Continues(file[r], body.rest)
    <2>1. reading[r] \in UsePlaces
        BY <1>2 DEF UsePlaces
    <2>2. ~mixed /\ body.state # "closed" => \A s \in Readers : s # r => reading[s] \notin UsePlaces
        BY <2>1 DEF HttpInv, WholeInv, SoleInv
    <2>3. ~mixed => body.state # "eof"
        BY <1>2, <2>2 DEF HttpInv, WholeInv, SoleInv, UsePlaces
    <2>4. body.state # "closed" => saves = 0 /\ getOnce # "done"
        BY DEF HttpInv, HttpType, SaveInv, GetInv
    <2>5. ~mixed /\ body.state = "open" => Continues(file[r], body.rest)
        BY <1>2 DEF HttpInv, WholeInv, SoleInv
    <2>6. QED
        BY <2>2, <2>3, <2>4, <2>5
<1>5. body.state = "closed" => body'.state = "closed"
    BY <1>1, ReadFacts
<1>6. CASE Piece
    <2>1. /\ body.rest \in Seq(Nat) /\ body.rest # <<>> /\ body.state = "open"
          /\ body' \in [rest : Seq(Nat), state : BodyPlaces]
          /\ body'.rest = Tail(body.rest) /\ body'.state = "open"
        BY <1>1, <1>6, ReadFacts
    <2>2. /\ Append(file[r], Head(body.rest)) \in Seq(Nat)
          /\ Range(Append(file[r], Head(body.rest))) = Range(file[r]) \cup {Head(body.rest)}
          /\ Head(body.rest) \in Range(body.rest) /\ Range(Tail(body.rest)) \subseteq Range(body.rest)
          /\ OneToOne(body.rest) => OneToOne(Tail(body.rest)) /\ Head(body.rest) \notin Range(Tail(body.rest))
          /\ Continues(file[r], body.rest) => Continues(Append(file[r], Head(body.rest)), Tail(body.rest))
        BY <1>3, <2>1, MoveHead
    <2>3. /\ reading' \in [Readers -> ReaderPlaces] /\ reading'[r] = "save"
          /\ \A s \in Readers : s # r => reading'[s] = reading[s]
        BY <1>2, <1>6, StepsFacts DEF ReaderPlaces, UsePlaces
    <2>4. /\ file' \in [Readers -> Seq(Nat)] /\ file'[r] = Append(file[r], Head(body.rest))
          /\ \A s \in Readers : s # r => file'[s] = file[s]
        BY <1>1, <1>3, <1>6, <2>2
    <2>5. HttpType'
        BY <1>1, <2>1, <2>3, <2>4 DEF HttpInv, HttpType
    <2>6. GetInv'
        BY <1>1, <1>2, <1>5, <2>3 DEF HttpInv, GetInv, GetPlaces
    <2>7. SaveInv'
        BY <1>1, <1>3, <1>5, <2>3 DEF HttpInv, HttpType, SaveInv
    <2>8. PieceInv'
        <3> DEFINE piece == Head(body.rest)
                   rest == Range(body.rest)
        <3>1. /\ Range(file'[r]) = Range(file[r]) \cup {piece}
              /\ \A s \in Readers : s # r => file'[s] = file[s]
              /\ piece \in rest /\ Range(body'.rest) \subseteq rest
              /\ OneToOne(body.rest) => OneToOne(body'.rest) /\ piece \notin Range(body'.rest)
            BY <2>1, <2>2, <2>4
        <3> HIDE DEF piece, rest
        <3>2. /\ OneToOne(body.rest) /\ Range(kept.bytes) \cap rest = {}
              /\ \A s \in Readers : Range(file[s]) \cap rest = {} /\ Range(kept.bytes) \cap Range(file[s]) = {}
              /\ \A s, t \in Readers : s # t => Range(file[s]) \cap Range(file[t]) = {}
            BY DEF HttpInv, PieceInv, rest
        <3>3. ASSUME NEW s \in Readers
              PROVE  Range(file'[s]) \cap Range(body'.rest) = {} /\ Range(kept.bytes) \cap Range(file'[s]) = {}
            <4>1. CASE s = r
                BY <3>1, <3>2, <4>1
            <4>2. CASE s # r
                BY <3>1, <3>2, <4>2
            <4>3. QED
                BY <4>1, <4>2
        <3>4. ASSUME NEW s \in Readers, NEW t \in Readers, s # t
              PROVE  Range(file'[s]) \cap Range(file'[t]) = {}
            <4>1. CASE s = r
                BY <3>1, <3>2, <3>4, <4>1
            <4>2. CASE t = r
                BY <3>1, <3>2, <3>4, <4>2
            <4>3. CASE s # r /\ t # r
                BY <3>1, <3>2, <3>4, <4>3
            <4>4. QED
                BY <4>1, <4>2, <4>3
        <3>5. OneToOne(body'.rest) /\ Range(kept.bytes) \cap Range(body'.rest) = {}
            BY <3>1, <3>2
        <3>6. QED
            BY <1>1, <3>3, <3>4, <3>5 DEF PieceInv
    <2>9. WholeInv'
        <3> SUFFICES ASSUME ~mixed PROVE SoleInv' /\ FirstInv'
            BY <1>1 DEF WholeInv
        <3>1. /\ \A s \in Readers : s # r => reading'[s] \notin UsePlaces
              /\ \A s \in Readers : reading'[s] \notin {"get", "getClose", "saveClose"}
            BY <1>4, <2>1, <2>3 DEF UsePlaces
        <3>2. Continues(file'[r], body'.rest)
            BY <1>4, <2>1, <2>2, <2>4
        <3>3. SoleInv'
            BY <2>1, <2>3, <3>1, <3>2 DEF SoleInv, UsePlaces
        <3>4. ~GotAll'
            BY <1>1, <1>4, <2>1, <3>1 DEF GotAll
        <3>5. \A s \in saved : file'[s] = file[s]
            BY <1>3, <2>4 DEF HttpInv, HttpType
        <3>6. QED
            BY <1>1, <3>1, <3>3, <3>4, <3>5 DEF HttpInv, WholeInv, FirstInv
    <2>10. QED
        BY <2>5, <2>6, <2>7, <2>8, <2>9 DEF HttpInv
<1>7. CASE ~Piece
    <2>1. /\ body.rest \in Seq(Nat) /\ body' \in [rest : Seq(Nat), state : BodyPlaces]
          /\ body'.rest = body.rest /\ (body.state = "open" => body.rest = <<>>)
          /\ body'.state = (IF body.state = "open" THEN "eof" ELSE body.state)
          /\ file' = file
        BY <1>1, <1>7, ReadFacts
    <2>2. /\ reading' \in [Readers -> ReaderPlaces]
          /\ reading'[r] = (IF body.state \in {"open", "eof"} THEN "saveClose" ELSE "saveFailed")
          /\ \A s \in Readers : s # r => reading'[s] = reading[s]
        <3>1. CASE body.state \in {"open", "eof"}
            BY <1>2, <1>7, <3>1, StepsFacts DEF ReaderPlaces, UsePlaces
        <3>2. CASE body.state \in {"broken", "closed"}
            BY <1>2, <1>7, <3>2, StepsFacts DEF ReaderPlaces, UsePlaces
        <3>3. QED
            BY <1>3, <3>1, <3>2 DEF BodyPlaces
    <2>3. HttpType' /\ PieceInv'
        BY <1>1, <2>1, <2>2 DEF HttpInv, HttpType, PieceInv
    <2>4. GetInv'
        BY <1>1, <1>2, <1>5, <2>2 DEF HttpInv, GetInv, GetPlaces
    <2>5. SaveInv'
        BY <1>1, <1>3, <1>5, <2>2 DEF HttpInv, HttpType, SaveInv
    <2>6. WholeInv'
        <3> SUFFICES ASSUME ~mixed PROVE SoleInv' /\ FirstInv'
            BY <1>1 DEF WholeInv
        <3>1. /\ body.state # "eof" /\ body'.state # "open"
              /\ body.state = "closed" <=> body'.state = "closed"
              /\ body.state = "open" <=> body'.state = "eof"
            BY <1>4, <2>1
        <3>2. SoleInv'
            BY <1>4, <2>2, <3>1 DEF SoleInv, UsePlaces
        <3>3. ASSUME reading'[r] = "saveClose"
              PROVE  /\ file'[r] = Pieces /\ saves = 0
                     /\ \A s \in Readers : reading'[s] = "saveClose" => s = r
                     /\ ~GotAll'
            <4>1. body.state = "open"
                BY <2>2, <3>1, <3>3
            <4>2. file[r] = Pieces
                BY <1>3, <1>4, <2>1, <4>1, AllRead
            <4>3. \A s \in Readers : s # r => reading'[s] \notin UsePlaces
                BY <1>4, <2>2, <4>1
            <4>4. QED
                BY <1>1, <1>4, <2>1, <2>2, <3>3, <4>1, <4>2, <4>3 DEF GotAll, UsePlaces
        <3>4. CASE reading'[r] = "saveClose"
            BY <1>1, <2>1, <3>2, <3>3, <3>4 DEF HttpInv, WholeInv, FirstInv
        <3>5. CASE reading'[r] # "saveClose"
            <4>1. /\ \A s \in Readers : reading'[s] = "saveClose" => reading[s] = "saveClose"
                  /\ GotAll' => GotAll
                BY <1>1, <2>2, <3>5 DEF GotAll
            <4>2. QED
                BY <1>1, <2>1, <3>2, <4>1 DEF HttpInv, WholeInv, FirstInv
        <3>6. QED
            BY <3>4, <3>5
    <2>7. QED
        BY <2>3, <2>4, <2>5, <2>6 DEF HttpInv
<1>8. QED
    BY <1>6, <1>7

LEMMA SaveFailsInv ==
    ASSUME HttpInv, NEW r \in Readers, SaveFails(r)
    PROVE  HttpInv'
<1>1. /\ Piece /\ Steps(r, "save", "saveFailed") /\ BodyReads
      /\ UNCHANGED <<status, getOnce, kept, returned, file, saved, saves, httpCalls, mixed>>
    BY DEF SaveFails, contentVars, fileVars
<1>2. /\ reading[r] = "save" /\ reading' \in [Readers -> ReaderPlaces] /\ reading'[r] = "saveFailed"
      /\ \A s \in Readers : s # r => reading'[s] = reading[s]
    BY <1>1, StepsFacts DEF ReaderPlaces, UsePlaces
<1>3. /\ body.rest \in Seq(Nat) /\ body.rest # <<>> /\ body.state = "open"
      /\ body' \in [rest : Seq(Nat), state : BodyPlaces]
      /\ body'.rest = Tail(body.rest) /\ body'.state = "open"
    BY <1>1, ReadFacts
<1>4. /\ Range(Tail(body.rest)) \subseteq Range(body.rest)
      /\ OneToOne(body.rest) => OneToOne(Tail(body.rest))
    BY <1>3, PiecesFacts, MoveHead
<1>5. HttpType'
    BY <1>1, <1>2, <1>3 DEF HttpInv, HttpType
<1>6. PieceInv'
    BY <1>1, <1>3, <1>4 DEF HttpInv, PieceInv
<1>7. GetInv'
    BY <1>1, <1>2, <1>3 DEF HttpInv, GetInv, GetPlaces
<1>8. SaveInv'
    BY <1>1, <1>2, <1>3 DEF HttpInv, HttpType, SaveInv
<1>9. WholeInv'
    <2> SUFFICES ASSUME ~mixed PROVE SoleInv' /\ FirstInv'
        BY <1>1 DEF WholeInv
    <2>1. \A s \in Readers : s # r => reading'[s] \notin UsePlaces
        BY <1>2, <1>3 DEF HttpInv, WholeInv, SoleInv, UsePlaces
    <2>2. SoleInv'
        BY <1>2, <1>3, <2>1 DEF SoleInv, UsePlaces
    <2>3. GotAll' => GotAll
        BY <1>1, <1>2 DEF GotAll
    <2>4. QED
        BY <1>1, <1>2, <2>2, <2>3 DEF HttpInv, WholeInv, FirstInv
<1>10. QED
    BY <1>5, <1>6, <1>7, <1>8, <1>9 DEF HttpInv

LEMMA SaveReturnsInv ==
    ASSUME HttpInv, NEW r \in Readers, SaveReturns(r)
    PROVE  HttpInv'
<1>1. /\ reading[r] \in {"saveClose", "saveFailed", "noFile"} /\ reading' = [reading EXCEPT ![r] = "idle"]
      /\ BodyCloses
      /\ UNCHANGED <<status, getOnce, kept, returned, file, httpCalls, mixed>>
    BY DEF SaveReturns, contentVars
<1>2. /\ reading' \in [Readers -> ReaderPlaces] /\ reading'[r] = "idle"
      /\ \A s \in Readers : s # r => reading'[s] = reading[s]
    BY <1>1 DEF HttpInv, HttpType, ReaderPlaces
<1>3. /\ body' \in [rest : Seq(Nat), state : BodyPlaces]
      /\ body'.rest = body.rest /\ body'.state = "closed"
    BY <1>1, CloseFacts
<1>4. \/ reading[r] = "saveClose" /\ saved' = saved \cup {r} /\ saves' = saves + 1
      \/ reading[r] # "saveClose" /\ saved' = saved /\ saves' = saves
    BY DEF SaveReturns
<1>5. saved' \subseteq Readers /\ saves' \in Nat
    BY <1>4 DEF HttpInv, HttpType
<1>6. HttpType' /\ PieceInv'
    BY <1>1, <1>2, <1>3, <1>5 DEF HttpInv, HttpType, PieceInv
<1>7. GetInv'
    BY <1>1, <1>2, <1>3 DEF HttpInv, GetInv, GetPlaces
<1>8. SaveInv'
    BY <1>2, <1>3, <1>4 DEF HttpInv, HttpType, SaveInv
<1>9. WholeInv'
    <2> SUFFICES ASSUME ~mixed PROVE SoleInv' /\ FirstInv'
        BY <1>1 DEF WholeInv
    <2>1. SoleInv'
        BY <1>3 DEF SoleInv
    <2>2. FirstInv
        BY DEF HttpInv, WholeInv
    <2>3. /\ \A s \in Readers : reading'[s] = "saveClose" => reading[s] = "saveClose" /\ s # r
          /\ GotAll' => GotAll
        BY <1>1, <1>2 DEF GotAll
    <2>4. CASE reading[r] = "saveClose"
        <3>1. file[r] = Pieces /\ saves = 0 /\ ~GotAll /\ \A s \in Readers : reading'[s] # "saveClose"
            BY <2>2, <2>3, <2>4 DEF FirstInv
        <3>2. saves' = 1 /\ \A s \in saved' : file'[s] = Pieces
            BY <1>1, <1>4, <2>2, <2>4, <3>1 DEF FirstInv
        <3>3. QED
            BY <2>1, <2>3, <3>1, <3>2 DEF FirstInv
    <2>5. CASE reading[r] # "saveClose"
        BY <1>1, <1>4, <2>1, <2>2, <2>3, <2>5 DEF FirstInv
    <2>6. QED
        BY <2>4, <2>5
<1>10. QED
    BY <1>6, <1>7, <1>8, <1>9 DEF HttpInv

LEMMA HttpNextInv == HttpInv /\ [HttpNext]_httpVars => HttpInv'
<1> SUFFICES ASSUME HttpInv, [HttpNext]_httpVars PROVE HttpInv'
    OBVIOUS
<1>1. CASE HttpNext
    BY <1>1, ConnectionBreaksInv, ExecuteInv, GetContentInv, OnceInv, ReadAllInv, GetClosesInv, GetReturnsInv,
       WriteToInv, CreateFailsInv, SaveStepInv, SaveFailsInv, SaveReturnsInv DEF HttpNext
<1>2. CASE UNCHANGED httpVars
    <2>1. /\ UNCHANGED <<status, body, getOnce, kept, returned, file, saved, saves, reading, httpCalls, mixed>>
        BY <1>2 DEF httpVars, contentVars, fileVars
    <2>2. HttpType' /\ PieceInv'
        BY <2>1 DEF HttpInv, HttpType, PieceInv
    <2>3. GetInv' /\ SaveInv'
        BY <2>1 DEF HttpInv, GetInv, SaveInv
    <2>4. SoleInv' = SoleInv /\ FirstInv' = FirstInv
        BY <2>1 DEF SoleInv, FirstInv, GotAll
    <2>5. QED
        BY <2>1, <2>2, <2>3, <2>4 DEF HttpInv, WholeInv
<1>3. QED
    BY <1>1, <1>2

(* For any threads and any body, and however GetContent and the calls of    *)
(* WriteTo overlap: every GetContent returns what the first one read, no    *)
(* piece goes to two of them, and a body that was used is closed.  Unless   *)
(* two were at the body before it was closed, which the code does not       *)
(* prevent, one of them at most succeeds, and has the whole body            *)
(* (http.go:158-220).                                                       *)
THEOREM BodyAlwaysReadOnce == AppSpec => []BodyReadOnce
<1>1. AppInit => HttpInv
    BY HttpInitInv DEF AppInit
<1>2. [AppNext]_all => [HttpNext]_httpVars
    BY DEF AppNext, all, Dial
<1>3. HttpInv => BodyReadOnce
    <2> SUFFICES ASSUME HttpInv PROVE BodyReadOnce
        OBVIOUS
    <2>1. /\ returned \subseteq {kept} /\ (returned # {} => getOnce = "done")
          /\ getOnce = "done" \/ saves > 0 => body.state = "closed"
        BY DEF HttpInv, GetInv, SaveInv
    <2>2. \A c, d \in returned : c.failed = d.failed /\ (~c.failed => c = d)
        BY <2>1
    <2>3. ASSUME ~mixed
          PROVE  /\ \A c \in Contents : c.bytes = Pieces
                 /\ \A r \in saved : file[r] = Pieces
                 /\ saves <= 1 /\ (saves = 1 => Contents = {})
        <3>1. Contents # {} => GotAll
            BY <2>1 DEF Contents, GotAll
        <3>2. Contents # {} => kept.bytes = Pieces /\ saves = 0
            BY <2>3, <3>1 DEF HttpInv, WholeInv, FirstInv
        <3>3. \A c \in Contents : c.bytes = Pieces
            BY <2>1, <3>2 DEF Contents
        <3>4. saves = 1 => Contents = {}
            BY <3>2
        <3>5. QED
            BY <2>3, <3>3, <3>4 DEF HttpInv, WholeInv, FirstInv
    <2>4. \A r \in Readers : Apart(kept.bytes, file[r])
        BY DEF HttpInv, PieceInv, Range, Apart
    <2>5. \A r, s \in Readers : r # s => Apart(file[r], file[s])
        BY DEF HttpInv, PieceInv, Range, Apart
    <2>6. BodyUsed => body.state = "closed"
        BY <2>1 DEF BodyUsed, HttpInv, SaveInv
    <2>7. QED
        BY <2>2, <2>3, <2>4, <2>5, <2>6 DEF BodyReadOnce
<1>4. QED
    BY <1>1, <1>2, <1>3, HttpNextInv, PTL DEF AppSpec

-----------------------------------------------------------------------------
(* BufferPool: its inductive invariant.                                     *)

Slices == [name : Nat, cap : Nat, len : Nat]

(* The capacities of slices: those of the classes, and those that Put       *)
(* leaves to the garbage collector.                                         *)
Capacities == {2^k : k \in Classes} \cup {0} \cup {c \in Nat : c > Largest}

Fits(s) == s.len <= s.cap /\ 2 * (s.cap - s.len) <= s.cap

PoolInv ==
    /\ made \in Nat /\ lost = {}
    /\ held \subseteq Slices /\ \A s \in held : s.cap \in Capacities /\ Fits(s)
    /\ buffers \in [Classes -> SUBSET Slices]
    /\ \A k \in Classes : \A s \in buffers[k] : s.cap = 2^k

(* The powers of two that msb looks at, one by one: what they have in       *)
(* common would take an induction.                                          *)
Power == [k \in 0..32 |-> 2^k]

LEMMA PowerIs == ASSUME NEW k \in 0..32 PROVE Power[k] = 2^k
BY DEF Power

LEMMA PowerTable ==
    /\ Power[0] = 1 /\ Power[1] = 2 /\ Power[2] = 4 /\ Power[3] = 8
    /\ Power[4] = 16 /\ Power[5] = 32 /\ Power[6] = 64 /\ Power[7] = 128
    /\ Power[8] = 256 /\ Power[9] = 512 /\ Power[10] = 1024 /\ Power[11] = 2048
    /\ Power[12] = 4096 /\ Power[13] = 8192 /\ Power[14] = 16384 /\ Power[15] = 32768
    /\ Power[16] = 65536 /\ Power[17] = 131072 /\ Power[18] = 262144 /\ Power[19] = 524288
    /\ Power[20] = 1048576 /\ Power[21] = 2097152 /\ Power[22] = 4194304 /\ Power[23] = 8388608
    /\ Power[24] = 16777216 /\ Power[25] = 33554432 /\ Power[26] = 67108864 /\ Power[27] = 134217728
    /\ Power[28] = 268435456 /\ Power[29] = 536870912 /\ Power[30] = 1073741824 /\ Power[31] = 2147483648
    /\ Power[32] = 4294967296
<1>1. /\ 2^0 = 1 /\ 2^1 = 2 /\ 2^2 = 4 /\ 2^3 = 8
      /\ 2^4 = 16 /\ 2^5 = 32 /\ 2^6 = 64 /\ 2^7 = 128
      /\ 2^8 = 256 /\ 2^9 = 512 /\ 2^10 = 1024 /\ 2^11 = 2048
      /\ 2^12 = 4096 /\ 2^13 = 8192 /\ 2^14 = 16384 /\ 2^15 = 32768
      /\ 2^16 = 65536 /\ 2^17 = 131072 /\ 2^18 = 262144 /\ 2^19 = 524288
      /\ 2^20 = 1048576 /\ 2^21 = 2097152 /\ 2^22 = 4194304 /\ 2^23 = 8388608
      /\ 2^24 = 16777216 /\ 2^25 = 33554432 /\ 2^26 = 67108864 /\ 2^27 = 134217728
      /\ 2^28 = 268435456 /\ 2^29 = 536870912 /\ 2^30 = 1073741824 /\ 2^31 = 2147483648
      /\ 2^32 = 4294967296
    BY SMT
<1>2. QED
    BY <1>1 DEF Power

LEMMA PowerFacts ==
    ASSUME NEW b \in 0..31
    PROVE  /\ Power[b] \in Nat /\ Power[b] > 0 /\ Power[b + 1] = 2 * Power[b]
           /\ b <= 16 => Power[b] <= Largest
           /\ b > 16 => Power[b] > Largest
BY PowerTable DEF Largest

(* Between two powers of two there is no third one. *)
LEMMA PowersApart ==
    ASSUME NEW b \in 0..31, NEW c \in 0..31, Power[b] < Power[c + 1], Power[c] < Power[b + 1]
    PROVE  b = c
BY PowerTable, SMTT(60)

(* msb finds the highest bit of every size that is not too large. *)
LEMMA MsbIs ==
    ASSUME NEW size \in 1..Largest
    PROVE  msb(size) \in Classes /\ Power[msb(size)] <= size /\ size < Power[msb(size) + 1]
<1> DEFINE OK(b) == 2^b <= size /\ size < 2^(b + 1)
<1>1. size \in Nat /\ size >= 1 /\ size <= 65536
    BY SMTT(30) DEF Largest
<1>2. \E b \in 0..31 : Power[b] <= size /\ size < Power[b + 1]
    BY <1>1, PowerTable, SMTT(60)
<1>3. \A b \in 0..31 : b \in 0..32 /\ b + 1 \in 0..32
    OBVIOUS
<1>4. \E b \in 0..31 : OK(b)
    BY <1>2, <1>3, PowerIs, Zenon
<1>5. msb(size) \in 0..31 /\ OK(msb(size))
    BY <1>4, Zenon DEF msb
<1>6. Power[msb(size)] <= size /\ size < Power[msb(size) + 1]
    BY <1>3, <1>5, PowerIs, Zenon
<1>7. msb(size) <= 16
    <2> DEFINE m == msb(size)
    <2>1. m \in 0..31 /\ Power[m] <= size
        BY <1>5, <1>6
    <2> HIDE DEF m
    <2>2. Power[m] \in Nat /\ (m > 16 => Power[m] > Largest)
        BY <2>1, PowerFacts, Zenon
    <2>3. m <= 16
        BY <1>1, <2>1, <2>2, SMTT(30) DEF Largest
    <2>4. QED
        BY <2>3 DEF m
<1>8. QED
    BY <1>5, <1>6, <1>7 DEF Classes

(* The class of a size is one that the pool has, and its slices are large   *)
(* enough and less than twice too large.                                    *)
LEMMA ClassOfIs ==
    ASSUME NEW size \in 1..Largest
    PROVE  /\ ClassOf(size) \in Classes
           /\ 2^ClassOf(size) \in Capacities /\ 2^ClassOf(size) \in Nat
           /\ size <= 2^ClassOf(size) /\ 2 * (2^ClassOf(size) - size) <= 2^ClassOf(size)
<1> DEFINE m == msb(size)
           c == ClassOf(size)
           cap == 2^c
<1>1. m \in Classes /\ Power[m] <= size /\ size < Power[m + 1]
    BY MsbIs
<1>2. c = IF size = Power[m] THEN m ELSE m + 1
    <2>1. m \in 0..32
        BY <1>1 DEF Classes
    <2>2. Power[m] = 2^m
        BY <2>1, PowerIs, Zenon
    <2>3. QED
        BY <2>2, Zenon DEF ClassOf
<1>3. size \in Nat /\ size <= Largest /\ Largest = 65536
    BY SMTT(30) DEF Largest
<1> HIDE DEF m, c
<1>4. Power[m] \in Nat /\ Power[m + 1] = 2 * Power[m] /\ m \in 0..31
    BY <1>1, PowerFacts DEF Classes
<1>5. c \in Classes
    BY <1>1, <1>2, <1>3, <1>4, PowerTable, SMTT(30) DEF Classes
<1>6. Power[c] \in Nat /\ size <= Power[c] /\ 2 * (Power[c] - size) <= Power[c]
    BY <1>1, <1>2, <1>3, <1>4, SMTT(30)
<1>7. cap = Power[c]
    <2>1. c \in 0..32
        BY <1>5 DEF Classes
    <2>2. QED
        BY <2>1, PowerIs, Zenon
<1>8. cap \in Capacities
    BY <1>5 DEF Capacities
<1> HIDE DEF cap
<1>9. cap \in Nat /\ size <= cap /\ 2 * (cap - size) <= cap
    BY <1>6, <1>7
<1>10. QED
    BY <1>5, <1>8, <1>9 DEF cap, c

(* Put recognises the capacities of the classes. *)
LEMMA PutIs ==
    ASSUME NEW cap \in Capacities, cap # 0, ~(cap > Largest)
    PROVE  cap = 2^msb(cap) /\ msb(cap) \in Classes
<1>1. PICK k \in Classes : cap = 2^k
    BY DEF Capacities
<1>2. k \in 0..31 /\ k \in 0..32
    BY DEF Classes
<1>3. /\ cap = Power[k]
      /\ Power[k] \in Nat /\ Power[k] > 0 /\ Power[k + 1] = 2 * Power[k]
    BY <1>1, <1>2, PowerIs, PowerFacts, Zenon
<1>4. Power[k] < Power[k + 1]
    BY ONLY <1>3
<1>5. cap \in 1..Largest
    <2>1. cap \in Nat /\ cap > 0
        BY <1>3, Zenon
    <2>2. Largest \in Nat
        BY DEF Largest
    <2>3. QED
        BY ONLY <2>1, <2>2, ~(cap > Largest)
<1> DEFINE m == msb(cap)
<1>6. m \in Classes /\ Power[m] <= cap /\ cap < Power[m + 1]
    BY <1>5, MsbIs, Zenon
<1> HIDE DEF m
<1>7. m \in 0..31
    BY <1>6 DEF Classes
<1>8. Power[m] \in Nat
    BY <1>7, PowerFacts, Zenon
<1>9. Power[m] < Power[k + 1] /\ Power[k] < Power[m + 1]
    BY ONLY <1>3, <1>4, <1>6, <1>8
<1>10. m = k
    BY <1>2, <1>7, <1>9, PowersApart, Zenon
<1>11. QED
    BY <1>1, <1>6, <1>10, Zenon DEF m

LEMMA PoolInitInv == PoolInit => PoolInv
BY DEF PoolInit, PoolInv, Classes

LEMMA GetUnpooledInv ==
    ASSUME PoolInv, NEW size \in Sizes, GetUnpooled(size) PROVE PoolInv'
<1> DEFINE s == Slice(made, size, size)
<1>1. size \in Nat /\ made \in Nat
    BY SizesAssumption DEF PoolInv
<1>2. s \in Slices /\ s.cap = size /\ s.len = size
    BY <1>1 DEF Slices, Slice
<1>3. s.cap \in Capacities /\ Fits(s)
    BY <1>1, <1>2 DEF GetUnpooled, Capacities, Fits
<1>4. held' = held \cup {s} /\ made' \in Nat /\ UNCHANGED <<buffers, lost>>
    BY <1>1 DEF GetUnpooled
<1> HIDE DEF s
<1>5. QED
    BY <1>2, <1>3, <1>4 DEF PoolInv

LEMMA GetKeptInv ==
    ASSUME PoolInv, NEW size \in Sizes, GetKept(size) PROVE PoolInv'
<1> DEFINE c == ClassOf(size)
<1>1. size \in 1..Largest /\ size \in Nat
    BY SizesAssumption DEF GetKept
<1>2. PICK s \in buffers[c] : /\ held' = held \cup {[s EXCEPT !.len = size]}
                              /\ buffers' = [buffers EXCEPT ![c] = @ \ {s}]
    BY DEF GetKept
<1>3. c \in Classes /\ UNCHANGED <<lost, made>>
    BY DEF GetKept
<1>4. s \in Slices /\ s.cap = 2^c
    BY <1>2, <1>3 DEF PoolInv
<1> DEFINE t == [s EXCEPT !.len = size]
<1>5. t \in Slices /\ t.cap = 2^c /\ t.len = size
    BY <1>1, <1>4, Zenon DEF Slices
<1>6. t.cap \in Capacities /\ Fits(t)
    BY <1>1, <1>5, ClassOfIs, Zenon DEF Fits
<1>7. held' = held \cup {t}
    BY <1>2
<1> HIDE DEF t, c
<1>8. buffers' \in [Classes -> SUBSET Slices] /\ \A k \in Classes : buffers'[k] \subseteq buffers[k]
    BY <1>2, <1>3 DEF PoolInv
<1>9. QED
    BY <1>3, <1>5, <1>6, <1>7, <1>8, Zenon DEF PoolInv

LEMMA GetNewInv ==
    ASSUME PoolInv, NEW size \in Sizes, GetNew(size) PROVE PoolInv'
<1> DEFINE s == Slice(made, 2^ClassOf(size), size)
<1>1. size \in 1..Largest /\ size \in Nat /\ made \in Nat
    BY SizesAssumption DEF GetNew, PoolInv
<1>2. ClassOf(size) \in Classes /\ 2^ClassOf(size) \in Nat
    BY <1>1, ClassOfIs
<1>3. s \in Slices /\ s.cap = 2^ClassOf(size) /\ s.len = size
    BY <1>1, <1>2, Zenon DEF Slices, Slice
<1>4. s.cap \in Capacities /\ Fits(s)
    BY <1>1, <1>3, ClassOfIs, Zenon DEF Fits
<1>5. held' = held \cup {s} /\ UNCHANGED <<buffers, lost>>
    BY <1>2, Zenon DEF GetNew
<1>6. made' \in Nat
    BY <1>1 DEF GetNew
<1> HIDE DEF s
<1>7. QED
    BY <1>3, <1>4, <1>5, <1>6 DEF PoolInv

LEMMA PutInv ==
    ASSUME PoolInv, NEW s \in held, Put(s) PROVE PoolInv'
<1>1. s \in Slices /\ s.cap \in Capacities /\ held' = held \ {s} /\ made' = made
    BY DEF PoolInv, Put
<1>2. CASE s.cap = 0 \/ s.cap > Largest
    BY <1>1, <1>2, Zenon DEF PoolInv, Put
<1>3. CASE s.cap # 0 /\ ~(s.cap > Largest)
    <2> DEFINE m == msb(s.cap)
    <2>1. s.cap = 2^m /\ m \in Classes
        BY <1>1, <1>3, PutIs, Zenon
    <2>2. buffers' = [buffers EXCEPT ![m] = @ \cup {s}] /\ lost' = lost
        BY <1>3, <2>1, Zenon DEF Put
    <2> HIDE DEF m
    <2>3. buffers' \in [Classes -> SUBSET Slices]
          /\ \A k \in Classes : \A b \in buffers'[k] : b \in buffers[k] \/ (k = m /\ b = s)
        BY <1>1, <2>1, <2>2 DEF PoolInv
    <2>4. QED
        BY <1>1, <2>1, <2>2, <2>3, Zenon DEF PoolInv
<1>4. QED
    BY <1>2, <1>3

LEMMA CollectInv == ASSUME PoolInv, NEW k \in Classes, Collect(k) PROVE PoolInv'
<1>1. buffers' \in [Classes -> SUBSET Slices] /\ \A c \in Classes : buffers'[c] \subseteq buffers[c]
    BY DEF PoolInv, Collect
<1>2. QED
    BY <1>1, Zenon DEF PoolInv, Collect

LEMMA PoolNextInv == PoolInv /\ [PoolNext]_poolVars => PoolInv'
<1> SUFFICES ASSUME PoolInv, [PoolNext]_poolVars PROVE PoolInv'
    OBVIOUS
<1>1. CASE PoolNext
    BY <1>1, GetUnpooledInv, GetKeptInv, GetNewInv, PutInv, CollectInv, Zenon DEF PoolNext
<1>2. CASE UNCHANGED poolVars
    BY <1>2, Zenon DEF poolVars, PoolInv
<1>3. QED
    BY <1>1, <1>2

(* In every behaviour of the pool (alloc.go:34-84) a slice that Get returned *)
(* holds what was asked for and wastes at most half of its memory, a kept    *)
(* one has the capacity of its class, Put refuses nothing that Get returned, *)
(* and Get asks for no class above the last; for any sizes.                  *)
THEOREM BuffersAlwaysFit == AppSpec => []BuffersFit
<1>1. AppInit => PoolInv
    BY PoolInitInv DEF AppInit
<1>2. [AppNext]_all => [PoolNext]_poolVars
    BY Zenon DEF AppNext, all, Dial
<1>3. PoolInv => BuffersFit
    BY DEF PoolInv, BuffersFit, Fits
<1>4. QED
    BY <1>1, <1>2, <1>3, PoolNextInv, PTL DEF AppSpec
-----------------------------------------------------------------------------
(* IpcConn: the inductive invariant.  It says what the stream holds, for    *)
(* either direction, as long as no call has ended within a frame.           *)

IpcType ==
    /\ sent \in 0 .. Len(Datagrams) /\ current \in Nat
    /\ stream \in Seq(Nat \X Nat)
    /\ packets \in Seq([from : Nat, size : Nat])
    /\ headerWritten \in BOOLEAN

Chain(s) == \A k \in 1 .. Len(s) - 1 : Follows(s[k], s[k + 1])

(* The writing side: the last part is the one before what the call writes. *)
WriterInv ==
    /\ step \in {"idle", "addr", "length", "payload"}
    /\ step # "idle" => headerWritten /\ sent < Len(Datagrams)
    /\ ~headerWritten => stream = <<>>
    /\ headerWritten =>
          /\ stream # <<>> /\ stream[1] = <<0, 1>>
          /\ Chain(stream)
          /\ LET p == stream[Len(stream)] IN
             CASE step = "length" -> p = <<sent + 1, 1>>
               [] step = "payload" -> p = <<sent + 1, 3>>
               [] OTHER -> p[1] \in 0..sent /\ p[2] = FrameSize(p[1])

Before(p, q) == p[1] < q[1] \/ (p[1] = q[1] /\ p[2] < q[2])
IsLeft(j, l, n, i, k) == i <= j /\ j <= n /\ 0 < l /\ l <= FrameSize(j) /\ (j = i => l >= k)

(* s is what is left of the frames up to n, from part k of frame i on: only *)
(* and all of it, in order, and no frame with another in between.           *)
OnlyLeft(s, n, i, k) == \A a \in 1 .. Len(s) : IsLeft(s[a][1], s[a][2], n, i, k)
AllLeft(s, n, i, k) ==
    \A j, l \in Nat : IsLeft(j, l, n, i, k) => \E a \in 1 .. Len(s) : s[a][1] = j /\ s[a][2] = l
Sorted(s) == \A a, b \in 1 .. Len(s) : a < b => Before(s[a], s[b])
Unmixed(s) ==
    \A a \in 1 .. Len(s) : \A d \in Nat :
       s[a][2] + d <= FrameSize(s[a][1]) =>
          a + d <= Len(s) /\ s[a + d][1] = s[a][1] /\ s[a + d][2] = s[a][2] + d
Left(s, n, i, k) == OnlyLeft(s, n, i, k) /\ AllLeft(s, n, i, k) /\ Sorted(s) /\ Unmixed(s)

(* The calls of ReadFrom are past the datagrams before i. *)
ReturnedBefore(i) ==
    /\ \A a, b \in 1 .. Len(packets) : a < b => packets[a].from < packets[b].from
    /\ {packets[a] : a \in 1 .. Len(packets)} = {Whole(j) : j \in {j \in 1..i-1 : ~IsRefused(j)}}
    /\ refused = {j \in 1..i-1 : IsRefused(j)}

ReadParts == CASE step = "length" -> 1 [] step = "payload" -> 3 [] OTHER -> 0

ReaderInv ==
    /\ step \in {"idle", "length", "payload"}
    /\ \E i \in 1..sent+1 :
          /\ step # "idle" => i = current /\ i <= sent
          /\ Left(stream, sent, i, ReadParts + 1)
          /\ ReturnedBefore(i)

IpcInv ==
    /\ writing \in BOOLEAN /\ broken \in BOOLEAN
    /\ step = "length" /\ ~writing => ~broken
    /\ ~broken => IpcType /\ IF writing THEN WriterInv ELSE ReaderInv

-----------------------------------------------------------------------------
(* What FrameSize and Parts are. *)

LEMMA FrameSizeIs ==
    /\ FrameSize(0) = 1 /\ Len(Datagrams) \in Nat
    /\ \A i \in Nat : i > 0 /\ i <= Len(Datagrams) =>
          /\ Datagrams[i].size \in Nat /\ Datagrams[i].domain \in BOOLEAN
          /\ FrameSize(i) = 3 + Datagrams[i].size
<1>1. Len(Datagrams) \in Nat /\ \A i \in 1 .. Len(Datagrams) : Datagrams[i] \in [size : Nat, domain : BOOLEAN]
  BY DatagramAssumption, ElementOfSeq, LenProperties DEF DatagramAssumption
<1> QED BY <1>1 DEF FrameSize

LEMMA PartsAre ==
    ASSUME NEW i \in Nat, NEW f \in Nat, NEW l \in Nat, f <= l + 1, f > 0, NEW s, s = Parts(i, f, l),
           NEW n, n = l + 1 - f
    PROVE /\ s \in Seq(Nat \X Nat) /\ Len(s) = n
          /\ \A a \in 1..n : s[a] = <<i, f + a - 1>> /\ s[a][1] = i /\ s[a][2] = f + a - 1
<1>1. n \in Nat OBVIOUS
<1>2. \A a \in 1..n : <<i, f + a - 1>> \in Nat \X Nat OBVIOUS
<1>3. s = [a \in 1..n |-> <<i, f + a - 1>>] BY DEF Parts
<1>4. s \in [1..n -> Nat \X Nat] BY <1>2, <1>3
<1>5. s \in Seq(Nat \X Nat) BY <1>1, <1>4, IsASeq
<1>6. DOMAIN s = 1 .. Len(s) /\ Len(s) \in Nat BY <1>5, LenProperties
<1>7. Len(s) = n BY <1>1, <1>3, <1>6
<1> QED BY <1>3, <1>5, <1>7

LEMMA FrameIs ==
    ASSUME NEW i \in Nat, FrameSize(i) \in Nat
    PROVE /\ Frame(i) \in Seq(Nat \X Nat) /\ Len(Frame(i)) = FrameSize(i)
          /\ \A a \in 1 .. FrameSize(i) : Frame(i)[a][1] = i /\ Frame(i)[a][2] = a
<1> DEFINE l == FrameSize(i) s == Frame(i)
<1>1. l \in Nat /\ 1 <= l + 1 /\ l = l + 1 - 1 /\ \A a \in 1..l : 1 + a - 1 = a OBVIOUS
<1>2. s = Parts(i, 1, l) BY DEF Frame
<1> HIDE DEF l, s
<1>3. s \in Seq(Nat \X Nat) BY <1>1, <1>2, PartsAre
<1>4. Len(s) = l BY <1>1, <1>2, PartsAre
<1>5. \A a \in 1..l : s[a][1] = i /\ s[a][2] = 1 + a - 1 BY <1>1, <1>2 DEF Parts
<1> QED BY <1>1, <1>3, <1>4, <1>5 DEF l, s

(* A sequence without its first m elements, and one with another behind.    *)
LEMMA Rest ==
    ASSUME NEW S, NEW s \in Seq(S), NEW m \in Nat, m <= Len(s)
    PROVE LET t == SubSeq(s, m + 1, Len(s)) IN
          /\ t \in Seq(S) /\ Len(t) = Len(s) - m
          /\ \A a \in 1 .. Len(t) : a \in Nat /\ m + a \in 1 .. Len(s) /\ t[a] = s[m + a] /\ t[a] \in S
<1> DEFINE t == SubSeq(s, m + 1, Len(s)) l == Len(s)
<1>1. l \in Nat BY LenProperties
<1>2. \A a \in 1..l : s[a] \in S BY ElementOfSeq
<1> HIDE DEF l
<1>3. /\ t \in Seq(S)
      /\ Len(t) = (IF m + 1 <= l THEN l - (m + 1) + 1 ELSE 0)
      /\ \A a \in 1 .. l - (m + 1) + 1 : t[a] = s[(m + 1) + a - 1]
  <2>1. m + 1 \in Int /\ l \in Int /\ \A a \in m + 1 .. l : s[a] \in S BY <1>1, <1>2
  <2> QED BY <2>1, SubSeqProperties DEF l
<1> HIDE DEF t
<1>4. m <= l BY DEF l
<1>5. Len(t) = l - m /\ l - (m + 1) + 1 = l - m BY <1>1, <1>3, <1>4
<1>6. \A a \in 1 .. l - m : a \in Nat /\ m + a \in 1..l /\ (m + 1) + a - 1 = m + a BY <1>1, <1>4
<1>7. \A a \in 1 .. l - m : t[a] = s[m + a] BY <1>3, <1>5, <1>6
<1> QED BY <1>2, <1>3, <1>5, <1>6, <1>7 DEF t, l

LEMMA Joined ==
    ASSUME NEW S, NEW s \in Seq(S), NEW f \in Seq(S), NEW t, t = s \o f
    PROVE /\ t \in Seq(S) /\ Len(t) = Len(s) + Len(f) /\ Len(s) \in Nat /\ Len(f) \in Nat
          /\ \A a \in 1 .. Len(s) : t[a] = s[a] /\ t[a] \in S /\ a \in 1 .. Len(t)
          /\ \A a \in 1 .. Len(f) : t[Len(s) + a] = f[a] /\ Len(s) + a \in 1 .. Len(t)
<1> DEFINE l == Len(s) m == Len(f)
<1>1. l \in Nat /\ m \in Nat BY LenProperties
<1>2. \A a \in 1..l : s[a] \in S BY ElementOfSeq
<1>3. /\ t \in Seq(S) /\ Len(t) = l + m
      /\ \A a \in 1 .. l + m : t[a] = IF a <= l THEN s[a] ELSE f[a - l]
  BY ConcatProperties
<1> HIDE DEF l, m
<1>4. \A a \in 1..l : a \in 1 .. l + m /\ a <= l BY <1>1
<1>5. \A a \in 1..m : l + a \in 1 .. l + m /\ ~(l + a <= l) /\ (l + a) - l = a BY <1>1
<1>6. \A a \in 1..m : t[l + a] = f[a] BY <1>3, <1>5
<1>7. \A a \in 1..l : t[a] = s[a] BY <1>3, <1>4
<1> QED BY <1>1, <1>2, <1>3, <1>4, <1>5, <1>6, <1>7 DEF l, m

LEMMA PairsAre ==
    ASSUME NEW s \in Seq(Nat \X Nat)
    PROVE /\ Len(s) \in Nat
          /\ \A a \in 1 .. Len(s) : s[a] \in Nat \X Nat /\ s[a][1] \in Nat /\ s[a][2] \in Nat
<1>1. Len(s) \in Nat BY LenProperties
<1>2. \A a \in 1 .. Len(s) : s[a] \in Nat \X Nat BY ElementOfSeq
<1> QED BY <1>1, <1>2

(* What is left begins with part k of frame i, if there is one, and goes on *)
(* with the parts of i after it.                                            *)
StartsAt(s, m, i, k) == m <= Len(s) /\ \A a \in 1..m : s[a][1] = i /\ s[a][2] = k + a - 1

LEMMA LeftBegins ==
    ASSUME NEW s \in Seq(Nat \X Nat), NEW n \in Nat, NEW i \in 1..n, NEW k \in Nat, k > 0,
           Left(s, n, i, k), NEW m \in Nat, FrameSize(i) \in Nat, k <= FrameSize(i), k + m <= FrameSize(i) + 1
    PROVE StartsAt(s, m, i, k)
<1> DEFINE z == FrameSize(i)
<1>1. z \in Nat /\ k <= z /\ k + m <= z + 1 /\ Len(s) \in Nat BY PairsAre
<1>2. IsLeft(i, k, n, i, k) BY <1>1 DEF IsLeft
<1>3. PICK a \in 1 .. Len(s) : s[a][1] = i /\ s[a][2] = k BY <1>2 DEF Left, AllLeft
<1>4. 1 \in 1 .. Len(s) /\ a \in Nat /\ s[1][1] \in Nat /\ s[1][2] \in Nat BY <1>1, <1>3, PairsAre
<1>5. IsLeft(s[1][1], s[1][2], n, i, k) /\ (1 < a => Before(s[1], s[a]))
  BY <1>4 DEF Left, OnlyLeft, Sorted
<1>6. a = 1
  <2> DEFINE x == s[1][1]
             y == s[1][2]
  <2>1. i <= x /\ (x = i => y >= k) BY <1>5 DEF IsLeft
  <2>2. 1 < a => x < i \/ (x = i /\ y < k) BY <1>3, <1>5 DEF Before
  <2>3. a \in Nat /\ a >= 1 /\ x \in Nat /\ y \in Nat BY <1>3, <1>4
  <2> HIDE DEF x, y
  <2> QED BY <2>1, <2>2, <2>3
<1>7. s[1][1] = i /\ s[1][2] = k BY <1>3, <1>6
<1>8. \A d \in Nat : k + d <= z => 1 + d <= Len(s) /\ s[1 + d][1] = i /\ s[1 + d][2] = k + d
  BY <1>4, <1>7 DEF Left, Unmixed
<1> HIDE DEF z
<1>9. ASSUME NEW b \in 1..m PROVE b <= Len(s) /\ s[b][1] = i /\ s[b][2] = k + b - 1
  <2>1. b - 1 \in Nat /\ k + (b - 1) <= z /\ 1 + (b - 1) = b /\ k + (b - 1) = k + b - 1 BY <1>1
  <2> QED BY <1>8, <2>1
<1>10. m <= Len(s)
  <2>1. CASE m = 0 BY <1>1, <2>1
  <2>2. CASE m > 0
    <3>1. m \in 1..m BY <2>2
    <3> QED BY <1>9, <3>1
  <2> QED BY <2>1, <2>2
<1> QED BY <1>9, <1>10 DEF StartsAt

LEMMA LeftAfter ==
    ASSUME NEW s \in Seq(Nat \X Nat), NEW n \in Nat, NEW i \in 1..n, NEW k \in Nat, k > 0,
           Left(s, n, i, k), NEW m \in Nat, FrameSize(i) \in Nat, k + m <= FrameSize(i) + 1
    PROVE /\ m <= Len(s) /\ SubSeq(s, m + 1, Len(s)) \in Seq(Nat \X Nat)
          /\ Left(SubSeq(s, m + 1, Len(s)), n, i, k + m)
<1> DEFINE t == SubSeq(s, m + 1, Len(s))
<1>1. Len(s) \in Nat /\ \A a \in 1 .. Len(s) : s[a][1] \in Nat /\ s[a][2] \in Nat BY PairsAre
<1>2. m <= Len(s) /\ \A a \in 1..m : s[a][1] = i /\ s[a][2] = k + a - 1
  <2>1. CASE k <= FrameSize(i)
    <3>1. StartsAt(s, m, i, k) BY <2>1, LeftBegins
    <3> QED BY <3>1 DEF StartsAt
  <2>2. CASE ~(k <= FrameSize(i))
    <3>1. m = 0 BY <2>2
    <3> QED BY <1>1, <3>1
  <2> QED BY <2>1, <2>2
<1>3. t \in Seq(Nat \X Nat) /\ Len(t) = Len(s) - m BY <1>2, Rest
<1>4. \A a \in 1 .. Len(t) : a \in Nat /\ m + a \in 1 .. Len(s) /\ t[a] = s[m + a] BY <1>2, Rest
<1> HIDE DEF t
<1>5. ASSUME NEW a \in 1 .. Len(t) PROVE IsLeft(t[a][1], t[a][2], n, i, k + m)
  <2>1. IsLeft(t[a][1], t[a][2], n, i, k) BY <1>4 DEF Left, OnlyLeft
  <2>0. t[a][1] \in Nat /\ t[a][2] \in Nat BY <1>1, <1>4
  <2>2. CASE m = 0 BY <2>1, <2>2 DEF IsLeft
  <2>3. CASE m > 0
    <3>0. m <= Len(s) /\ a > 0 /\ a \in Nat BY <1>2, <1>4
    <3>1. m \in 1..m /\ m \in 1 .. Len(s) /\ m < m + a BY <1>1, <2>3, <3>0
    <3>2. s[m][1] = i /\ s[m][2] = k + m - 1 BY <3>1, <1>2
    <3>3. Before(s[m], t[a]) BY <3>1, <1>4 DEF Left, Sorted
    <3> QED BY <2>0, <2>1, <3>2, <3>3 DEF IsLeft, Before
  <2> QED BY <2>2, <2>3
<1>6. ASSUME NEW j \in Nat, NEW l \in Nat, IsLeft(j, l, n, i, k + m)
      PROVE \E a \in 1 .. Len(t) : t[a][1] = j /\ t[a][2] = l
  <2>1. IsLeft(j, l, n, i, k) BY <1>6 DEF IsLeft
  <2>2. PICK a \in 1 .. Len(s) : s[a][1] = j /\ s[a][2] = l BY <2>1 DEF Left, AllLeft
  <2>3. a > m
    <3> SUFFICES ASSUME a <= m PROVE FALSE BY <1>1
    <3>1. a \in 1..m BY <1>1
    <3>2. j = i /\ l = k + a - 1 BY <1>2, <2>2, <3>1
    <3> QED BY <1>6, <3>1, <3>2 DEF IsLeft
  <2>4. a - m \in 1 .. Len(t) /\ m + (a - m) = a BY <1>1, <1>2, <1>3, <2>3
  <2>5. t[a - m] = s[a] BY <1>4, <2>4
  <2> QED BY <2>2, <2>4, <2>5
<1>7. ASSUME NEW a \in 1 .. Len(t), NEW b \in 1 .. Len(t), a < b PROVE Before(t[a], t[b])
  <2>1. m + a < m + b BY <1>4, <1>7
  <2> QED BY <2>1, <1>4 DEF Left, Sorted
<1>8. ASSUME NEW a \in 1 .. Len(t), NEW d \in Nat, t[a][2] + d <= FrameSize(t[a][1])
      PROVE a + d <= Len(t) /\ t[a + d][1] = t[a][1] /\ t[a + d][2] = t[a][2] + d
  <2> DEFINE c == m + a
  <2>1. c \in 1 .. Len(s) /\ t[a] = s[c] /\ Unmixed(s) BY <1>4 DEF Left
  <2> HIDE DEF c
  <2>2. c + d <= Len(s) /\ s[c + d][1] = t[a][1] /\ s[c + d][2] = t[a][2] + d
    <3>1. s[c][2] + d <= FrameSize(s[c][1]) BY <1>8, <2>1
    <3>2. c + d <= Len(s) /\ s[c + d][1] = s[c][1] /\ s[c + d][2] = s[c][2] + d BY <2>1, <3>1 DEF Unmixed
    <3> QED BY <2>1, <3>2
  <2>3. a + d \in 1 .. Len(t) /\ c + d = m + (a + d) BY <1>1, <1>2, <1>3, <1>4, <2>2 DEF c
  <2>4. t[a + d] = s[c + d] BY <1>4, <2>3
  <2> QED BY <1>1, <1>3, <2>2, <2>3, <2>4
<1>9. Left(t, n, i, k + m) BY <1>5, <1>6, <1>7, <1>8 DEF Left, OnlyLeft, AllLeft, Sorted, Unmixed
<1> QED BY <1>2, <1>3, <1>9 DEF t

(* Past the last part of i is before the first of i + 1. *)
LEMMA LeftNext ==
    ASSUME NEW s \in Seq(Nat \X Nat), NEW n \in Nat, NEW i \in 1..n, FrameSize(i) \in Nat,
           Left(s, n, i, FrameSize(i) + 1)
    PROVE Left(s, n, i + 1, 1)
<1> DEFINE k == FrameSize(i) + 1
<1>1. ASSUME NEW j \in Nat, NEW l \in Nat PROVE IsLeft(j, l, n, i, k) <=> IsLeft(j, l, n, i + 1, 1)
  <2>1. CASE j = i BY <2>1 DEF IsLeft
  <2>2. CASE j # i BY <2>2 DEF IsLeft
  <2> QED BY <2>1, <2>2
<1>2. \A a \in 1 .. Len(s) : s[a][1] \in Nat /\ s[a][2] \in Nat BY PairsAre
<1> HIDE DEF k
<1>3. Left(s, n, i, k) BY DEF k
<1>4. OnlyLeft(s, n, i + 1, 1) BY <1>1, <1>2, <1>3 DEF Left, OnlyLeft
<1>5. AllLeft(s, n, i + 1, 1) BY <1>1, <1>3 DEF Left, AllLeft
<1> QED BY <1>3, <1>4, <1>5 DEF Left

(* The next frame comes behind. *)
LEMMA LeftMore ==
    ASSUME NEW s \in Seq(Nat \X Nat), NEW n \in Nat, NEW i \in 1 .. n + 1, NEW k \in Nat,
           Left(s, n, i, k), i = n + 1 => k = 1, FrameSize(n + 1) \in Nat, FrameSize(n + 1) > 0
    PROVE s \o Frame(n + 1) \in Seq(Nat \X Nat) /\ Left(s \o Frame(n + 1), n + 1, i, k)
<1> DEFINE f == Frame(n + 1) z == FrameSize(n + 1) t == s \o f
<1>1. z \in Nat /\ z > 0 /\ Len(s) \in Nat /\ \A a \in 1 .. Len(s) : s[a][1] \in Nat /\ s[a][2] \in Nat
  BY PairsAre
<1>2. f \in Seq(Nat \X Nat) /\ Len(f) = z /\ \A a \in 1..z : f[a][1] = n + 1 /\ f[a][2] = a
  <2>1. n + 1 \in Nat /\ FrameSize(n + 1) \in Nat OBVIOUS
  <2> QED BY <2>1, FrameIs
<1> HIDE DEF f
<1>3. /\ t \in Seq(Nat \X Nat) /\ Len(t) = Len(s) + z
      /\ \A a \in 1 .. Len(s) : t[a] = s[a] /\ a \in 1 .. Len(t)
      /\ \A a \in 1..z : t[Len(s) + a][1] = n + 1 /\ t[Len(s) + a][2] = a /\ Len(s) + a \in 1 .. Len(t)
  <2>0. t = s \o f OBVIOUS
  <2> HIDE DEF z, t
  <2>1. /\ t \in Seq(Nat \X Nat) /\ Len(t) = Len(s) + Len(f)
        /\ \A a \in 1 .. Len(s) : t[a] = s[a] /\ a \in 1 .. Len(t)
        /\ \A a \in 1 .. Len(f) : t[Len(s) + a] = f[a] /\ Len(s) + a \in 1 .. Len(t)
    BY <1>2, <2>0, Joined
  <2> QED BY <1>2, <2>1
<1> HIDE DEF t
<1>4. ASSUME NEW a \in 1 .. Len(t), a \notin 1 .. Len(s) PROVE \E b \in 1..z : a = Len(s) + b
  <2>1. a - Len(s) \in 1..z /\ a = Len(s) + (a - Len(s)) BY <1>1, <1>3, <1>4
  <2> QED BY <2>1
<1>5. ASSUME NEW a \in 1 .. Len(s) PROVE IsLeft(t[a][1], t[a][2], n, i, k) /\ t[a][1] <= n
  BY <1>3 DEF Left, OnlyLeft, IsLeft
<1>6. ASSUME NEW a \in 1 .. Len(t) PROVE IsLeft(t[a][1], t[a][2], n + 1, i, k)
  <2>1. CASE a \in 1 .. Len(s)
    <3>1. t[a][1] \in Nat /\ t[a][2] \in Nat BY <2>1, <1>1, <1>3
    <3>2. IsLeft(t[a][1], t[a][2], n, i, k) /\ t[a][1] <= n BY <2>1, <1>5
    <3>3. t[a][1] <= n + 1 BY <3>1, <3>2
    <3> QED BY <3>2, <3>3 DEF IsLeft
  <2>2. ASSUME NEW b \in 1..z, a = Len(s) + b PROVE IsLeft(t[a][1], t[a][2], n + 1, i, k)
    <3>1. t[a][1] = n + 1 /\ t[a][2] = b BY <2>2, <1>3
    <3>2. b <= z /\ b > 0 /\ b \in Nat BY <1>1
    <3> QED BY <1>1, <3>1, <3>2 DEF IsLeft
  <2> QED BY <2>1, <2>2, <1>4
<1>7. ASSUME NEW j \in Nat, NEW l \in Nat, IsLeft(j, l, n + 1, i, k)
      PROVE \E a \in 1 .. Len(t) : t[a][1] = j /\ t[a][2] = l
  <2>1. CASE j = n + 1
    <3>1. l \in 1..z BY <1>1, <1>7, <2>1 DEF IsLeft
    <3> QED BY <2>1, <3>1, <1>3
  <2>2. CASE j # n + 1
    <3>1. IsLeft(j, l, n, i, k) BY <1>7, <2>2 DEF IsLeft
    <3>2. PICK a \in 1 .. Len(s) : s[a][1] = j /\ s[a][2] = l BY <3>1 DEF Left, AllLeft
    <3> QED BY <3>2, <1>3
  <2> QED BY <2>1, <2>2
<1>8. ASSUME NEW a \in 1 .. Len(t), NEW b \in 1 .. Len(t), a < b PROVE Before(t[a], t[b])
  <2>1. CASE b \in 1 .. Len(s)
    <3>1. a \in 1 .. Len(s) BY <2>1, <1>8, <1>1, <1>3
    <3>2. Before(s[a], s[b]) BY <2>1, <3>1, <1>8 DEF Left, Sorted
    <3> QED BY <2>1, <3>1, <3>2, <1>3
  <2>2. ASSUME NEW d \in 1..z, b = Len(s) + d PROVE Before(t[a], t[b])
    <3>0. t[b][1] = n + 1 /\ t[b][2] = d BY <1>3, <2>2
    <3>1. CASE a \in 1 .. Len(s)
      <4>1. t[a][1] \in Nat /\ t[a][1] <= n BY <3>1, <1>1, <1>3, <1>5
      <4> QED BY <3>0, <4>1 DEF Before
    <3>2. ASSUME NEW c \in 1..z, a = Len(s) + c PROVE Before(t[a], t[b])
      <4>1. t[a][1] = n + 1 /\ t[a][2] = c BY <1>3, <3>2
      <4>2. c < d BY <1>1, <1>8, <2>2, <3>2
      <4> QED BY <3>0, <4>1, <4>2 DEF Before
    <3> QED BY <3>1, <3>2, <1>4
  <2> QED BY <2>1, <2>2, <1>4
<1>9. ASSUME NEW a \in 1 .. Len(t), NEW d \in Nat, t[a][2] + d <= FrameSize(t[a][1])
      PROVE a + d <= Len(t) /\ t[a + d][1] = t[a][1] /\ t[a + d][2] = t[a][2] + d
  <2>1. CASE a \in 1 .. Len(s)
    <3>1. t[a] = s[a] BY <2>1, <1>3
    <3>2. a + d <= Len(s) /\ s[a + d][1] = t[a][1] /\ s[a + d][2] = t[a][2] + d
      BY <2>1, <3>1, <1>9 DEF Left, Unmixed
    <3>3. a + d \in 1 .. Len(s)
      <4>1. a \in Nat /\ a > 0 /\ Len(s) \in Nat BY <1>1, <2>1
      <4>2. a + d <= Len(s) BY <3>2
      <4> QED BY <4>1, <4>2
    <3>4. t[a + d] = s[a + d] /\ a + d <= Len(t) BY <3>3, <1>1, <1>3
    <3> QED BY <3>2, <3>4
  <2>2. ASSUME NEW b \in 1..z, a = Len(s) + b
        PROVE a + d <= Len(t) /\ t[a + d][1] = t[a][1] /\ t[a + d][2] = t[a][2] + d
    <3>1. t[a][1] = n + 1 /\ t[a][2] = b BY <1>3, <2>2
    <3>2. b + d <= z BY <1>9, <3>1
    <3>3. b + d \in 1..z /\ a + d = Len(s) + (b + d) BY <1>1, <2>2, <3>2
    <3>4. t[a + d][1] = n + 1 /\ t[a + d][2] = b + d /\ a + d \in 1 .. Len(t) BY <1>3, <3>3
    <3>5. a + d <= Len(t) BY <1>1, <1>3, <3>4
    <3> QED BY <3>1, <3>4, <3>5
  <2> QED BY <2>1, <2>2, <1>4
<1>10. Left(t, n + 1, i, k) BY <1>6, <1>7, <1>8, <1>9 DEF Left, OnlyLeft, AllLeft, Sorted, Unmixed
<1> QED BY <1>3, <1>10 DEF t, f

-----------------------------------------------------------------------------
(* IpcConn, ReadFrom: every call that ends without breaking the framing     *)
(* takes one frame, and returns what it is of.                              *)

LEMMA FrameSizes ==
    ASSUME NEW i \in Nat, i > 0, i <= Len(Datagrams)
    PROVE /\ Datagrams[i].size \in Nat /\ FrameSize(i) = 3 + Datagrams[i].size
          /\ FrameSize(i) \in Nat /\ FrameSize(i) > 0
  BY FrameSizeIs

ReaderSame == UNCHANGED <<writing, sent, headerWritten, noDomainResponse>>

LEMMA PeerSendsInv ==
    ASSUME IpcType, ReaderInv, ~writing, PeerSends
    PROVE IpcType' /\ ReaderInv'
<1>1. /\ sent < Len(Datagrams) /\ sent' = sent + 1 /\ stream' = stream \o Frame(sent + 1)
      /\ UNCHANGED <<step, current, headerWritten, noDomainResponse, packets, refused>>
  BY DEF PeerSends
<1>2. /\ sent \in Nat /\ Len(Datagrams) \in Nat /\ stream \in Seq(Nat \X Nat)
      /\ FrameSize(sent + 1) \in Nat /\ FrameSize(sent + 1) > 0
  <2>1. sent \in Nat /\ Len(Datagrams) \in Nat /\ stream \in Seq(Nat \X Nat) BY FrameSizeIs DEF IpcType
  <2>2. sent + 1 \in Nat /\ sent + 1 > 0 /\ sent + 1 <= Len(Datagrams) BY <1>1, <2>1
  <2> QED BY <2>1, <2>2, FrameSizes
<1>3. PICK i \in 1 .. sent + 1 :
         /\ step # "idle" => i = current /\ i <= sent
         /\ Left(stream, sent, i, ReadParts + 1) /\ ReturnedBefore(i)
  BY DEF ReaderInv
<1>4. ReadParts + 1 \in Nat /\ (i = sent + 1 => ReadParts + 1 = 1)
  BY <1>2, <1>3 DEF ReadParts, ReaderInv
<1>5. stream' \in Seq(Nat \X Nat) /\ Left(stream', sent', i, ReadParts + 1)
  <2> DEFINE k == ReadParts + 1
  <2>1. k \in Nat /\ (i = sent + 1 => k = 1) /\ Left(stream, sent, i, k) BY <1>3, <1>4
  <2> HIDE DEF k
  <2>2. stream' \in Seq(Nat \X Nat) BY <1>1, <1>2, <2>1, LeftMore
  <2>3. Left(stream \o Frame(sent + 1), sent + 1, i, k) BY <1>2, <2>1, LeftMore
  <2> QED BY <1>1, <2>2, <2>3 DEF k
<1>6. ReadParts' = ReadParts /\ ReturnedBefore(i)' BY <1>1, <1>3 DEF ReadParts, ReturnedBefore, IsRefused
<1>7. IpcType' BY <1>1, <1>2, <1>5 DEF IpcType
<1>8. i \in 1 .. sent' + 1 /\ (step' # "idle" => i = current' /\ i <= sent') BY <1>1, <1>2, <1>3
<1> QED BY <1>1, <1>5, <1>6, <1>7, <1>8 DEF ReaderInv

(* n parts of frame i are taken. *)
LEMMA TakesInv ==
    ASSUME IpcType, NEW i \in 1..sent, NEW k \in Nat, k > 0, Left(stream, sent, i, k),
           NEW n \in Nat, k + n <= FrameSize(i) + 1, Takes(n)
    PROVE stream' \in Seq(Nat \X Nat) /\ Left(stream', sent, i, k + n)
<1>1. sent \in Nat /\ stream \in Seq(Nat \X Nat) /\ i \in Nat /\ i > 0 /\ i <= Len(Datagrams)
  BY FrameSizeIs DEF IpcType
<1>2. FrameSize(i) \in Nat BY <1>1, FrameSizes
<1>3. stream' = SubSeq(stream, n + 1, Len(stream)) BY DEF Takes
<1> QED BY <1>1, <1>2, <1>3, LeftAfter

LEMMA ReadAddressInv ==
    ASSUME IpcType, ReaderInv, ReadAddress
    PROVE IpcType' /\ ReaderInv'
<1>1. /\ step = "idle" /\ step' = "length" /\ stream # <<>> /\ current' = Head(stream)[1] /\ Takes(1)
      /\ ReaderSame /\ UNCHANGED <<packets, refused>>
  BY DEF ReadAddress, IpcGoto, Takes, ReaderSame
<1>2. sent \in Nat /\ stream \in Seq(Nat \X Nat) /\ sent <= Len(Datagrams) /\ Len(Datagrams) \in Nat
  BY FrameSizeIs DEF IpcType
<1>3. PICK i \in 1 .. sent + 1 : Left(stream, sent, i, 1) /\ ReturnedBefore(i)
  BY <1>1 DEF ReaderInv, ReadParts
<1>4. Len(stream) \in Nat /\ Len(stream) > 0 /\ stream[1][1] \in Nat /\ current' = stream[1][1]
  <2>1. Len(stream) > 0 /\ Head(stream) = stream[1] BY <1>1, <1>2
  <2>2. 1 \in 1 .. Len(stream) BY <2>1, <1>2
  <2> QED BY <1>1, <1>2, <2>1, <2>2, PairsAre
<1>5. i \in 1..sent
  <2>1. IsLeft(stream[1][1], stream[1][2], sent, i, 1) BY <1>3, <1>4 DEF Left, OnlyLeft
  <2> QED BY <1>2, <1>4, <2>1 DEF IsLeft
<1>6. FrameSize(i) \in Nat /\ FrameSize(i) > 0
  <2>1. i \in Nat /\ i > 0 /\ i <= Len(Datagrams) BY <1>2, <1>5
  <2> QED BY <2>1, FrameSizes
<1>7. current' = i
  <2>1. 1 \in Nat /\ 1 > 0 /\ 1 <= FrameSize(i) /\ 1 + 1 <= FrameSize(i) + 1 BY <1>6
  <2>2. StartsAt(stream, 1, i, 1) BY <1>2, <1>3, <1>5, <1>6, <2>1, LeftBegins
  <2> QED BY <1>4, <2>2 DEF StartsAt
<1>8. stream' \in Seq(Nat \X Nat) /\ Left(stream', sent, i, 1 + 1)
  <2>1. 1 + 1 <= FrameSize(i) + 1 BY <1>6
  <2> QED BY <1>1, <1>3, <1>5, <2>1, TakesInv
<1>9. ReturnedBefore(i)' BY <1>1, <1>3 DEF ReturnedBefore, IsRefused, ReaderSame
<1>10. IpcType' BY <1>1, <1>5, <1>7, <1>8 DEF IpcType, ReaderSame
<1>11. ReadParts' + 1 = 1 + 1 /\ sent' = sent BY <1>1 DEF ReadParts, ReaderSame
<1>12. i \in 1 .. sent' + 1 /\ i <= sent' BY <1>2, <1>5, <1>11
<1> QED BY <1>1, <1>7, <1>8, <1>9, <1>10, <1>11, <1>12 DEF ReaderInv

LEMMA ReadLengthInv ==
    ASSUME IpcType, ReaderInv, ReadLength, ~broken'
    PROVE IpcType' /\ ReaderInv'
<1>1. /\ step = "length" /\ step' = "payload" /\ Takes(2)
      /\ ReaderSame /\ UNCHANGED <<current, packets, refused>>
  <2>1. PICK n \in 1..2 : Takes(n) /\ broken' = (n < 2) BY DEF ReadLength
  <2>2. ~(n < 2) BY <2>1
  <2>3. n = 2 BY <2>2
  <2> QED BY <2>1, <2>3 DEF ReadLength, IpcGoto, Takes, ReaderSame
<1>2. sent \in Nat /\ stream \in Seq(Nat \X Nat) /\ sent <= Len(Datagrams) /\ Len(Datagrams) \in Nat
  BY FrameSizeIs DEF IpcType
<1>3. PICK i \in 1 .. sent + 1 : i = current /\ i <= sent /\ Left(stream, sent, i, 2) /\ ReturnedBefore(i)
  BY <1>1 DEF ReaderInv, ReadParts
<1>4. FrameSize(i) \in Nat /\ FrameSize(i) >= 3
  <2>1. i \in Nat /\ i > 0 /\ i <= Len(Datagrams) BY <1>2, <1>3
  <2> QED BY <2>1, FrameSizes
<1>5. stream' \in Seq(Nat \X Nat) /\ Left(stream', sent, i, 2 + 2)
  <2>1. 2 + 2 <= FrameSize(i) + 1 /\ i \in 1..sent BY <1>2, <1>3, <1>4
  <2> QED BY <1>1, <1>3, <2>1, TakesInv
<1>6. ReturnedBefore(i)' BY <1>1, <1>3 DEF ReturnedBefore, IsRefused, ReaderSame
<1>7. IpcType' BY <1>1, <1>5 DEF IpcType, ReaderSame
<1>8. ReadParts' + 1 = 2 + 2 /\ sent' = sent BY <1>1 DEF ReadParts, ReaderSame
<1> QED BY <1>1, <1>3, <1>5, <1>6, <1>7, <1>8 DEF ReaderInv

LEMMA TakenWhole ==
    ASSUME NEW i, Datagrams[i].size \in Nat, ~broken, ~(BufferSize < Datagrams[i].size)
    PROVE Taken(i) = Datagrams[i].size
<1> DEFINE n == Datagrams[i].size
<1>1. n <= BufferSize /\ BufferSize \in Nat BY DatagramAssumption DEF DatagramAssumption
<1>2. Min({n, BufferSize}) = n BY <1>1 DEF Min
<1> QED BY <1>2 DEF Taken

LEMMA ReturnInv ==
    ASSUME packets \in Seq([from : Nat, size : Nat]), NEW i \in Nat, i > 0, Datagrams[i].size \in Nat,
           ReturnedBefore(i), Return(i, Datagrams[i].size), UNCHANGED noDomainResponse
    PROVE packets' \in Seq([from : Nat, size : Nat]) /\ ReturnedBefore(i + 1)'
<1> DEFINE Kept(j) == {m \in 1..j-1 : ~IsRefused(m)}
<1>1. /\ \A a, b \in 1 .. Len(packets) : a < b => packets[a].from < packets[b].from
      /\ {packets[a] : a \in 1 .. Len(packets)} = {Whole(j) : j \in Kept(i)}
      /\ refused = {j \in 1..i-1 : IsRefused(j)}
  BY DEF ReturnedBefore
<1>2. \A j : IsRefused(j)' = IsRefused(j) BY DEF IsRefused
<1>3. 1 .. (i + 1) - 1 = (1..i-1) \cup {i} /\ i \notin 1..i-1 OBVIOUS
<1>4. Len(packets) \in Nat /\ \A a \in 1 .. Len(packets) : packets[a].from \in Nat
  <2>1. \A a \in 1 .. Len(packets) : packets[a] \in [from : Nat, size : Nat] BY ElementOfSeq
  <2> QED BY <2>1, LenProperties
<1>5. refused' = {j \in 1 .. (i + 1) - 1 : IsRefused(j)} BY <1>1, <1>3 DEF Return
<1>6. CASE IsRefused(i)
  <2>1. packets' = packets /\ Kept(i + 1) = Kept(i) BY <1>3, <1>6 DEF Return
  <2> QED BY <1>1, <1>2, <1>5, <2>1 DEF ReturnedBefore
<1>7. CASE ~IsRefused(i)
  <2> DEFINE l == Len(packets)
  <2>1. packets' = Append(packets, Whole(i)) /\ Kept(i + 1) = Kept(i) \cup {i}
    BY <1>3, <1>7 DEF Return, Whole
  <2>2. Whole(i) \in [from : Nat, size : Nat] /\ Whole(i).from = i BY DEF Whole
  <2>3. /\ packets' \in Seq([from : Nat, size : Nat]) /\ Len(packets') = l + 1
        /\ (\A a \in 1..l : packets'[a] = packets[a]) /\ packets'[l + 1] = Whole(i)
    BY <2>1, <2>2, AppendProperties
  <2>4. \A a \in 1 .. l + 1 : a \in 1..l \/ a = l + 1 BY <1>4
  <2>5. \A a \in 1..l : packets[a].from < i
    <3> SUFFICES ASSUME NEW a \in 1..l PROVE packets[a].from < i OBVIOUS
    <3>1. packets[a] \in {Whole(j) : j \in Kept(i)} BY <1>1
    <3>2. PICK j \in 1..i-1 : packets[a] = Whole(j) BY <3>1
    <3> QED BY <3>2 DEF Whole
  <2>6. \A a, b \in 1 .. l + 1 : a < b => packets'[a].from < packets'[b].from
    <3> SUFFICES ASSUME NEW a \in 1 .. l + 1, NEW b \in 1 .. l + 1, a < b
                 PROVE packets'[a].from < packets'[b].from
      OBVIOUS
    <3>1. a \in 1..l BY <1>4
    <3>2. CASE b \in 1..l BY <1>1, <2>3, <3>1, <3>2
    <3>3. CASE b = l + 1 BY <2>2, <2>3, <2>5, <3>1, <3>3
    <3> QED BY <2>4, <3>2, <3>3
  <2>7. {packets'[a] : a \in 1 .. l + 1} = {Whole(j) : j \in Kept(i + 1)}
    <3>1. {packets'[a] : a \in 1 .. l + 1} = {packets[a] : a \in 1..l} \cup {Whole(i)}
      <4>1. l + 1 \in 1 .. l + 1 /\ \A a \in 1..l : a \in 1 .. l + 1 BY <1>4
      <4> QED BY <2>3, <2>4, <4>1
    <3> QED BY <1>1, <2>1, <3>1
  <2> QED BY <1>2, <1>5, <2>3, <2>6, <2>7 DEF ReturnedBefore
<1> QED BY <1>6, <1>7

LEMMA ReadPayloadInv ==
    ASSUME IpcType, ReaderInv, ~broken, ReadPayload, ~broken'
    PROVE IpcType' /\ ReaderInv'
<1>1. /\ step = "payload" /\ step' = "idle" /\ Takes(Taken(current)) /\ Return(current, Taken(current))
      /\ ReaderSame /\ current' = current /\ ~(BufferSize < Datagrams[current].size)
  BY DEF ReadPayload, IpcGoto, Takes, ReaderSame, Return
<1>2. sent \in Nat /\ stream \in Seq(Nat \X Nat) /\ sent <= Len(Datagrams) /\ Len(Datagrams) \in Nat
  BY FrameSizeIs DEF IpcType
<1>3. PICK i \in 1 .. sent + 1 : i = current /\ i <= sent /\ Left(stream, sent, i, 4) /\ ReturnedBefore(i)
  BY <1>1 DEF ReaderInv, ReadParts
<1> DEFINE n == Datagrams[i].size
<1>4. n \in Nat /\ FrameSize(i) = 3 + n /\ FrameSize(i) \in Nat /\ i \in 1..sent BY <1>2, <1>3, FrameSizes
<1>5. Taken(i) = n BY <1>1, <1>3, <1>4, TakenWhole
<1>6. stream' \in Seq(Nat \X Nat) /\ Left(stream', sent, i + 1, 1)
  <2>1. Takes(n) /\ 4 + n <= FrameSize(i) + 1 /\ 4 + n = FrameSize(i) + 1 BY <1>1, <1>3, <1>4, <1>5
  <2> HIDE DEF n
  <2>2. stream' \in Seq(Nat \X Nat) /\ Left(stream', sent, i, 4 + n) BY <1>3, <1>4, <2>1, TakesInv
  <2> QED BY <1>2, <1>4, <2>1, <2>2, LeftNext
<1>7. packets' \in Seq([from : Nat, size : Nat]) /\ ReturnedBefore(i + 1)'
  <2>1. packets \in Seq([from : Nat, size : Nat]) /\ i \in Nat /\ i > 0 BY <1>2, <1>4 DEF IpcType
  <2>2. Return(i, n) /\ UNCHANGED noDomainResponse BY <1>1, <1>3, <1>5 DEF ReaderSame
  <2> QED BY <1>3, <1>4, <2>1, <2>2, ReturnInv
<1>8. IpcType' BY <1>1, <1>6, <1>7 DEF IpcType, ReaderSame
<1>9. ReadParts' + 1 = 1 /\ sent' = sent BY <1>1 DEF ReadParts, ReaderSame
<1>10. i + 1 \in 1 .. sent' + 1 BY <1>2, <1>4, <1>9
<1> QED BY <1>1, <1>6, <1>7, <1>8, <1>9, <1>10 DEF ReaderInv

LEMMA ReadFailsInv ==
    ASSUME IpcType, ReaderInv, ReadFails, ~broken'
    PROVE IpcType' /\ ReaderInv'
<1>1. /\ step = "idle" /\ step' = "idle" /\ Takes(0) /\ ReaderSame /\ UNCHANGED <<current, packets, refused>>
  <2>1. PICK n \in 0 .. (IF step = "payload" THEN Taken(current) ELSE 1) : Takes(n) /\ broken' = (n > 0 \/ step # "idle")
    BY DEF ReadFails
  <2>2. step = "idle" BY <2>1
  <2>3. n = 0
    <3>1. n \in 0..1 BY <2>1, <2>2
    <3>2. ~(n > 0) BY <2>1
    <3> QED BY <3>1, <3>2
  <2> QED BY <2>1, <2>2, <2>3 DEF ReadFails, Takes, ReaderSame
<1>2. stream' = stream
  <2>1. stream \in Seq(Nat \X Nat) BY DEF IpcType
  <2> QED BY <1>1, <2>1, SubSeqFull DEF Takes
<1>3. ReadParts' = ReadParts BY <1>1 DEF ReadParts
<1>4. PICK i \in 1 .. sent + 1 : Left(stream, sent, i, ReadParts + 1) /\ ReturnedBefore(i)
  BY DEF ReaderInv
<1>5. ReturnedBefore(i)' BY <1>1, <1>4 DEF ReturnedBefore, IsRefused, ReaderSame
<1> QED BY <1>1, <1>2, <1>3, <1>4, <1>5 DEF IpcType, ReaderInv, ReaderSame

-----------------------------------------------------------------------------
(* IpcConn, WriteTo: what a Write puts behind follows the part before it.   *)

Extended(s, t, first, last) ==
    /\ t \in Seq(Nat \X Nat) /\ t # <<>> /\ t[Len(t)] = last /\ Chain(t)
    /\ t[1] = IF s = <<>> THEN first ELSE s[1]

LEMMA ChainMore ==
    ASSUME NEW s \in Seq(Nat \X Nat), Chain(s), NEW j \in Nat, NEW f \in Nat, NEW l \in Nat, 0 < f, f <= l,
           FrameSize(j) \in Nat, l <= FrameSize(j), NEW t, t = s \o Parts(j, f, l),
           s = <<>> \/ Follows(s[Len(s)], <<j, f>>)
    PROVE Extended(s, t, <<j, f>>, <<j, l>>)
<1> DEFINE p == Parts(j, f, l) n == l + 1 - f m == Len(s)
<1>1. n \in Nat /\ n > 0 /\ n = l + 1 - f /\ f <= l + 1 /\ f > 0 /\ m \in Nat BY PairsAre
<1> HIDE DEF n
<1>2. p \in Seq(Nat \X Nat) /\ Len(p) = n /\ \A a \in 1..n : p[a] = <<j, f + a - 1>>
  <2> DEFINE r == p
  <2>1. r = Parts(j, f, l) OBVIOUS
  <2> HIDE DEF r
  <2>2. r \in Seq(Nat \X Nat) BY <1>1, <2>1, PartsAre
  <2>3. Len(r) = n
    <3>1. DOMAIN r = 1..n BY <1>1, <2>1 DEF Parts
    <3>2. 1..n = 1 .. Len(r) /\ Len(r) \in Nat BY <2>2, <3>1, LenProperties
    <3>3. n \in 1..n /\ 1 \in 1..n BY <1>1
    <3>4. n <= Len(r) /\ 1 <= Len(r) BY <3>2, <3>3
    <3>5. Len(r) \in 1 .. Len(r) BY <3>2, <3>4
    <3>6. Len(r) \in 1..n BY <3>2, <3>5, Zenon
    <3> QED BY <1>1, <3>2, <3>4, <3>6
  <2>4. \A a \in 1..n : r[a] = <<j, f + a - 1>> BY <1>1, <2>1 DEF Parts
  <2> QED BY <2>2, <2>3, <2>4 DEF r
<1>3. t = s \o p OBVIOUS
<1> HIDE DEF p
<1>4. /\ t \in Seq(Nat \X Nat) /\ Len(t) = m + Len(p)
      /\ \A a \in 1..m : t[a] = s[a]
      /\ \A a \in 1 .. Len(p) : t[m + a] = p[a]
  <2> DEFINE S == Nat \X Nat
  <2>1. s \in Seq(S) /\ p \in Seq(S) BY <1>2
  <2> HIDE DEF S
  <2>2. t \in Seq(S) /\ Len(t) = Len(s) + Len(p) BY <1>3, <2>1, Joined
  <2>3. \A a \in 1 .. Len(s) : t[a] = s[a] BY <1>3, <2>1, Joined
  <2>4. \A a \in 1 .. Len(p) : t[Len(s) + a] = p[a] /\ Len(s) + a \in 1 .. Len(t)
    BY <1>3, <2>1, Joined, Zenon
  <2> QED BY <2>2, <2>3, <2>4 DEF S
<1>5. Len(t) = m + n /\ \A a \in 1..n : t[m + a] = <<j, f + a - 1>> BY <1>2, <1>4
<1> HIDE DEF m
<1>6. t # <<>> /\ t[Len(t)] = <<j, l>>
  <2>1. n \in 1..n /\ f + n - 1 = l BY <1>1
  <2>2. t[m + n] = <<j, l>> BY <1>5, <2>1
  <2> QED BY <1>1, <1>5, <2>2
<1>7. s # <<>> => t[1] = s[1]
  <2>1. s # <<>> => 1 \in 1..m BY <1>1 DEF m
  <2> QED BY <1>4, <2>1
<1>8. s = <<>> => t[1] = <<j, f>>
  <2>1. s = <<>> => m = 0 BY DEF m
  <2>2. 1 \in 1..n /\ f + 1 - 1 = f BY <1>1
  <2>3. t[m + 1] = <<j, f>> BY <1>5, <2>2
  <2> QED BY <2>1, <2>3
<1>9. ASSUME NEW k \in 1 .. Len(t) - 1 PROVE Follows(t[k], t[k + 1])
  <2>1. k \in 1 .. m - 1 \/ (k = m /\ m > 0) \/ (k - m \in 1..n-1)
    <3>1. m \in Nat /\ n \in Nat /\ k \in Nat /\ k > 0 /\ k <= m + n - 1 BY <1>1, <1>5
    <3> QED BY <3>1
  <2>2. CASE k \in 1 .. m - 1
    <3>1. k \in 1..m /\ k + 1 \in 1..m BY <1>1, <2>2
    <3> QED BY <1>4, <2>2, <3>1 DEF Chain, m
  <2>3. CASE k = m /\ m > 0
    <3>1. m \in 1..m /\ 1 \in 1..n /\ f + 1 - 1 = f BY <1>1, <2>3
    <3>2. t[k] = s[Len(s)] /\ s # <<>> BY <1>4, <2>3, <3>1 DEF m
    <3>3. t[k + 1] = <<j, f>> BY <1>5, <2>3, <3>1
    <3> QED BY <3>2, <3>3
  <2>4. CASE k - m \in 1 .. n - 1
    <3> DEFINE a == k - m
    <3>1. a \in 1..n /\ a + 1 \in 1..n /\ k = m + a /\ k + 1 = m + (a + 1) BY <1>1, <2>4
    <3>2. f + a - 1 < FrameSize(j) /\ f + (a + 1) - 1 = (f + a - 1) + 1 /\ (f + a - 1) + 1 \in Nat BY <1>1, <3>1
    <3>3. t[k] = <<j, f + a - 1>> /\ t[k + 1] = <<j, (f + a - 1) + 1>> BY <1>5, <3>1, <3>2
    <3> QED BY <3>2, <3>3 DEF Follows
  <2> QED BY <2>1, <2>2, <2>3, <2>4
<1> QED BY <1>4, <1>6, <1>7, <1>8, <1>9 DEF Chain, Extended

WriterSame == UNCHANGED <<current, packets>>

(* The frame that a call is at, and the part that is the last written.      *)
LEMMA WriterFacts ==
    ASSUME IpcType, WriterInv, sent < Len(Datagrams)
    PROVE /\ stream \in Seq(Nat \X Nat) /\ sent \in Nat /\ sent + 1 \in Nat
          /\ FrameSize(0) = 1 /\ FrameSize(sent + 1) \in Nat /\ FrameSize(sent + 1) >= 3
          /\ headerWritten => stream # <<>> /\ stream[1] = <<0, 1>> /\ Chain(stream)
<1>1. sent \in Nat /\ Len(Datagrams) \in Nat /\ stream \in Seq(Nat \X Nat) BY FrameSizeIs DEF IpcType
<1>2. sent + 1 \in Nat /\ sent + 1 > 0 /\ sent + 1 <= Len(Datagrams) BY <1>1
<1>3. FrameSize(sent + 1) \in Nat /\ FrameSize(sent + 1) >= 3 BY <1>2, FrameSizes
<1> QED BY <1>1, <1>2, <1>3, FrameSizeIs DEF WriterInv

LEMMA WriteHeaderInv ==
    ASSUME IpcType, WriterInv, WriteHeader
    PROVE IpcType' /\ WriterInv'
<1>1. /\ step = "idle" /\ step' = "addr" /\ sent < Len(Datagrams) /\ headerWritten' = TRUE /\ sent' = sent
      /\ stream' = stream \o (IF headerWritten THEN <<>> ELSE Frame(0)) /\ WriterSame
  BY DEF WriteHeader, IpcGoto, Writes, Due, WriterSame
<1>2. /\ stream \in Seq(Nat \X Nat) /\ sent \in Nat /\ FrameSize(0) = 1
      /\ headerWritten => stream # <<>> /\ stream[1] = <<0, 1>> /\ Chain(stream)
  BY <1>1, WriterFacts
<1>3. CASE headerWritten
  <2>1. stream' = stream BY <1>1, <1>2, <1>3, ConcatEmptySeq
  <2> QED BY <1>1, <1>2, <1>3, <2>1 DEF IpcType, WriterInv, WriterSame
<1>4. CASE ~headerWritten
  <2>1. stream = <<>> /\ stream' = stream \o Parts(0, 1, 1) /\ Chain(stream)
    BY <1>1, <1>2, <1>4 DEF WriterInv, Frame, Chain
  <2> DEFINE t == stream'
  <2>2. t = stream \o Parts(0, 1, 1) BY <2>1
  <2> HIDE DEF t
  <2>3. /\ t \in Seq(Nat \X Nat) /\ t # <<>> /\ t[Len(t)] = <<0, 1>> /\ Chain(t) /\ t[1] = <<0, 1>>
    <3>1. 0 \in Nat /\ 1 \in Nat /\ 0 < 1 /\ 1 <= 1 /\ 1 <= FrameSize(0) /\ FrameSize(0) \in Nat BY <1>2
    <3>2. Extended(stream, t, <<0, 1>>, <<0, 1>>)
      BY <1>2, <2>1, <2>2, <3>1, ChainMore, Zenon
    <3> QED BY <2>1, <3>2 DEF Extended
  <2>4. IpcType' BY <1>1, <2>3 DEF IpcType, WriterSame, t
  <2>5. stream'[Len(stream')][1] = 0 /\ stream'[Len(stream')][2] = 1 BY <2>3 DEF t
  <2> QED BY <1>1, <1>2, <2>3, <2>4, <2>5 DEF WriterInv, t
<1> QED BY <1>3, <1>4

LEMMA WriteAddressInv ==
    ASSUME IpcType, WriterInv, WriteAddress
    PROVE IpcType' /\ WriterInv'
<1>1. /\ step = "addr" /\ step' = "length" /\ sent < Len(Datagrams) /\ UNCHANGED <<sent, headerWritten>>
      /\ stream' = stream \o Parts(sent + 1, 1, 1) /\ WriterSame /\ headerWritten
  BY DEF WriteAddress, IpcGoto, Writes, Due, WriterSame, WriterInv
<1>2. /\ stream \in Seq(Nat \X Nat) /\ sent \in Nat /\ sent + 1 \in Nat
      /\ FrameSize(sent + 1) \in Nat /\ FrameSize(sent + 1) >= 3
      /\ stream # <<>> /\ stream[1] = <<0, 1>> /\ Chain(stream)
  BY <1>1, WriterFacts
<1>3. Follows(stream[Len(stream)], <<sent + 1, 1>>)
  <2> DEFINE p == stream[Len(stream)]
  <2>1. p[1] \in 0..sent /\ p[2] = FrameSize(p[1]) BY <1>1 DEF WriterInv
  <2>2. p[2] \in Nat
    <3>1. Len(stream) \in Nat /\ Len(stream) # 0 BY <1>2, PairsAre
    <3>2. Len(stream) \in 1 .. Len(stream) BY <3>1
    <3> QED BY <1>2, <3>2, PairsAre
  <2>3. p[1] < sent + 1 /\ ~(p[2] < FrameSize(p[1])) BY <1>2, <2>1, <2>2
  <2> HIDE DEF p
  <2> QED BY <1>2, <2>3 DEF Follows, p
<1> DEFINE t == stream'
<1>4. t = stream \o Parts(sent + 1, 1, 1) BY <1>1
<1> HIDE DEF t
<1>5. /\ t \in Seq(Nat \X Nat) /\ t # <<>> /\ t[Len(t)] = <<sent + 1, 1>> /\ Chain(t) /\ t[1] = stream[1]
  <2>1. 1 \in Nat /\ 0 < 1 /\ 1 <= 1 /\ 1 <= FrameSize(sent + 1) BY <1>2
  <2>2. Extended(stream, t, <<sent + 1, 1>>, <<sent + 1, 1>>)
    BY <1>2, <1>3, <1>4, <2>1, ChainMore, Zenon
  <2> QED BY <1>2, <2>2 DEF Extended
<1>6. IpcType' BY <1>1, <1>5 DEF IpcType, WriterSame, t
<1> QED BY <1>1, <1>2, <1>5, <1>6 DEF WriterInv, t

LEMMA WriteLengthInv ==
    ASSUME IpcType, WriterInv, WriteLength
    PROVE IpcType' /\ WriterInv'
<1>1. /\ step = "length" /\ step' = "payload" /\ sent < Len(Datagrams) /\ UNCHANGED <<sent, headerWritten>>
      /\ stream' = stream \o Parts(sent + 1, 2, 3) /\ WriterSame /\ headerWritten
  BY DEF WriteLength, IpcGoto, Writes, Due, WriterSame, WriterInv
<1>2. /\ stream \in Seq(Nat \X Nat) /\ sent \in Nat /\ sent + 1 \in Nat
      /\ FrameSize(sent + 1) \in Nat /\ FrameSize(sent + 1) >= 3
      /\ stream # <<>> /\ stream[1] = <<0, 1>> /\ Chain(stream)
  BY <1>1, WriterFacts
<1>3. Follows(stream[Len(stream)], <<sent + 1, 2>>)
  <2>1. stream[Len(stream)] = <<sent + 1, 1>> BY <1>1 DEF WriterInv
  <2>2. 1 < FrameSize(sent + 1) /\ 1 + 1 = 2 BY <1>2
  <2> QED BY <2>1, <2>2 DEF Follows
<1> DEFINE t == stream'
<1>4. t = stream \o Parts(sent + 1, 2, 3) BY <1>1
<1> HIDE DEF t
<1>5. /\ t \in Seq(Nat \X Nat) /\ t # <<>> /\ t[Len(t)] = <<sent + 1, 3>> /\ Chain(t) /\ t[1] = stream[1]
  <2>1. 2 \in Nat /\ 3 \in Nat /\ 0 < 2 /\ 2 <= 3 /\ 3 <= FrameSize(sent + 1) BY <1>2
  <2>2. Extended(stream, t, <<sent + 1, 2>>, <<sent + 1, 3>>)
    BY <1>2, <1>3, <1>4, <2>1, ChainMore, Zenon
  <2> QED BY <1>2, <2>2 DEF Extended
<1>6. IpcType' BY <1>1, <1>5 DEF IpcType, WriterSame, t
<1> QED BY <1>1, <1>2, <1>5, <1>6 DEF WriterInv, t

LEMMA WritePayloadInv ==
    ASSUME IpcType, WriterInv, WritePayload
    PROVE IpcType' /\ WriterInv'
<1> DEFINE z == FrameSize(sent + 1)
<1>1. /\ step = "payload" /\ step' = "idle" /\ sent < Len(Datagrams) /\ sent' = sent + 1
      /\ stream' = stream \o Parts(sent + 1, 4, z) /\ WriterSame /\ headerWritten /\ headerWritten' = headerWritten
  BY DEF WritePayload, IpcGoto, Writes, Due, WriterSame, WriterInv
<1>2. /\ stream \in Seq(Nat \X Nat) /\ sent \in Nat /\ sent + 1 \in Nat /\ z \in Nat /\ z >= 3
      /\ stream # <<>> /\ stream[1] = <<0, 1>> /\ Chain(stream)
  BY <1>1, WriterFacts
<1>3. stream[Len(stream)] = <<sent + 1, 3>> BY <1>1 DEF WriterInv
<1> DEFINE t == stream'
<1>4. t = stream \o Parts(sent + 1, 4, z) BY <1>1
<1> HIDE DEF t
<1>5. /\ t \in Seq(Nat \X Nat) /\ t # <<>> /\ t[Len(t)] = <<sent + 1, z>> /\ Chain(t) /\ t[1] = stream[1]
  <2>1. CASE z = 3
    <3>1. Parts(sent + 1, 4, z) = <<>> BY <2>1 DEF Parts
    <3> QED BY <1>2, <1>3, <1>4, <2>1, <3>1, ConcatEmptySeq
  <2>2. CASE z # 3
    <3>1. 4 <= z /\ 3 < z /\ 3 + 1 = 4 BY <1>2, <2>2
    <3>2. Follows(stream[Len(stream)], <<sent + 1, 4>>) BY <1>3, <3>1 DEF Follows
    <3>3. 4 \in Nat /\ 0 < 4 /\ z <= z BY <1>2
    <3>4. Extended(stream, t, <<sent + 1, 4>>, <<sent + 1, z>>)
      BY <1>2, <1>4, <3>1, <3>2, <3>3, ChainMore, Zenon
    <3> QED BY <1>2, <3>4 DEF Extended
  <2> QED BY <2>1, <2>2
<1>6. IpcType'
  <2>1. sent' \in 0 .. Len(Datagrams) BY <1>1, <1>2, FrameSizeIs
  <2> QED BY <1>1, <1>5, <2>1 DEF IpcType, WriterSame, t
<1>7. t[Len(t)][1] \in 0 .. sent' /\ t[Len(t)][2] = FrameSize(t[Len(t)][1])
  BY <1>1, <1>2, <1>5
<1> QED BY <1>1, <1>2, <1>5, <1>6, <1>7 DEF WriterInv, t

LEMMA WriteFailsInv ==
    ASSUME IpcType, WriterInv, WriteFails, ~broken'
    PROVE IpcType' /\ WriterInv'
<1>1. /\ step \in {"idle", "addr"} /\ step' = "idle" /\ sent < Len(Datagrams) /\ sent' = sent + 1
      /\ stream' = stream \o SubSeq(Due, 1, 0) /\ WriterSame /\ headerWritten' = headerWritten
  <2>1. PICK n \in 0 .. Len(Due) : Writes(SubSeq(Due, 1, n)) /\ broken' = (broken \/ n > 0 \/ step \in {"length", "payload"})
    BY DEF WriteFails
  <2>2. ~(n > 0) /\ step \notin {"length", "payload"} BY <2>1
  <2>3. step \in {"idle", "addr"} BY <2>2 DEF WriterInv
  <2>4. n = 0
    <3>1. n \in Int /\ n >= 0 BY <2>1
    <3> QED BY <2>2, <3>1
  <2> QED BY <2>1, <2>3, <2>4 DEF WriteFails, Writes, WriterSame
<1>2. stream \in Seq(Nat \X Nat) /\ sent \in Nat /\ Len(Datagrams) \in Nat BY FrameSizeIs DEF IpcType
<1>3. stream' = stream
  <2>1. SubSeq(Due, 1, 0) = <<>> BY SubSeqEmpty
  <2> QED BY <1>1, <1>2, <2>1, ConcatEmptySeq
<1>4. IpcType'
  <2>1. sent' \in 0 .. Len(Datagrams) BY <1>1, <1>2
  <2> QED BY <1>1, <1>3, <2>1 DEF IpcType, WriterSame
<1>5. headerWritten =>
         stream[Len(stream)][1] \in 0 .. sent' /\ stream[Len(stream)][2] = FrameSize(stream[Len(stream)][1])
  BY <1>1, <1>2 DEF WriterInv
<1> QED BY <1>1, <1>3, <1>4, <1>5 DEF WriterInv

(* Whatever the direction, only a call that ends within a frame breaks it.  *)
LEMMA IpcInitInv == IpcInit => IpcInv
<1> SUFFICES ASSUME IpcInit PROVE IpcInv OBVIOUS
<1>1. /\ step = "idle" /\ stream = <<>> /\ sent = 0 /\ current = 0 /\ writing \in BOOLEAN
      /\ headerWritten = FALSE /\ broken = FALSE /\ packets = <<>> /\ refused = {}
  BY DEF IpcInit
<1>2. IpcType
  <2>1. <<>> \in Seq(Nat \X Nat) /\ <<>> \in Seq([from : Nat, size : Nat]) OBVIOUS
  <2>2. Len(Datagrams) \in Nat BY FrameSizeIs
  <2>3. sent \in 0 .. Len(Datagrams) /\ current \in Nat BY <1>1, <2>2
  <2> QED BY <1>1, <2>1, <2>3, Zenon DEF IpcType
<1>3. WriterInv BY <1>1 DEF WriterInv
<1>4. Left(stream, 0, 1, 1)
  BY <1>1 DEF Left, OnlyLeft, AllLeft, Sorted, Unmixed, IsLeft
<1>5. ReturnedBefore(1) BY <1>1 DEF ReturnedBefore
<1>6. ReaderInv
  <2>1. 1 \in 1 .. sent + 1 /\ ReadParts + 1 = 1 BY <1>1 DEF ReadParts
  <2> QED BY <1>1, <1>4, <1>5, <2>1 DEF ReaderInv
<1> QED BY <1>1, <1>2, <1>3, <1>6 DEF IpcInv

LEMMA IpcNextInv == IpcInv /\ [IpcNext]_ipcVars => IpcInv'
<1> SUFFICES ASSUME IpcInv, [IpcNext]_ipcVars PROVE IpcInv' OBVIOUS
<1> DEFINE Good == IpcType /\ IF writing THEN WriterInv ELSE ReaderInv
<1>1. writing \in BOOLEAN /\ broken \in BOOLEAN /\ (step = "length" /\ ~writing => ~broken) /\ (~broken => Good)
  BY DEF IpcInv
<1>2. CASE UNCHANGED ipcVars
  <2>1. /\ UNCHANGED <<writing, step, stream, sent, current, headerWritten>>
        /\ UNCHANGED <<noDomainResponse, packets, refused, broken>>
    BY <1>2 DEF ipcVars
  <2> QED BY <1>1, <2>1 DEF IpcInv, IpcType, WriterInv, ReaderInv, ReadParts, ReturnedBefore, IsRefused
<1>3. CASE WriteHeader
  <2>1. writing /\ writing' = writing /\ broken' = broken BY <1>3 DEF WriteHeader, Writes
  <2> QED BY <1>1, <1>3, <2>1, WriteHeaderInv DEF IpcInv
<1>4. CASE WriteAddress
  <2>1. writing /\ writing' = writing /\ broken' = broken BY <1>4 DEF WriteAddress, Writes
  <2> QED BY <1>1, <1>4, <2>1, WriteAddressInv DEF IpcInv
<1>5. CASE WriteLength
  <2>1. writing /\ writing' = writing /\ broken' = broken BY <1>5 DEF WriteLength, Writes
  <2> QED BY <1>1, <1>5, <2>1, WriteLengthInv DEF IpcInv
<1>6. CASE WritePayload
  <2>1. writing /\ writing' = writing /\ broken' = broken BY <1>6 DEF WritePayload, Writes
  <2> QED BY <1>1, <1>6, <2>1, WritePayloadInv DEF IpcInv
<1>7. CASE WriteFails
  <2>1. writing /\ writing' = writing /\ broken' \in BOOLEAN /\ (~broken' => ~broken)
    BY <1>7 DEF WriteFails, Writes
  <2> QED BY <1>1, <1>7, <2>1, WriteFailsInv DEF IpcInv
<1>8. CASE PeerSends
  <2>1. ~writing /\ writing' = writing /\ broken' = broken /\ step' = step BY <1>8 DEF PeerSends
  <2> QED BY <1>1, <1>8, <2>1, PeerSendsInv DEF IpcInv
<1>9. CASE ReadAddress
  <2>1. ~writing /\ writing' = writing /\ broken' = broken /\ ~broken BY <1>9 DEF ReadAddress, Takes
  <2> QED BY <1>1, <1>9, <2>1, ReadAddressInv DEF IpcInv
<1>10. CASE ReadLength
  <2>1. /\ ~writing /\ writing' = writing /\ broken' \in BOOLEAN /\ ~broken /\ step' = "payload"
    BY <1>1, <1>10 DEF ReadLength, Takes, IpcGoto
  <2> QED BY <1>1, <1>10, <2>1, ReadLengthInv DEF IpcInv
<1>11. CASE ReadPayload
  <2>1. /\ ~writing /\ writing' = writing /\ broken' \in BOOLEAN /\ (~broken' => ~broken) /\ step' = "idle"
    BY <1>11 DEF ReadPayload, Takes, IpcGoto
  <2> QED BY <1>1, <1>11, <2>1, ReadPayloadInv DEF IpcInv
<1>12. CASE ReadFails
  <2>1. /\ ~writing /\ writing' = writing /\ broken' \in BOOLEAN /\ ~broken /\ step' = "idle"
    BY <1>12 DEF ReadFails, Takes
  <2> QED BY <1>1, <1>12, <2>1, ReadFailsInv DEF IpcInv
<1>13. CASE ReadGarbage
  <2>1. writing' = writing /\ broken' = broken /\ broken /\ step' = "idle" BY <1>13 DEF ReadGarbage, Takes
  <2> QED BY <1>1, <2>1 DEF IpcInv
<1> QED BY <1>2, <1>3, <1>4, <1>5, <1>6, <1>7, <1>8, <1>9, <1>10, <1>11, <1>12, <1>13 DEF IpcNext

(* The writing side's part of FramesKept, and the reading side's: what has  *)
(* no first part in the stream is before the frame that is left.            *)
LEMMA WriterKeeps == ASSUME IpcType, WriterInv PROVE WrittenWhole
<1>1. stream \in Seq(Nat \X Nat) BY DEF IpcType
<1>2. stream # <<>> => Last(stream) = stream[Len(stream)] BY DEF Last
<1> QED BY <1>1, <1>2 DEF WriterInv, Chain, WrittenWhole

LEMMA FirstPartLeft ==
    ASSUME NEW s \in Seq(Nat \X Nat), NEW n \in Nat, NEW i \in Nat, NEW k \in Nat, k > 0, Left(s, n, i, k),
           NEW j \in 1..n, FrameSize(j) \in Nat, FrameSize(j) > 0
    PROVE Contains(s, <<j, 1>>) <=> (j > i \/ (j = i /\ k = 1))
<1>1. Len(s) \in Nat /\ \A a \in 1 .. Len(s) : s[a] \in Nat \X Nat BY PairsAre
<1>2. \A a \in 1 .. Len(s) : s[a] = <<j, 1>> <=> s[a][1] = j /\ s[a][2] = 1
  <2> SUFFICES ASSUME NEW a \in 1 .. Len(s) PROVE s[a] = <<j, 1>> <=> s[a][1] = j /\ s[a][2] = 1 OBVIOUS
  <2>1. s[a] = <<s[a][1], s[a][2]>> BY <1>1
  <2> QED BY <2>1
<1>3. Contains(s, <<j, 1>>) <=> \E a \in 1 .. Len(s) : s[a][1] = j /\ s[a][2] = 1 BY <1>2 DEF Contains
<1>4. (\E a \in 1 .. Len(s) : s[a][1] = j /\ s[a][2] = 1) <=> IsLeft(j, 1, n, i, k)
  <2>1. ASSUME NEW a \in 1 .. Len(s), s[a][1] = j, s[a][2] = 1 PROVE IsLeft(j, 1, n, i, k)
    BY <2>1 DEF Left, OnlyLeft
  <2>2. j \in Nat /\ 1 \in Nat OBVIOUS
  <2> QED BY <2>1, <2>2 DEF Left, AllLeft
<1>5. IsLeft(j, 1, n, i, k) <=> (j > i \/ (j = i /\ k = 1)) BY DEF IsLeft
<1> QED BY <1>3, <1>4, <1>5

LEMMA ReaderKeeps == ASSUME IpcType, ReaderInv PROVE ReadWhole
<1> DEFINE past == {j \in 1..sent : ~Contains(stream, <<j, 1>>) /\ (step = "idle" \/ j # current)}
<1>1. /\ sent \in Nat /\ stream \in Seq(Nat \X Nat) /\ sent <= Len(Datagrams) /\ Len(Datagrams) \in Nat
      /\ packets \in Seq([from : Nat, size : Nat])
  BY FrameSizeIs DEF IpcType
<1>2. PICK i \in 1 .. sent + 1 :
         /\ step # "idle" => i = current /\ i <= sent
         /\ Left(stream, sent, i, ReadParts + 1) /\ ReturnedBefore(i)
  BY DEF ReaderInv
<1>3. ReadParts + 1 \in Nat /\ ReadParts + 1 > 0 /\ (ReadParts + 1 = 1 <=> step = "idle")
  BY DEF ReadParts, ReaderInv
<1>4. \A j \in 1..sent : Contains(stream, <<j, 1>>) <=> (j > i \/ (j = i /\ step = "idle"))
  <2> SUFFICES ASSUME NEW j \in 1..sent PROVE Contains(stream, <<j, 1>>) <=> (j > i \/ (j = i /\ step = "idle"))
    OBVIOUS
  <2> DEFINE k == ReadParts + 1
  <2>1. k \in Nat /\ k > 0 /\ Left(stream, sent, i, k) /\ i \in Nat BY <1>1, <1>2, <1>3
  <2>2. k = 1 <=> step = "idle" BY <1>3
  <2>3. FrameSize(j) \in Nat /\ FrameSize(j) > 0
    <3>1. j \in Nat /\ j > 0 /\ j <= Len(Datagrams) BY <1>1
    <3> QED BY <3>1, FrameSizes
  <2> HIDE DEF k
  <2>4. Contains(stream, <<j, 1>>) <=> (j > i \/ (j = i /\ k = 1)) BY <1>1, <2>1, <2>3, FirstPartLeft
  <2> QED BY <2>2, <2>4
<1>5. past = 1 .. i - 1
  <2>1. ASSUME NEW j \in 1..sent
        PROVE (~Contains(stream, <<j, 1>>) /\ (step = "idle" \/ j # current)) <=> j < i
    <3>1. Contains(stream, <<j, 1>>) <=> (j > i \/ (j = i /\ step = "idle")) BY <1>4
    <3> QED BY <1>1, <1>2, <3>1
  <2>2. past = {j \in 1..sent : j < i} BY <2>1
  <2> QED BY <1>1, <2>2
<1>6. /\ \A a, b \in 1 .. Len(packets) : a < b => packets[a].from < packets[b].from
      /\ {packets[a] : a \in 1 .. Len(packets)} = {Whole(j) : j \in {j \in past : ~IsRefused(j)}}
      /\ refused = {j \in past : IsRefused(j)}
  BY <1>2, <1>5 DEF ReturnedBefore
<1> HIDE DEF past
<1>7. DOMAIN packets = 1 .. Len(packets) BY <1>1, LenProperties
<1>8. refused = past \ {j \in past : ~IsRefused(j)} BY <1>6
<1> QED BY <1>6, <1>7, <1>8 DEF ReadWhole, past

LEMMA IpcKeeps == IpcInv => FramesKept
  BY WriterKeeps, ReaderKeeps DEF IpcInv, FramesKept

(* In every behaviour of the IPC connection (ipc.go:93-146), for any         *)
(* datagrams and any size of buffer: unless a deadline ends a call within a  *)
(* frame, a length comes in two reads or a datagram exceeds the buffer, the  *)
(* peer gets the header once and whole frames in order, and ReadFrom returns *)
(* every datagram whole and in order except those it refuses.                *)
THEOREM FramesAlwaysKept == AppSpec => []FramesKept
<1>1. AppInit => IpcInv
    BY IpcInitInv DEF AppInit
<1>2. [AppNext]_all => [IpcNext]_ipcVars
    BY Zenon DEF AppNext, all, Dial
<1>3. QED
    BY <1>1, <1>2, IpcNextInv, IpcKeeps, PTL DEF AppSpec
=============================================================================
