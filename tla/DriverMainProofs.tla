---------------------------- MODULE DriverMainProofs ----------------------------
(***************************************************************************)
(* Descriptors of the daemon have one owner, for any number of threads,    *)
(* clients and descriptors, whatever the clients ask for and whoever is    *)
(* killed.  So the daemon keeps its promise (RequestReply): however        *)
(* descriptors are reused, no request is executed twice or answered to     *)
(* another client.  And used as the framework uses it, it stays up.        *)
(***************************************************************************)
EXTENDS DriverMain, FiniteSetTheorems, WellFoundedInduction, TLAPS

\* A set of numbers that is not empty has a lowest one (the descriptor accept() takes).
LEMMA LowestExists ==
    ASSUME NEW S \in SUBSET Nat, S # {}
    PROVE  (CHOOSE f \in S : \A g \in S : f <= g) \in S
<1> DEFINE R == {p \in Nat \X Nat : p[1] < p[2]}
<1>1. R = OpToRel(<, Nat)
  BY DEF OpToRel
<1>2. IsWellFoundedOn(R, Nat)
  BY <1>1, NatLessThanWellFounded
<1>3. PICK f \in S : \A g \in S : ~(<<g, f>> \in R)
  BY <1>2, WFMin
<1>4. \A g \in S : ~(g < f)
  BY <1>3
<1>5. \A g \in S : f <= g
  BY <1>4
<1> QED BY <1>5

LEMMA LowestIsFree ==
    ASSUME Free # {}
    PROVE  LowestFree \in Fds /\ fds[LowestFree] = NoClient
<1>1. Free \in SUBSET Nat
  BY DEF Free, Fds
<1>2. LowestFree \in Free
  BY <1>1, LowestExists DEF LowestFree
<1> QED BY <1>2 DEF Free

\* What a thread walks over, and what it has in hand, is on its client list.
InHand ==
    \A t \in Threads :
        /\ thr[t].todo \subseteq thr[t].clients
        /\ thr[t].pc \in {"handle", "reply", "delete"} => thr[t].fd \in thr[t].clients

\* The inductive invariant: a descriptor in hand is open because its thread owns it,
\* and its client is therefore one of the clients.
IInv == TypeOK /\ InHand /\ FdHasOneOwner

\* A client that is visited, served or about to be answered has an open connection.
LEMMA InHandIsOpen ==
    ASSUME IInv, NEW t \in Threads, NEW f \in thr[t].clients, ~Closing(t, f)
    PROVE  f \in Fds /\ fds[f] \in Clients
<1>1. thr[t] \in ThreadRecs /\ f \in Fds
  BY DEF IInv, TypeOK, ThreadRecs
<1>2. t \in Owners(f)
  BY DEF Owners
<1>3. fds[f] # NoClient
  BY <1>1, <1>2 DEF IInv, FdHasOneOwner
<1> QED BY <1>1, <1>3 DEF IInv, TypeOK

\* A step that leaves the client lists, the descriptors and the connections being
\* closed as they are.
LEMMA OrdinaryStep ==
    ASSUME InHand, FdHasOneOwner, fds' = fds,
           \A x \in Threads :
              /\ thr'[x].clients = thr[x].clients
              /\ thr'[x].todo \subseteq thr[x].clients
              /\ thr'[x].pc \in {"handle", "reply", "delete"} =>
                     thr'[x].fd \in thr[x].clients
              /\ thr'[x].pc = "delete" <=> thr[x].pc = "delete"
              /\ thr[x].pc = "delete" => thr'[x].fd = thr[x].fd
    PROVE  InHand' /\ FdHasOneOwner'
<1>1. InHand'
  BY DEF InHand
<1>2. \A f \in Fds : Owners(f)' = Owners(f)
  BY DEF Owners, Closing
<1>3. FdHasOneOwner'
  BY <1>2 DEF FdHasOneOwner
<1> QED BY <1>1, <1>3

\* The end of the daemon closes everything.
LEMMA DeathStep ==
    ASSUME TypeOK, NEW why \in Ends, Die(why)
    PROVE  TypeOK' /\ InHand' /\ FdHasOneOwner'
<1>1. \A t \in Threads : thr'[t] = NoThread
  BY DEF Die
<1>2. NoThread \in ThreadRecs
  BY DEF NoThread, ThreadRecs, ThreadPcs
<1>3. TypeOK'
  BY <1>1, <1>2 DEF TypeOK, Die, NoClient
<1>4. InHand'
  BY <1>1 DEF InHand, NoThread
<1>5. \A f \in Fds : fds'[f] = NoClient /\ Owners(f)' = {}
  BY <1>1 DEF Die, Owners, NoThread
<1>6. FdHasOneOwner'
  BY <1>5 DEF FdHasOneOwner
<1> QED BY <1>3, <1>4, <1>6

-----------------------------------------------------------------------------
\* The steps of the clients, and those of a thread that leave its lists alone.

LEMMA ClientStep ==
    ASSUME IInv, NEW c \in Clients, Client(c) \/ KillClient(c)
    PROVE  IInv'
<1> USE DEF IInv
<1>1. thr' = thr /\ fds' = fds
  BY DEF Client, Connect, Send, Receive, KillClient
<1>2. InHand' /\ FdHasOneOwner'
  BY <1>1, OrdinaryStep DEF InHand
<1>3. TypeOK'
  <2>1. CASE Connect(c)
    <3>1. cl[c] \in ClientRecs /\ Requests \subseteq AllRequests
      BY MainAssumption DEF TypeOK
    <3>2. PICK op \in Requests, t \in Threads, s \in {"connected", "failed"} :
             cl' = [cl EXCEPT ![c] = [@ EXCEPT !.st = s, !.op = op, !.to = t]]
      BY <2>1 DEF Connect
    <3>3. [cl[c] EXCEPT !.st = s, !.op = op, !.to = t] \in ClientRecs
      BY <3>1 DEF ClientRecs
    <3>4. cl' \in [Clients -> ClientRecs]
      BY <3>2, <3>3 DEF TypeOK
    <3> QED BY <2>1, <3>4 DEF Connect, TypeOK
  <2>2. CASE Send(c)
    <3>1. cl[c] \in ClientRecs
      BY DEF TypeOK
    <3>2. PICK r \in ClientRecs : cl' = [cl EXCEPT ![c] = r]
      <4>1. /\ [cl[c] EXCEPT !.st = "failed"] \in ClientRecs
            /\ [cl[c] EXCEPT !.out = "part"] \in ClientRecs
            /\ \A s \in {"ok", "waiting"} :
                  [cl[c] EXCEPT !.out = "full", !.st = s] \in ClientRecs
        BY <3>1 DEF ClientRecs
      <4>2. CASE daemon # "up"
        BY <2>2, <4>1, <4>2 DEF Send
      <4>3. CASE daemon = "up" /\ cl[c].out = "none"
        BY <2>2, <4>1, <4>3 DEF Send
      <4>4. CASE daemon = "up" /\ cl[c].out # "none"
        <5>1. CASE cl[c].op = "BLOCK"
          <6>1. cl' = [cl EXCEPT ![c] = [cl[c] EXCEPT !.out = "full", !.st = "ok"]]
            BY <2>2, <4>4, <5>1 DEF Send
          <6> QED BY <4>1, <6>1
        <5>2. CASE cl[c].op # "BLOCK"
          <6>1. cl' = [cl EXCEPT ![c] = [cl[c] EXCEPT !.out = "full", !.st = "waiting"]]
            BY <2>2, <4>4, <5>2 DEF Send
          <6> QED BY <4>1, <6>1
        <5> QED BY <5>1, <5>2
      <4> QED BY <4>2, <4>3, <4>4
    <3> QED BY <2>2, <3>2 DEF Send, TypeOK
  <2>3. CASE Receive(c)
    BY <2>3 DEF Receive, TypeOK, ClientRecs
  <2>4. CASE KillClient(c)
    BY <2>4 DEF KillClient, TypeOK, ClientRecs
  <2> QED BY <2>1, <2>2, <2>3, <2>4 DEF Client
<1> QED BY <1>2, <1>3

LEMMA StartThreadStep ==
    ASSUME IInv, NEW t \in Threads, StartThread(t)
    PROVE  IInv'
<1>1. TypeOK'
  <2>1. thr[t] \in ThreadRecs
    BY DEF IInv, TypeOK
  <2>2. [thr[t] EXCEPT !.pc = "select"] \in ThreadRecs
    BY <2>1 DEF ThreadRecs, ThreadPcs
  <2> QED BY <2>2 DEF IInv, StartThread, TypeOK
<1>2. \A x \in Threads :
         /\ thr'[x].clients = thr[x].clients /\ thr'[x].todo = thr[x].todo
         /\ thr'[x].fd = thr[x].fd
         /\ x # t => thr'[x] = thr[x]
         /\ thr[t].pc = "starting" /\ thr'[t].pc = "select"
  BY DEF IInv, StartThread, TypeOK, ThreadRecs
<1>3. InHand' /\ FdHasOneOwner'
  BY <1>2, OrdinaryStep DEF IInv, StartThread, InHand
<1> QED BY <1>1, <1>3 DEF IInv

LEMMA SelectStep ==
    ASSUME IInv, NEW t \in Threads, Select(t)
    PROVE  IInv'
<1>1. CASE \E f \in thr[t].clients : fds[f] = NoClient
  BY <1>1, DeathStep DEF IInv, Select, Ends
<1>2. CASE ~(\E f \in thr[t].clients : fds[f] = NoClient)
  <2>1. TypeOK'
    <3>1. thr[t] \in ThreadRecs
      BY DEF IInv, TypeOK
    <3>2. /\ [thr[t] EXCEPT !.pc = "accept"] \in ThreadRecs
          /\ \A d \in SUBSET Fds : [thr[t] EXCEPT !.pc = "walk", !.todo = d] \in ThreadRecs
      BY <3>1 DEF ThreadRecs, ThreadPcs
    <3>3. {f \in thr[t].clients : Readable(f)} \in SUBSET Fds
      BY <3>1 DEF ThreadRecs
    <3>4. thr' \in [Threads -> ThreadRecs]
      BY <1>2, <3>2, <3>3 DEF IInv, Select, TypeOK
    <3> QED BY <1>2, <3>4 DEF IInv, Select, TypeOK
  <2>2. \A x \in Threads :
           /\ thr'[x].clients = thr[x].clients
           /\ x # t => thr'[x] = thr[x]
           /\ thr[t].pc = "select" /\ thr'[t].pc \in {"accept", "walk"}
           /\ thr'[t].todo = thr[t].todo \/ thr'[t].todo \subseteq thr[t].clients
    BY <1>2 DEF IInv, Select, TypeOK, ThreadRecs
  <2>3. InHand' /\ FdHasOneOwner'
    BY <1>2, <2>2, OrdinaryStep DEF IInv, Select, InHand
  <2> QED BY <2>1, <2>3 DEF IInv
<1> QED BY <1>1, <1>2

LEMMA EndPassStep ==
    ASSUME IInv, NEW t \in Threads, EndPass(t)
    PROVE  IInv'
<1>1. TypeOK'
  <2>1. thr[t] \in ThreadRecs
    BY DEF IInv, TypeOK
  <2>2. [thr[t] EXCEPT !.pc = "select"] \in ThreadRecs
    BY <2>1 DEF ThreadRecs, ThreadPcs
  <2> QED BY <2>2 DEF IInv, EndPass, TypeOK
<1>2. \A x \in Threads :
         /\ thr'[x].clients = thr[x].clients /\ thr'[x].todo = thr[x].todo
         /\ x # t => thr'[x] = thr[x]
         /\ thr[t].pc = "walk" /\ thr'[t].pc = "select"
  BY DEF IInv, EndPass, TypeOK, ThreadRecs
<1>3. InHand' /\ FdHasOneOwner'
  BY <1>2, OrdinaryStep DEF IInv, EndPass, InHand
<1> QED BY <1>1, <1>3 DEF IInv

\* The client visited is on the list it was selected from.
LEMMA ReceiveRequestStep ==
    ASSUME IInv, NEW t \in Threads, NEW f \in Fds, ReceiveRequest(t, f)
    PROVE  IInv'
<1>1. f \in thr[t].clients /\ ~Closing(t, f)
  BY DEF IInv, InHand, ReceiveRequest, Visits, Closing
<1>2. fds[f] \in Clients
  BY <1>1, InHandIsOpen
<1>3. TypeOK'
  <2>1. cl[fds[f]] \in ClientRecs /\ thr[t] \in ThreadRecs
    BY <1>2 DEF IInv, TypeOK
  <2>2. [cl[fds[f]] EXCEPT !.out = "read"] \in ClientRecs
    BY <2>1 DEF ClientRecs
  <2>3. [thr[t] EXCEPT !.pc = "handle", !.todo = @ \ {f}, !.fd = f,
                       !.op = cl[fds[f]].op] \in ThreadRecs
    <3>1. thr[t].todo \ {f} \in SUBSET Fds /\ cl[fds[f]].op \in AllRequests \cup {"none"}
      BY <2>1 DEF ThreadRecs, ClientRecs
    <3> QED BY <2>1, <3>1 DEF ThreadRecs, ThreadPcs
  <2> QED BY <2>2, <2>3 DEF IInv, ReceiveRequest, TypeOK
<1>4. \A x \in Threads :
         /\ thr'[x].clients = thr[x].clients
         /\ x # t => thr'[x] = thr[x]
         /\ thr[t].pc = "walk" /\ thr'[t].pc = "handle"
         /\ thr'[t].todo \subseteq thr[t].todo /\ thr'[t].fd = f
  BY DEF IInv, ReceiveRequest, Visits, TypeOK, ThreadRecs
<1>5. InHand' /\ FdHasOneOwner'
  BY <1>1, <1>4, OrdinaryStep DEF IInv, ReceiveRequest, InHand
<1> QED BY <1>3, <1>5 DEF IInv

LEMMA UnblockStep ==
    ASSUME IInv, NEW t \in Threads, Unblock(t)
    PROVE  IInv'
<1>1. TypeOK'
  <2>1. thr[t] \in ThreadRecs
    BY DEF IInv, TypeOK
  <2>2. [thr[t] EXCEPT !.pc = "walk", !.fd = 0, !.op = "none"] \in ThreadRecs
    BY <2>1 DEF ThreadRecs, ThreadPcs
  <2> QED BY <2>2 DEF IInv, Unblock, TypeOK
<1>2. \A x \in Threads :
         /\ thr'[x].clients = thr[x].clients /\ thr'[x].todo = thr[x].todo
         /\ x # t => thr'[x] = thr[x]
         /\ thr[t].pc = "blocked" /\ thr'[t].pc = "walk"
  BY DEF IInv, Unblock, TypeOK, ThreadRecs
<1>3. InHand' /\ FdHasOneOwner'
  BY <1>2, OrdinaryStep DEF IInv, Unblock, InHand
<1> QED BY <1>1, <1>3 DEF IInv

-----------------------------------------------------------------------------
\* The handlers and the reply.

LEMMA CountStep ==
    ASSUME NEW c, runs \in [Clients -> Nat], Count(c)
    PROVE  runs' \in [Clients -> Nat]
<1>1. CASE c \in Clients
  BY <1>1 DEF Count
<1>2. CASE c \notin Clients
  BY <1>2 DEF Count
<1> QED BY <1>1, <1>2

LEMMA HandleStep ==
    ASSUME IInv, NEW t \in Threads, Handle(t)
    PROVE  IInv'
<1> USE DEF IInv
<1>1. CASE \E why \in Ends : Die(why)
  BY <1>1, DeathStep
<1>2. CASE ~(\E why \in Ends : Die(why))
  <2>1. /\ UNCHANGED <<daemon, fds, backlog, cl>> /\ inited' \in BOOLEAN
        /\ Count(fds[thr[t].fd])
        /\ thr[t].pc = "handle"
        /\ \/ thr' = [thr EXCEPT ![t].pc = "reply"]
           \/ thr' = [thr EXCEPT ![t].pc = "blocked"]
           \/ \E u \in Threads :
                 /\ thr[u].pc = "none"
                 /\ thr' = [thr EXCEPT ![u].pc = "starting", ![t].pc = "reply"]
    <3>1. CASE HandleInitialize(t)
      BY <1>2, <3>1 DEF HandleInitialize, Served, Ends
    <3>2. CASE HandleStatus(t)
      BY <1>2, <3>2 DEF HandleStatus, Served, Ends, TypeOK
    <3>3. CASE HandleCreateThread(t)
      BY <1>2, <3>3 DEF HandleCreateThread, Ends, TypeOK
    <3>4. CASE HandleLibrary(t)
      BY <1>2, <3>4 DEF HandleLibrary, TypeOK
    <3> QED BY <3>1, <3>2, <3>3, <3>4 DEF Handle
  <2>2. /\ thr' \in [Threads -> ThreadRecs]
        /\ thr'[t].pc \in {"reply", "blocked"}
        /\ \A x \in Threads :
              /\ thr'[x].clients = thr[x].clients /\ thr'[x].todo = thr[x].todo
              /\ thr'[x].fd = thr[x].fd
              /\ x # t => \/ thr'[x].pc = thr[x].pc
                          \/ (thr[x].pc = "none" /\ thr'[x].pc = "starting")
    <3>1. CASE thr' = [thr EXCEPT ![t].pc = "reply"]
      <4>1. thr[t] \in ThreadRecs
        BY DEF TypeOK
      <4>2. [thr[t] EXCEPT !.pc = "reply"] \in ThreadRecs
        BY <4>1 DEF ThreadRecs, ThreadPcs
      <4>3. /\ thr'[t] = [thr[t] EXCEPT !.pc = "reply"]
            /\ \A x \in Threads \ {t} : thr'[x] = thr[x]
        BY <3>1 DEF TypeOK
      <4>4. thr' \in [Threads -> ThreadRecs]
        BY <3>1, <4>2 DEF TypeOK
      <4>5. /\ thr'[t].pc = "reply" /\ thr'[t].clients = thr[t].clients
            /\ thr'[t].todo = thr[t].todo /\ thr'[t].fd = thr[t].fd
        BY <4>1, <4>3 DEF ThreadRecs
      <4>6. ASSUME NEW x \in Threads
            PROVE  /\ thr'[x].clients = thr[x].clients
                   /\ thr'[x].todo = thr[x].todo
                   /\ thr'[x].fd = thr[x].fd
                   /\ x # t => thr'[x].pc = thr[x].pc
        <5>1. CASE x = t
          BY <4>5, <5>1
        <5>2. CASE x # t
          <6>1. thr'[x] = thr[x]
            BY <4>3, <5>2
          <6> QED BY <6>1
        <5> QED BY <5>1, <5>2
      <4> QED BY <4>4, <4>5, <4>6
    <3>2. CASE thr' = [thr EXCEPT ![t].pc = "blocked"]
      <4>1. thr[t] \in ThreadRecs
        BY DEF TypeOK
      <4>2. [thr[t] EXCEPT !.pc = "blocked"] \in ThreadRecs
        BY <4>1 DEF ThreadRecs, ThreadPcs
      <4>3. /\ thr'[t] = [thr[t] EXCEPT !.pc = "blocked"]
            /\ \A x \in Threads \ {t} : thr'[x] = thr[x]
        BY <3>2 DEF TypeOK
      <4>4. thr' \in [Threads -> ThreadRecs]
        BY <3>2, <4>2 DEF TypeOK
      <4>5. /\ thr'[t].pc = "blocked" /\ thr'[t].clients = thr[t].clients
            /\ thr'[t].todo = thr[t].todo /\ thr'[t].fd = thr[t].fd
        BY <4>1, <4>3 DEF ThreadRecs
      <4>6. ASSUME NEW x \in Threads
            PROVE  /\ thr'[x].clients = thr[x].clients
                   /\ thr'[x].todo = thr[x].todo
                   /\ thr'[x].fd = thr[x].fd
                   /\ x # t => thr'[x].pc = thr[x].pc
        <5>1. CASE x = t
          BY <4>5, <5>1
        <5>2. CASE x # t
          <6>1. thr'[x] = thr[x]
            BY <4>3, <5>2
          <6> QED BY <6>1
        <5> QED BY <5>1, <5>2
      <4> QED BY <4>4, <4>5, <4>6
    <3>3. ASSUME NEW u \in Threads, thr[u].pc = "none",
                 thr' = [thr EXCEPT ![u].pc = "starting", ![t].pc = "reply"]
          PROVE  /\ thr' \in [Threads -> ThreadRecs]
                 /\ thr'[t].pc = "reply"
                 /\ \A x \in Threads :
                      /\ thr'[x].clients = thr[x].clients
                      /\ thr'[x].todo = thr[x].todo
                      /\ thr'[x].fd = thr[x].fd
                      /\ x # t => \/ thr'[x].pc = thr[x].pc
                                  \/ (thr[x].pc = "none" /\ thr'[x].pc = "starting")
      <4>1. u # t
        BY <2>1, <3>3
      <4>2. /\ [thr[u] EXCEPT !.pc = "starting"] \in ThreadRecs
            /\ [thr[t] EXCEPT !.pc = "reply"] \in ThreadRecs
        <5>1. thr[u] \in ThreadRecs /\ thr[t] \in ThreadRecs
          BY DEF TypeOK
        <5> QED BY <5>1 DEF ThreadRecs, ThreadPcs
      <4>3. /\ thr'[u] = [thr[u] EXCEPT !.pc = "starting"]
            /\ thr'[t] = [thr[t] EXCEPT !.pc = "reply"]
            /\ \A x \in Threads \ {t, u} : thr'[x] = thr[x]
        BY <3>3, <4>1 DEF TypeOK
      <4>4. thr' \in [Threads -> ThreadRecs]
        BY <3>3, <4>2, <4>3 DEF TypeOK
      <4>5. /\ thr'[u].pc = "starting" /\ thr'[t].pc = "reply"
            /\ \A x \in {t, u} : /\ thr'[x].clients = thr[x].clients
                                 /\ thr'[x].todo = thr[x].todo
                                 /\ thr'[x].fd = thr[x].fd
        BY <4>3 DEF TypeOK, ThreadRecs
      <4>6. ASSUME NEW x \in Threads
            PROVE  /\ thr'[x].clients = thr[x].clients
                   /\ thr'[x].todo = thr[x].todo
                   /\ thr'[x].fd = thr[x].fd
                   /\ x # t => \/ thr'[x].pc = thr[x].pc
                               \/ (thr[x].pc = "none" /\ thr'[x].pc = "starting")
        <5>1. CASE x \in {t, u}
          BY <3>3, <4>5, <5>1
        <5>2. CASE x \notin {t, u}
          <6>1. thr'[x] = thr[x]
            BY <4>3, <5>2
          <6> QED BY <6>1
        <5> QED BY <5>1, <5>2
      <4> QED BY <4>4, <4>5, <4>6
    <3> QED BY <2>1, <3>1, <3>2, <3>3
  <2>3. TypeOK'
    BY <2>1, <2>2, CountStep DEF TypeOK
  <2>4. InHand' /\ FdHasOneOwner'
    BY <2>1, <2>2, OrdinaryStep DEF InHand
  <2> QED BY <2>3, <2>4
<1> QED BY <1>1, <1>2

LEMMA SendReplyStep ==
    ASSUME IInv, NEW t \in Threads, SendReply(t)
    PROVE  IInv'
<1>1. CASE Gone(fds[thr[t].fd])
  BY <1>1, DeathStep DEF IInv, SendReply, Ends
<1>2. CASE ~Gone(fds[thr[t].fd])
  <2>1. TypeOK'
    <3>1. thr[t].fd \in thr[t].clients /\ ~Closing(t, thr[t].fd)
      BY DEF IInv, InHand, SendReply, Closing
    <3>2. fds[thr[t].fd] \in Clients
      BY <3>1, InHandIsOpen
    <3>3. thr[t].op \in AllRequests \cup {"none"}
      BY DEF IInv, TypeOK, ThreadRecs
    <3>4. cl[fds[thr[t].fd]] \in ClientRecs /\ thr[t] \in ThreadRecs
      BY <3>2 DEF IInv, TypeOK
    <3>5. [cl[fds[thr[t].fd]] EXCEPT !.in = thr[t].op] \in ClientRecs
      BY <3>3, <3>4 DEF ClientRecs
    <3>6. [thr[t] EXCEPT !.pc = "walk", !.fd = 0, !.op = "none"] \in ThreadRecs
      BY <3>4 DEF ThreadRecs, ThreadPcs
    <3> QED BY <1>2, <3>5, <3>6 DEF IInv, SendReply, TypeOK
  <2>2. \A x \in Threads :
           /\ thr'[x].clients = thr[x].clients /\ thr'[x].todo = thr[x].todo
           /\ x # t => thr'[x] = thr[x]
           /\ thr[t].pc = "reply" /\ thr'[t].pc = "walk"
    BY <1>2 DEF IInv, SendReply, TypeOK, ThreadRecs
  <2>3. InHand' /\ FdHasOneOwner'
    BY <1>2, <2>2, OrdinaryStep DEF IInv, SendReply, InHand
  <2> QED BY <2>1, <2>3 DEF IInv
<1> QED BY <1>1, <1>2

-----------------------------------------------------------------------------
\* The steps that open and close descriptors.

\* The lowest free descriptor has no owner before, and one after.
LEMMA AcceptStep ==
    ASSUME IInv, NEW t \in Threads, Accept(t)
    PROVE  IInv'
<1>1. CASE Free = {}
  BY <1>1, DeathStep DEF IInv, Accept, Ends
<1>2. CASE Free # {}
  <2>1. PICK n \in Fds : n = LowestFree /\ fds[n] = NoClient
    BY <1>2, LowestIsFree
  <2>2. PICK c \in backlog[t] :
           /\ backlog' = [backlog EXCEPT ![t] = @ \ {c}]
           /\ fds' = [fds EXCEPT ![n] = c]
           /\ thr' = [thr EXCEPT ![t].pc = "select", ![t].clients = @ \cup {n}]
           /\ UNCHANGED <<daemon, inited, cl, runs>>
    BY <1>2, <2>1 DEF Accept
  <2>3. c \in Clients /\ c # NoClient
    BY <2>2 DEF IInv, TypeOK, Clients, NoClient
  <2>4. TypeOK'
    <3>1. thr[t] \in ThreadRecs /\ thr[t].clients \cup {n} \in SUBSET Fds
      BY <2>1 DEF IInv, TypeOK, ThreadRecs
    <3>2. [thr[t] EXCEPT !.pc = "select", !.clients = thr[t].clients \cup {n}]
             \in ThreadRecs
      BY <3>1 DEF ThreadRecs, ThreadPcs
    <3> QED BY <2>1, <2>2, <2>3, <3>2 DEF IInv, TypeOK
  <2>5. /\ \A x \in Threads \ {t} : thr'[x] = thr[x]
        /\ thr[t].pc = "accept" /\ thr'[t].pc = "select"
        /\ thr'[t].clients = thr[t].clients \cup {n} /\ thr'[t].todo = thr[t].todo
    <3>1. /\ \A x \in Threads \ {t} : thr'[x] = thr[x]
          /\ thr'[t] = [thr[t] EXCEPT !.pc = "select",
                                      !.clients = thr[t].clients \cup {n}]
      BY <2>2 DEF IInv, TypeOK
    <3>2. thr[t] \in ThreadRecs /\ thr[t].pc = "accept"
      BY DEF IInv, TypeOK, Accept
    <3>3. /\ thr'[t].pc = "select" /\ thr'[t].todo = thr[t].todo
          /\ thr'[t].clients = thr[t].clients \cup {n}
      BY <3>1, <3>2 DEF ThreadRecs
    <3> QED BY <3>1, <3>2, <3>3
  <2>6. InHand'
    BY <2>5 DEF IInv, InHand
  <2>7. Owners(n)' = {t}
    <3>1. Owners(n) = {}
      BY <2>1 DEF IInv, FdHasOneOwner
    <3>2. t \in Owners(n)'
      <4>1. n \in thr'[t].clients /\ thr'[t].pc # "delete"
        BY <2>5
      <4> QED BY <4>1 DEF Owners, Closing
    <3>3. ASSUME NEW x \in Threads \ {t} PROVE x \notin Owners(n)'
      <4>1. thr'[x] = thr[x] /\ x \notin Owners(n)
        BY <2>5, <3>1
      <4> QED BY <4>1 DEF Owners, Closing
    <3>4. Owners(n)' \subseteq Threads
      BY DEF Owners
    <3> QED BY <3>2, <3>3, <3>4
  <2>8. \A f \in Fds \ {n} : fds'[f] = fds[f] /\ Owners(f)' = Owners(f)
    BY <2>2, <2>5 DEF IInv, TypeOK, Owners, Closing
  <2>9. fds'[n] = c
    BY <2>1, <2>2 DEF IInv, TypeOK
  <2>10. FdHasOneOwner'
    <3> SUFFICES ASSUME NEW f \in Fds
                 PROVE  /\ fds'[f] # NoClient => \E x \in Threads : Owners(f)' = {x}
                        /\ fds'[f] = NoClient => Owners(f)' = {}
      BY DEF FdHasOneOwner
    <3>1. CASE f = n
      <4>1. fds'[f] # NoClient
        BY <2>3, <2>9, <3>1
      <4>2. Owners(f)' = {t}
        BY <2>7, <3>1
      <4> QED BY <4>1, <4>2
    <3>2. CASE f # n
      BY <2>8, <3>2 DEF IInv, FdHasOneOwner
    <3> QED BY <3>1, <3>2
  <2> QED BY <2>4, <2>6, <2>10 DEF IInv
<1> QED BY <1>1, <1>2

\* The thread that closes a descriptor was its only owner.
LEMMA HangUpStep ==
    ASSUME IInv, NEW t \in Threads, NEW f \in Fds, HangUp(t, f)
    PROVE  IInv'
<1>1. f \in thr[t].clients /\ thr[t].pc = "walk" /\ f \in thr[t].todo
  BY DEF IInv, InHand, HangUp, Visits
<1>2. fds[f] \in Clients
  BY <1>1, InHandIsOpen DEF Closing
<1>3. TypeOK'
  <2>1. thr[t].todo \ {f} \in SUBSET Fds
    BY DEF IInv, TypeOK, ThreadRecs
  <2>2. [thr[t] EXCEPT !.pc = "delete", !.todo = @ \ {f}, !.fd = f] \in ThreadRecs
    <3>1. thr[t] \in ThreadRecs /\ f \in Fds \cup {0}
      BY DEF IInv, TypeOK
    <3> QED BY <2>1, <3>1 DEF ThreadRecs, ThreadPcs
  <2> QED BY <2>2 DEF IInv, HangUp, TypeOK
<1>4. /\ \A x \in Threads \ {t} : thr'[x] = thr[x]
      /\ thr'[t].pc = "delete" /\ thr'[t].fd = f
      /\ thr'[t].clients = thr[t].clients /\ thr'[t].todo \subseteq thr[t].todo
  BY DEF IInv, HangUp, TypeOK, ThreadRecs
<1>5. InHand'
  BY <1>1, <1>4 DEF IInv, InHand
<1>6. Owners(f)' = {}
  <2>1. Owners(f) = {t}
    <3>1. t \in Owners(f)
      BY <1>1 DEF Owners, Closing
    <3>2. fds[f] # NoClient
      BY <1>2 DEF Clients, NoClient
    <3> QED BY <3>1, <3>2 DEF IInv, FdHasOneOwner
  <2> QED BY <1>4, <2>1 DEF Owners, Closing
<1>7. \A g \in Fds \ {f} : fds'[g] = fds[g] /\ Owners(g)' = Owners(g)
  BY <1>1, <1>4 DEF IInv, TypeOK, HangUp, Owners, Closing
<1>8. fds'[f] = NoClient
  BY DEF IInv, TypeOK, HangUp
<1>9. FdHasOneOwner'
  BY <1>6, <1>7, <1>8 DEF IInv, FdHasOneOwner
<1> QED BY <1>3, <1>5, <1>9 DEF IInv

\* What is deleted was not owned any more, even if its number was given away.
LEMMA DeleteResourceStep ==
    ASSUME IInv, NEW t \in Threads, DeleteResource(t)
    PROVE  IInv'
<1>1. CASE Die("heap fault")
  BY <1>1, DeathStep DEF IInv, Ends
<1>2. CASE ~Die("heap fault")
  <2>1. /\ thr' = [thr EXCEPT ![t].pc = "select", ![t].todo = {},
                              ![t].clients = @ \ {thr[t].fd}, ![t].fd = 0]
        /\ UNCHANGED <<daemon, inited, fds, backlog, cl, runs>>
    BY <1>2 DEF DeleteResource
  <2>2. TypeOK'
    <3>1. thr[t].clients \ {thr[t].fd} \in SUBSET Fds
      BY DEF IInv, TypeOK, ThreadRecs
    <3>2. [thr[t] EXCEPT !.pc = "select", !.todo = {},
                         !.clients = @ \ {thr[t].fd}, !.fd = 0] \in ThreadRecs
      <4>1. thr[t] \in ThreadRecs
        BY DEF IInv, TypeOK
      <4> QED BY <3>1, <4>1 DEF ThreadRecs, ThreadPcs
    <3> QED BY <2>1, <3>2 DEF IInv, TypeOK
  <2>3. /\ \A x \in Threads \ {t} : thr'[x] = thr[x]
        /\ thr[t].pc = "delete" /\ thr'[t].pc = "select"
        /\ thr'[t].clients = thr[t].clients \ {thr[t].fd} /\ thr'[t].todo = {}
    BY <2>1 DEF IInv, TypeOK, ThreadRecs, DeleteResource
  <2>4. InHand'
    BY <2>3 DEF IInv, InHand
  <2>5. \A f \in Fds : Owners(f)' = Owners(f)
    BY <2>3 DEF Owners, Closing
  <2>6. FdHasOneOwner'
    BY <2>1, <2>5 DEF IInv, FdHasOneOwner
  <2> QED BY <2>2, <2>4, <2>6 DEF IInv
<1> QED BY <1>1, <1>2

-----------------------------------------------------------------------------
LEMMA Initially == Init => IInv
<1> SUFFICES ASSUME Init PROVE IInv
  OBVIOUS
<1>1. \A t \in Threads : /\ thr[t] \in ThreadRecs /\ thr[t].todo = {}
                         /\ thr[t].clients = {} /\ thr[t].pc \in {"none", "starting"}
  BY DEF Init, NoThread, ThreadRecs, ThreadPcs
<1>2. TypeOK
  BY <1>1, MainAssumption DEF Init, TypeOK, Ends, NoClient, NewClient, ClientRecs
<1>3. InHand
  BY <1>1 DEF InHand
<1>4. FdHasOneOwner
  BY <1>1 DEF Init, FdHasOneOwner, Owners
<1> QED BY <1>2, <1>3, <1>4 DEF IInv

LEMMA EveryStep == IInv /\ [Next]_vars => IInv'
<1> SUFFICES ASSUME IInv, [Next]_vars PROVE IInv'
  OBVIOUS
<1>1. ASSUME NEW c \in Clients, Client(c) \/ KillClient(c) PROVE IInv'
  BY <1>1, ClientStep
<1>2. CASE KillDaemon
  BY <1>2, DeathStep DEF KillDaemon, IInv, Ends
<1>3. ASSUME NEW t \in Threads, Loop(t) \/ Unblock(t) PROVE IInv'
  <2>1. CASE StartThread(t) \/ Select(t) \/ Accept(t) \/ EndPass(t)
    BY <2>1, StartThreadStep, SelectStep, AcceptStep, EndPassStep
  <2>2. ASSUME NEW f \in Fds, ReceiveRequest(t, f) \/ HangUp(t, f) PROVE IInv'
    BY <2>2, ReceiveRequestStep, HangUpStep
  <2>3. CASE DeleteResource(t) \/ Handle(t) \/ SendReply(t) \/ Unblock(t)
    BY <2>3, DeleteResourceStep, HandleStep, SendReplyStep, UnblockStep
  <2> QED BY <1>3, <2>1, <2>2, <2>3 DEF Loop
<1>4. CASE UNCHANGED vars
  BY <1>4 DEF vars, IInv, TypeOK, InHand, FdHasOneOwner, Owners, Closing
<1> QED BY <1>1, <1>2, <1>3, <1>4 DEF Next

LEMMA Always == Spec => []IInv
BY Initially, EveryStep, PTL DEF Spec

\* Whatever the clients ask for and whoever is killed, the threads, descriptors and
\* connections of the daemon are what the code takes them for
\* (saftest_main_lib.c:16-43).
THEOREM DaemonTypes == Spec => []TypeOK
<1>1. IInv => TypeOK
  BY DEF IInv
<1> QED BY <1>1, Always, PTL

\* However many threads and clients there are, and although a number is reused as
\* soon as it is closed, an open descriptor is on the list of exactly one thread and
\* a closed one on none but that of the thread deleting it
\* (saftest_main_lib.c:257-262, 286-346).
THEOREM OneOwner == Spec => []FdHasOneOwner
<1>1. IInv => FdHasOneOwner
  BY DEF IInv
<1> QED BY <1>1, Always, PTL

-----------------------------------------------------------------------------
\* The daemon implements RequestReply, and used as the framework uses it it stays up.


\* A connection is in one place: waiting to be accepted, or behind one descriptor.
Linked ==
    /\ \A f, g \in Fds : fds[f] = fds[g] /\ fds[f] # NoClient => f = g
    /\ \A f \in Fds : fds[f] # NoClient => cl[fds[f]].st # "new"
    /\ \A t \in Threads : \A c \in backlog[t] :
          /\ cl[c].st # "new"
          /\ \A f \in Fds : fds[f] # c
          /\ \A u \in Threads : c \in backlog[u] => u = t

\* What was not read was neither executed nor answered.
Unread ==
    \A c \in Clients :
        /\ cl[c].st = "new" => cl[c].out = "none"
        /\ cl[c].st = "connected" => cl[c].out \in {"none", "part"}
        /\ cl[c].out # "read" => runs[c] = 0 /\ cl[c].in = "none"

\* The request in hand was read; it is executed once before it is answered.
Serving(t) == thr[t].pc \in {"handle", "reply"}
InService ==
    \A t \in Threads : Serving(t) =>
        /\ cl[fds[thr[t].fd]].out = "read" /\ cl[fds[thr[t].fd]].in = "none"
        /\ runs[fds[thr[t].fd]] = IF thr[t].pc = "handle" THEN 0 ELSE 1

PInv == Linked /\ Unread /\ InService

\* The variables of the promise, and a step that changes none of them.
Sent == {c \in Clients : cl[c].out \in {"full", "read"}}
Answered == {c \in Clients : cl[c].in # "none"}
Promised == Promise!Next \/ UNCHANGED <<Sent, runs, Answered>>

\* The client a thread serves is connected through a descriptor of its own.
LEMMA ServedIsClient ==
    ASSUME IInv, NEW t \in Threads, Serving(t)
    PROVE  thr[t].fd \in Fds /\ fds[thr[t].fd] \in Clients /\ t \in Owners(thr[t].fd)
<1>1. thr[t].fd \in thr[t].clients /\ ~Closing(t, thr[t].fd)
  BY DEF IInv, InHand, Serving, Closing
<1>2. thr[t].fd \in Fds /\ fds[thr[t].fd] \in Clients
  BY <1>1, InHandIsOpen
<1> QED BY <1>1, <1>2 DEF Owners

\* Two threads never serve the same client.
LEMMA OneServer ==
    ASSUME IInv, Linked, NEW t \in Threads, NEW u \in Threads, Serving(t), Serving(u),
           fds[thr[t].fd] = fds[thr[u].fd]
    PROVE  t = u
<1>1. /\ thr[t].fd \in Fds /\ fds[thr[t].fd] \in Clients /\ t \in Owners(thr[t].fd)
      /\ thr[u].fd \in Fds /\ u \in Owners(thr[u].fd)
  BY ServedIsClient
<1>2. fds[thr[t].fd] # NoClient
  BY <1>1 DEF Clients, NoClient
<1>3. thr[t].fd = thr[u].fd
  BY <1>1, <1>2 DEF Linked
<1>4. PICK x \in Threads : Owners(thr[t].fd) = {x}
  BY <1>1, <1>2 DEF IInv, FdHasOneOwner
<1> QED BY <1>1, <1>3, <1>4

\* Steps in which no client, connection or request in hand is concerned.
LEMMA RequestOnlyElsewhere ==
    ASSUME PInv, UNCHANGED <<cl, runs, fds, backlog>>,
           \A x \in Threads : Serving(x)' => thr'[x].pc = thr[x].pc /\ thr'[x].fd = thr[x].fd
    PROVE  PInv' /\ Promised
<1>1. Linked' /\ Unread'
  BY DEF PInv, Linked, Unread
<1>2. InService'
  BY DEF PInv, InService, Serving
<1>3. UNCHANGED <<Sent, runs, Answered>>
  BY DEF Sent, Answered
<1> QED BY <1>1, <1>2, <1>3 DEF PInv, Promised

LEMMA DeathPromise ==
    ASSUME PInv, NEW why, Die(why)
    PROVE  PInv' /\ Promised
<1>1. /\ \A t \in Threads : thr'[t].pc = "none" /\ backlog'[t] = {}
      /\ \A f \in Fds : fds'[f] = NoClient
      /\ cl' = cl /\ runs' = runs
  BY DEF Die, NoThread
<1>2. PInv'
  BY <1>1 DEF PInv, Linked, Unread, InService, Serving
<1>3. UNCHANGED <<Sent, runs, Answered>>
  BY <1>1 DEF Sent, Answered
<1> QED BY <1>2, <1>3 DEF Promised

-----------------------------------------------------------------------------
\* The clients.

\* A step of a client that neither sends nor receives changes where it is only.
LEMMA ClientMoves ==
    ASSUME IInv, PInv, NEW c \in Clients, UNCHANGED <<thr, fds, backlog, runs>>,
           NEW r \in ClientRecs, cl' = [cl EXCEPT ![c] = r],
           r.out = cl[c].out, r.in = cl[c].in, r.st \notin {"new", "connected"}
    PROVE  PInv' /\ Promised
<1>1. \A d \in Clients : /\ cl'[d].out = cl[d].out /\ cl'[d].in = cl[d].in
                         /\ cl'[d].st = cl[d].st \/ cl'[d].st \notin {"new", "connected"}
  BY DEF IInv, TypeOK
<1>2. /\ \A f \in Fds : fds[f] # NoClient => fds[f] \in Clients
      /\ \A t \in Threads : backlog[t] \subseteq Clients
  BY DEF IInv, TypeOK
<1>3. Linked'
  BY <1>1, <1>2 DEF PInv, Linked
<1>4. Unread'
  BY <1>1 DEF PInv, Unread
<1>5. InService'
  <2> SUFFICES ASSUME NEW t \in Threads, Serving(t)
               PROVE  /\ cl'[fds[thr[t].fd]].out = "read"
                      /\ cl'[fds[thr[t].fd]].in = "none"
    BY DEF PInv, InService, Serving
  <2> QED BY <1>1, ServedIsClient DEF PInv, InService
<1>6. UNCHANGED <<Sent, runs, Answered>>
  BY <1>1 DEF Sent, Answered
<1> QED BY <1>3, <1>4, <1>5, <1>6 DEF PInv, Promised

\* The client connects: the daemon knows it from its backlog only.
LEMMA ConnectPromise ==
    ASSUME IInv, PInv, NEW c \in Clients, Connect(c)
    PROVE  PInv' /\ Promised
<1>1. PICK op \in Requests, t \in Threads :
         \/ /\ cl' = [cl EXCEPT ![c] = [@ EXCEPT !.st = "connected", !.op = op, !.to = t]]
            /\ backlog' = [backlog EXCEPT ![t] = @ \cup {c}]
         \/ /\ cl' = [cl EXCEPT ![c] = [@ EXCEPT !.st = "failed", !.op = op, !.to = t]]
            /\ backlog' = backlog
  BY DEF Connect
<1>2. cl[c].st = "new" /\ UNCHANGED <<thr, fds, runs>>
  BY DEF Connect
<1>3. /\ \A d \in Clients : cl'[d].out = cl[d].out /\ cl'[d].in = cl[d].in
      /\ \A d \in Clients \ {c} : cl'[d].st = cl[d].st
      /\ cl'[c].st \in {"connected", "failed"}
  <2>1. cl[c] \in ClientRecs /\ \A d \in Clients \ {c} : cl'[d] = cl[d]
    BY <1>1 DEF IInv, TypeOK
  <2>2. \/ cl'[c] = [cl[c] EXCEPT !.st = "connected", !.op = op, !.to = t]
        \/ cl'[c] = [cl[c] EXCEPT !.st = "failed", !.op = op, !.to = t]
    BY <1>1 DEF IInv, TypeOK
  <2>3. /\ cl'[c].out = cl[c].out /\ cl'[c].in = cl[c].in
        /\ cl'[c].st \in {"connected", "failed"}
    BY <2>1, <2>2 DEF ClientRecs
  <2> QED BY <2>1, <2>3
<1>4. /\ \A f \in Fds : fds[f] # c /\ (fds[f] # NoClient => fds[f] \in Clients)
      /\ \A u \in Threads : c \notin backlog[u] /\ backlog[u] \subseteq Clients
  BY <1>2 DEF IInv, TypeOK, PInv, Linked, Clients, NoClient
<1>5. \A u \in Threads : \/ backlog'[u] = backlog[u]
                        \/ (u = t /\ backlog'[u] = backlog[u] \cup {c})
  BY <1>1 DEF IInv, TypeOK
<1>6. Linked'
  BY <1>2, <1>3, <1>4, <1>5 DEF PInv, Linked
<1>7. Unread'
  BY <1>2, <1>3 DEF PInv, Unread
<1>8. InService'
  <2> SUFFICES ASSUME NEW x \in Threads, Serving(x)
               PROVE  /\ cl'[fds[thr[x].fd]].out = "read"
                      /\ cl'[fds[thr[x].fd]].in = "none"
    BY <1>2 DEF PInv, InService, Serving
  <2> QED BY <1>3, ServedIsClient DEF PInv, InService
<1>9. UNCHANGED <<Sent, runs, Answered>>
  BY <1>2, <1>3 DEF Sent, Answered
<1> QED BY <1>6, <1>7, <1>8, <1>9 DEF PInv, Promised

\* The rest of a request goes out: the client asks.
LEMMA SendPromise ==
    ASSUME IInv, PInv, NEW c \in Clients, Send(c)
    PROVE  PInv' /\ Promised
<1>1. cl[c] \in ClientRecs /\ cl[c].st = "connected" /\ cl[c].out \in {"none", "part"}
  BY DEF Send, IInv, TypeOK, PInv, Unread
<1>2. UNCHANGED <<thr, fds, backlog, runs>>
  BY DEF Send
<1>3. CASE daemon # "up"
  <2>1. cl' = [cl EXCEPT ![c] = [cl[c] EXCEPT !.st = "failed"]]
    BY <1>3 DEF Send
  <2>2. [cl[c] EXCEPT !.st = "failed"] \in ClientRecs
    BY <1>1 DEF ClientRecs
  <2>3. /\ [cl[c] EXCEPT !.st = "failed"].out = cl[c].out
        /\ [cl[c] EXCEPT !.st = "failed"].in = cl[c].in
        /\ [cl[c] EXCEPT !.st = "failed"].st = "failed"
    BY <1>1 DEF ClientRecs
  <2> QED BY <1>2, <2>1, <2>2, <2>3, ClientMoves
<1>4. CASE daemon = "up"
  <2>1. /\ \A d \in Clients \ {c} : cl'[d] = cl[d]
        /\ \/ /\ cl[c].out = "none"
              /\ cl'[c] = [cl[c] EXCEPT !.out = "part"]
           \/ /\ cl[c].out = "part"
              /\ \E s \in {"ok", "waiting"} :
                    cl'[c] = [cl[c] EXCEPT !.out = "full", !.st = s]
    <3>1. CASE cl[c].out = "none"
      BY <1>4, <3>1 DEF Send, IInv, TypeOK
    <3>2. CASE cl[c].out = "part" /\ cl[c].op = "BLOCK"
      <4>1. cl' = [cl EXCEPT ![c] = [cl[c] EXCEPT !.out = "full", !.st = "ok"]]
        BY <1>4, <3>2 DEF Send
      <4> QED BY <3>2, <4>1 DEF IInv, TypeOK
    <3>3. CASE cl[c].out = "part" /\ cl[c].op # "BLOCK"
      <4>1. cl' = [cl EXCEPT ![c] = [cl[c] EXCEPT !.out = "full", !.st = "waiting"]]
        BY <1>4, <3>3 DEF Send
      <4> QED BY <3>3, <4>1 DEF IInv, TypeOK
    <3> QED BY <1>1, <3>1, <3>2, <3>3
  <2>2. /\ cl'[c].in = cl[c].in
        /\ \/ cl[c].out = "none" /\ cl'[c].out = "part" /\ cl'[c].st = "connected"
           \/ cl[c].out = "part" /\ cl'[c].out = "full" /\ cl'[c].st \in {"ok", "waiting"}
    BY <1>1, <2>1 DEF ClientRecs
  <2>3. /\ \A f \in Fds : fds[f] # NoClient => fds[f] \in Clients
        /\ \A t \in Threads : backlog[t] \subseteq Clients
    BY DEF IInv, TypeOK
  <2>4. Linked'
    <3>1. \A d \in Clients : cl[d].st # "new" => cl'[d].st # "new"
      BY <2>1, <2>2
    <3> QED BY <1>2, <2>3, <3>1 DEF PInv, Linked
  <2>5. Unread'
    <3> SUFFICES ASSUME NEW d \in Clients
                 PROVE  /\ cl'[d].st = "new" => cl'[d].out = "none"
                        /\ cl'[d].st = "connected" => cl'[d].out \in {"none", "part"}
                        /\ cl'[d].out # "read" => runs'[d] = 0 /\ cl'[d].in = "none"
      BY DEF Unread
    <3>1. CASE d = c
      BY <1>1, <1>2, <2>2, <3>1 DEF PInv, Unread
    <3>2. CASE d # c
      <4>1. cl'[d] = cl[d]
        BY <2>1, <3>2
      <4> QED BY <1>2, <4>1 DEF PInv, Unread
    <3> QED BY <3>1, <3>2
  <2>6. InService'
    <3> SUFFICES ASSUME NEW x \in Threads, Serving(x)
                 PROVE  /\ cl'[fds[thr[x].fd]].out = "read"
                        /\ cl'[fds[thr[x].fd]].in = "none"
      BY <1>2 DEF PInv, InService, Serving
    <3>1. fds[thr[x].fd] # c
      BY <1>1 DEF PInv, InService
    <3>2. cl'[fds[thr[x].fd]] = cl[fds[thr[x].fd]]
      BY <2>1, <3>1, ServedIsClient
    <3> QED BY <3>2 DEF PInv, InService
  <2>7. Answered' = Answered
    BY <2>1, <2>2 DEF Answered
  <2>8. CASE cl'[c].out = "part"
    <3>1. Sent' = Sent
      BY <2>1, <2>2, <2>8 DEF Sent
    <3> QED BY <1>2, <2>4, <2>5, <2>6, <2>7, <3>1 DEF PInv, Promised
  <2>9. CASE cl'[c].out = "full"
    <3>1. c \notin Sent /\ Sent' = Sent \cup {c}
      BY <2>1, <2>2, <2>9 DEF Sent
    <3>2. Promise!Ask(c)
      BY <1>2, <2>7, <3>1 DEF Promise!Ask, Sent, Answered
    <3> QED BY <2>4, <2>5, <2>6, <3>2 DEF PInv, Promised, Promise!Next
  <2> QED BY <2>2, <2>8, <2>9
<1> QED BY <1>3, <1>4

LEMMA ClientPromise ==
    ASSUME IInv, PInv, NEW c \in Clients, Client(c) \/ KillClient(c)
    PROVE  PInv' /\ Promised
<1>1. CASE Connect(c)
  BY <1>1, ConnectPromise
<1>2. CASE Send(c)
  BY <1>2, SendPromise
<1>3. CASE Receive(c) \/ KillClient(c)
  <2>1. PICK s \in {"ok", "failed", "killed"} :
           /\ cl' = [cl EXCEPT ![c] = [cl[c] EXCEPT !.st = s]]
           /\ UNCHANGED <<thr, fds, backlog, runs>>
    BY <1>3 DEF Receive, KillClient
  <2>2. cl[c] \in ClientRecs
    BY DEF IInv, TypeOK
  <2>3. [cl[c] EXCEPT !.st = s] \in ClientRecs
    BY <2>2 DEF ClientRecs
  <2>4. /\ [cl[c] EXCEPT !.st = s].out = cl[c].out
        /\ [cl[c] EXCEPT !.st = s].in = cl[c].in
        /\ [cl[c] EXCEPT !.st = s].st = s
    BY <2>2 DEF ClientRecs
  <2> QED BY <2>1, <2>3, <2>4, ClientMoves
<1> QED BY <1>1, <1>2, <1>3 DEF Client

-----------------------------------------------------------------------------
\* The threads.

\* What becomes of the records of the threads in a step of one of them.
LEMMA OneThreadMoves ==
    ASSUME IInv, NEW t \in Threads, NEW r, thr' = [thr EXCEPT ![t] = r]
    PROVE  thr'[t] = r /\ \A x \in Threads \ {t} : thr'[x] = thr[x]
BY DEF IInv, TypeOK

\* Steps of the select loop that touch neither connections nor requests.
LEMMA LoopPromise ==
    ASSUME IInv, PInv, NEW t \in Threads,
           StartThread(t) \/ Select(t) \/ EndPass(t) \/ Unblock(t) \/ DeleteResource(t)
    PROVE  PInv' /\ Promised
<1>1. CASE \E why \in Ends : Die(why)
  BY <1>1, DeathPromise
<1>2. CASE ~(\E why \in Ends : Die(why))
  <2>1. UNCHANGED <<cl, runs, fds, backlog>>
    BY <1>2 DEF StartThread, Select, EndPass, Unblock, DeleteResource, Ends
  <2>2. thr'[t].pc \in {"select", "accept", "walk"} /\ \A x \in Threads \ {t} : thr'[x] = thr[x]
    <3>1. thr[t] \in ThreadRecs
      BY DEF IInv, TypeOK
    <3>2. CASE StartThread(t) \/ EndPass(t)
      BY <3>1, <3>2 DEF StartThread, EndPass, IInv, TypeOK, ThreadRecs
    <3>3. CASE Select(t)
      <4>1. \/ thr' = [thr EXCEPT ![t].pc = "accept"]
            \/ \E d : thr' = [thr EXCEPT ![t].pc = "walk", ![t].todo = d]
        BY <1>2, <3>3 DEF Select, Ends
      <4> QED BY <3>1, <4>1 DEF IInv, TypeOK, ThreadRecs
    <3>4. CASE Unblock(t)
      BY <3>1, <3>4 DEF Unblock, IInv, TypeOK, ThreadRecs
    <3>5. CASE DeleteResource(t)
      <4>1. \E d : thr' = [thr EXCEPT ![t].pc = "select", ![t].todo = {},
                                      ![t].clients = d, ![t].fd = 0]
        BY <1>2, <3>5 DEF DeleteResource, Ends
      <4> QED BY <3>1, <4>1 DEF IInv, TypeOK, ThreadRecs
    <3> QED BY <3>2, <3>3, <3>4, <3>5
  <2>3. \A x \in Threads : Serving(x)' => thr'[x].pc = thr[x].pc /\ thr'[x].fd = thr[x].fd
    BY <2>2 DEF Serving
  <2> QED BY <2>1, <2>3, RequestOnlyElsewhere
<1> QED BY <1>1, <1>2

\* The connection moves from the backlog to the lowest free descriptor.
LEMMA AcceptPromise ==
    ASSUME IInv, PInv, NEW t \in Threads, Accept(t)
    PROVE  PInv' /\ Promised
<1>1. CASE Free = {}
  BY <1>1, DeathPromise DEF Accept
<1>2. CASE Free # {}
  <2>1. PICK n \in Fds : n = LowestFree /\ fds[n] = NoClient
    BY <1>2, LowestIsFree
  <2>2. PICK c \in backlog[t] :
           /\ backlog' = [backlog EXCEPT ![t] = @ \ {c}]
           /\ fds' = [fds EXCEPT ![n] = c]
           /\ thr' = [thr EXCEPT ![t].pc = "select", ![t].clients = @ \cup {n}]
           /\ UNCHANGED <<daemon, inited, cl, runs>>
    BY <1>2, <2>1 DEF Accept
  <2>3. /\ fds'[n] = c /\ \A f \in Fds \ {n} : fds'[f] = fds[f]
        /\ backlog'[t] = backlog[t] \ {c}
        /\ \A u \in Threads \ {t} : backlog'[u] = backlog[u]
    BY <2>2 DEF IInv, TypeOK
  <2>4. /\ \A f \in Fds : fds[f] # c
        /\ \A u \in Threads : c \in backlog[u] => u = t
        /\ cl[c].st # "new"
    BY <2>2 DEF PInv, Linked
  <2>5. Linked'
    <3>1. \A f, g \in Fds : fds'[f] = fds'[g] /\ fds'[f] # NoClient => f = g
      BY <2>3, <2>4 DEF PInv, Linked
    <3>2. \A f \in Fds : fds'[f] # NoClient => cl'[fds'[f]].st # "new"
      BY <2>2, <2>3, <2>4 DEF PInv, Linked
    <3>3. ASSUME NEW u \in Threads, NEW d \in backlog'[u]
          PROVE  /\ cl'[d].st # "new"
                 /\ \A f \in Fds : fds'[f] # d
                 /\ \A v \in Threads : d \in backlog'[v] => v = u
      <4>1. \A v \in Threads : backlog'[v] = backlog[v] \ {c}
        BY <2>3, <2>4
      <4>2. d \in backlog[u] /\ d # c
        BY <4>1
      <4> QED BY <2>2, <2>3, <4>1, <4>2 DEF PInv, Linked
    <3> QED BY <3>1, <3>2, <3>3 DEF Linked
  <2>6. Unread'
    BY <2>2 DEF PInv, Unread
  <2>7. InService'
    <3>1. /\ \A x \in Threads \ {t} : thr'[x] = thr[x]
          /\ ~Serving(t)'
      <4>1. thr[t] \in ThreadRecs
        BY DEF IInv, TypeOK
      <4> QED BY <2>2, <4>1 DEF IInv, TypeOK, ThreadRecs, Serving
    <3>2. ASSUME NEW x \in Threads, Serving(x)'
          PROVE  Serving(x) /\ thr'[x] = thr[x] /\ fds'[thr[x].fd] = fds[thr[x].fd]
      <4>1. Serving(x) /\ thr'[x] = thr[x]
        BY <3>1, <3>2 DEF Serving
      <4>2. thr[x].fd \in Fds /\ fds[thr[x].fd] # NoClient
        BY <4>1, ServedIsClient DEF Clients, NoClient
      <4> QED BY <2>1, <2>3, <4>1, <4>2
    <3>3. UNCHANGED <<cl, runs>>
      BY <2>2
    <3> QED BY <3>2, <3>3 DEF PInv, InService
  <2>8. UNCHANGED <<Sent, runs, Answered>>
    BY <2>2 DEF Sent, Answered
  <2> QED BY <2>5, <2>6, <2>7, <2>8 DEF PInv, Promised
<1> QED BY <1>1, <1>2

\* A descriptor that is closed is not the one another thread serves.
LEMMA HangUpPromise ==
    ASSUME IInv, PInv, NEW t \in Threads, NEW f \in Fds, HangUp(t, f)
    PROVE  PInv' /\ Promised
<1>1. /\ fds' = [fds EXCEPT ![f] = NoClient] /\ UNCHANGED <<backlog, cl, runs>>
      /\ thr[t].pc = "walk" /\ f \in thr[t].clients
  BY DEF HangUp, Visits, IInv, InHand
<1>2. fds'[f] = NoClient /\ \A g \in Fds \ {f} : fds'[g] = fds[g]
  BY <1>1 DEF IInv, TypeOK
<1>3. \A x \in Threads \ {t} : thr'[x] = thr[x]
  BY DEF HangUp, IInv, TypeOK
<1>4. ~Serving(t)'
  <2>1. thr[t] \in ThreadRecs
    BY DEF IInv, TypeOK
  <2>2. thr'[t].pc = "delete"
    BY <2>1 DEF HangUp, IInv, TypeOK, ThreadRecs
  <2> QED BY <2>2 DEF Serving
<1>5. Linked'
  <2>1. \A u \in Threads : backlog[u] \subseteq Clients
    BY DEF IInv, TypeOK
  <2>2. \A c \in Clients : c # NoClient
    BY DEF Clients, NoClient
  <2> QED BY <1>1, <1>2, <2>1, <2>2 DEF PInv, Linked
<1>6. Unread'
  BY <1>1 DEF PInv, Unread
<1>7. InService'
  <2>1. ASSUME NEW x \in Threads, Serving(x)'
        PROVE  Serving(x) /\ thr'[x] = thr[x] /\ fds'[thr[x].fd] = fds[thr[x].fd]
    <3>1. Serving(x) /\ thr'[x] = thr[x] /\ x # t
      BY <1>3, <1>4, <2>1 DEF Serving
    <3>2. thr[x].fd \in Fds /\ fds[thr[x].fd] \in Clients /\ x \in Owners(thr[x].fd)
      BY <3>1, ServedIsClient
    <3>3. thr[x].fd # f
      <4>1. SUFFICES ASSUME thr[x].fd = f PROVE FALSE
        OBVIOUS
      <4>2. t \in Owners(f)
        BY <1>1 DEF Owners, Closing
      <4>3. fds[f] # NoClient
        BY <3>2, <4>1 DEF Clients, NoClient
      <4> QED BY <3>1, <3>2, <4>1, <4>2, <4>3 DEF IInv, FdHasOneOwner
    <3> QED BY <1>2, <3>1, <3>2, <3>3
  <2> QED BY <1>1, <2>1 DEF PInv, InService
<1>8. UNCHANGED <<Sent, runs, Answered>>
  BY <1>1 DEF Sent, Answered
<1> QED BY <1>5, <1>6, <1>7, <1>8 DEF PInv, Promised

\* A complete request is read: nobody else serves its client.
LEMMA ReceiveRequestPromise ==
    ASSUME IInv, PInv, NEW t \in Threads, NEW f \in Fds, ReceiveRequest(t, f)
    PROVE  PInv' /\ Promised
<1>1. f \in thr[t].clients /\ ~Closing(t, f)
  BY DEF IInv, InHand, ReceiveRequest, Visits, Closing
<1>2. PICK c \in Clients : c = fds[f]
  BY <1>1, InHandIsOpen
<1>3. /\ cl[c].out = "full" /\ UNCHANGED <<fds, backlog, runs>>
      /\ cl' = [cl EXCEPT ![c] = [cl[c] EXCEPT !.out = "read"]]
  BY <1>2 DEF ReceiveRequest
<1>4. /\ \A d \in Clients \ {c} : cl'[d] = cl[d]
      /\ cl'[c].out = "read" /\ cl'[c].in = cl[c].in /\ cl'[c].st = cl[c].st
  <2>1. cl[c] \in ClientRecs
    BY DEF IInv, TypeOK
  <2> QED BY <1>3, <2>1 DEF IInv, TypeOK, ClientRecs
<1>5. \A x \in Threads \ {t} : thr'[x] = thr[x]
  BY DEF ReceiveRequest, IInv, TypeOK
<1>6. thr'[t].pc = "handle" /\ thr'[t].fd = f
  <2>1. thr[t] \in ThreadRecs
    BY DEF IInv, TypeOK
  <2> QED BY <2>1 DEF ReceiveRequest, IInv, TypeOK, ThreadRecs
<1>7. Linked'
  <2>1. /\ \A g \in Fds : fds[g] # NoClient => fds[g] \in Clients
        /\ \A u \in Threads : backlog[u] \subseteq Clients
    BY DEF IInv, TypeOK
  <2>2. \A d \in Clients : cl'[d].st = cl[d].st
    BY <1>4
  <2> QED BY <1>3, <2>1, <2>2 DEF PInv, Linked
<1>8. cl[c].st \notin {"new", "connected"} /\ runs[c] = 0 /\ cl[c].in = "none"
  BY <1>3 DEF PInv, Unread
<1>9. Unread'
  <2> SUFFICES ASSUME NEW d \in Clients
               PROVE  /\ cl'[d].st = "new" => cl'[d].out = "none"
                      /\ cl'[d].st = "connected" => cl'[d].out \in {"none", "part"}
                      /\ cl'[d].out # "read" => runs'[d] = 0 /\ cl'[d].in = "none"
    BY DEF Unread
  <2>1. CASE d = c
    BY <1>4, <1>8, <2>1
  <2>2. CASE d # c
    <3>1. cl'[d] = cl[d]
      BY <1>4, <2>2
    <3> QED BY <1>3, <3>1 DEF PInv, Unread
  <2> QED BY <2>1, <2>2
<1>10. InService'
  <2> SUFFICES ASSUME NEW x \in Threads, Serving(x)'
               PROVE  /\ cl'[fds'[thr'[x].fd]].out = "read"
                      /\ cl'[fds'[thr'[x].fd]].in = "none"
                      /\ runs'[fds'[thr'[x].fd]] = IF thr'[x].pc = "handle" THEN 0 ELSE 1
    BY DEF InService
  <2>1. CASE x = t
    BY <1>2, <1>3, <1>4, <1>6, <1>8, <2>1
  <2>2. CASE x # t
    <3>1. thr'[x] = thr[x] /\ Serving(x)
      BY <1>5, <2>2 DEF Serving
    <3>2. fds[thr[x].fd] \in Clients /\ fds[thr[x].fd] # c
      BY <1>3, <3>1, ServedIsClient DEF PInv, InService
    <3> QED BY <1>3, <1>4, <3>1, <3>2 DEF PInv, InService
  <2> QED BY <2>1, <2>2
<1>11. UNCHANGED <<Sent, runs, Answered>>
  BY <1>3, <1>4 DEF Sent, Answered
<1> QED BY <1>7, <1>9, <1>10, <1>11 DEF PInv, Promised

\* The request in hand is executed: nobody else has it in hand.
LEMMA HandlePromise ==
    ASSUME IInv, PInv, NEW t \in Threads, Handle(t)
    PROVE  PInv' /\ Promised
<1>1. CASE \E why \in Ends : Die(why)
  BY <1>1, DeathPromise
<1>2. CASE ~(\E why \in Ends : Die(why))
  <2>1. Serving(t) /\ thr[t].pc = "handle"
    BY DEF Handle, HandleInitialize, HandleStatus, HandleCreateThread, HandleLibrary,
           Serving
  <2>2. PICK c \in Clients : c = fds[thr[t].fd]
    BY <2>1, ServedIsClient
  <2>3. /\ UNCHANGED <<fds, backlog, cl>>
        /\ runs' = [runs EXCEPT ![c] = @ + 1]
        /\ \/ thr' = [thr EXCEPT ![t].pc = "reply"]
           \/ thr' = [thr EXCEPT ![t].pc = "blocked"]
           \/ \E u \in Threads :
                 /\ thr[u].pc = "none"
                 /\ thr' = [thr EXCEPT ![u].pc = "starting", ![t].pc = "reply"]
    <3>1. CASE HandleInitialize(t)
      BY <1>2, <2>2, <3>1 DEF HandleInitialize, Served, Count, Ends
    <3>2. CASE HandleStatus(t)
      BY <1>2, <2>2, <3>2 DEF HandleStatus, Served, Count, Ends
    <3>3. CASE HandleCreateThread(t)
      BY <1>2, <2>2, <3>3 DEF HandleCreateThread, Count, Ends
    <3>4. CASE HandleLibrary(t)
      BY <1>2, <2>2, <3>4 DEF HandleLibrary, Count
    <3> QED BY <3>1, <3>2, <3>3, <3>4 DEF Handle
  <2>4. cl[c].out = "read" /\ cl[c].in = "none" /\ runs[c] = 0
    BY <2>1, <2>2 DEF PInv, InService
  <2>5. /\ runs'[c] = 1 /\ \A d \in Clients \ {c} : runs'[d] = runs[d]
        /\ runs' = [runs EXCEPT ![c] = 1]
    BY <2>3, <2>4 DEF IInv, TypeOK
  <2>6. thr'[t].pc \in {"reply", "blocked"} /\ thr'[t].fd = thr[t].fd
    <3>1. thr[t] \in ThreadRecs
      BY DEF IInv, TypeOK
    <3>2. \/ thr'[t] = [thr[t] EXCEPT !.pc = "reply"]
          \/ thr'[t] = [thr[t] EXCEPT !.pc = "blocked"]
      BY <2>1, <2>3 DEF IInv, TypeOK
    <3> QED BY <3>1, <3>2 DEF ThreadRecs
  <2>7. ASSUME NEW x \in Threads \ {t}, Serving(x)'
        PROVE  Serving(x) /\ thr'[x] = thr[x]
    <3>1. \/ thr'[x] = thr[x]
          \/ thr'[x] = [thr[x] EXCEPT !.pc = "starting"]
      BY <2>3 DEF IInv, TypeOK
    <3>2. thr[x] \in ThreadRecs
      BY DEF IInv, TypeOK
    <3>3. thr'[x] # [thr[x] EXCEPT !.pc = "starting"]
      BY <2>7, <3>2 DEF Serving, ThreadRecs
    <3> QED BY <2>7, <3>1, <3>3 DEF Serving
  <2>8. Linked'
    BY <2>3 DEF PInv, Linked
  <2>9. Unread'
    BY <2>3, <2>4, <2>5 DEF PInv, Unread
  <2>10. InService'
    <3> SUFFICES ASSUME NEW x \in Threads, Serving(x)'
                 PROVE  /\ cl'[fds'[thr'[x].fd]].out = "read"
                        /\ cl'[fds'[thr'[x].fd]].in = "none"
                        /\ runs'[fds'[thr'[x].fd]] = IF thr'[x].pc = "handle" THEN 0 ELSE 1
      BY DEF InService
    <3>1. CASE x = t
      BY <2>2, <2>3, <2>4, <2>5, <2>6, <3>1
    <3>2. CASE x # t
      <4>1. Serving(x) /\ thr'[x] = thr[x]
        BY <2>7, <3>2
      <4>2. fds[thr[x].fd] \in Clients /\ fds[thr[x].fd] # c
        BY <2>1, <2>2, <3>2, <4>1, ServedIsClient, OneServer DEF PInv
      <4> QED BY <2>3, <2>5, <4>1, <4>2 DEF PInv, InService
    <3> QED BY <3>1, <3>2
  <2>11. Promise!Execute(c)
    BY <2>3, <2>4, <2>5 DEF Promise!Execute, Sent, Answered
  <2> QED BY <2>8, <2>9, <2>10, <2>11 DEF PInv, Promised, Promise!Next
<1> QED BY <1>1, <1>2

\* The reply goes to the client whose request was executed.
LEMMA SendReplyPromise ==
    ASSUME IInv, PInv, NEW t \in Threads, SendReply(t)
    PROVE  PInv' /\ Promised
<1>1. CASE Gone(fds[thr[t].fd])
  BY <1>1, DeathPromise DEF SendReply
<1>2. CASE ~Gone(fds[thr[t].fd])
  <2>1. Serving(t) /\ thr[t].pc = "reply" /\ thr[t] \in ThreadRecs
    BY DEF SendReply, Serving, IInv, TypeOK
  <2>2. PICK c \in Clients : c = fds[thr[t].fd]
    BY <2>1, ServedIsClient
  <2>3. /\ UNCHANGED <<fds, backlog, runs>>
        /\ cl' = [cl EXCEPT ![c] = [cl[c] EXCEPT !.in = thr[t].op]]
        /\ thr' = [thr EXCEPT ![t].pc = "walk", ![t].fd = 0, ![t].op = "none"]
    BY <1>2, <2>2 DEF SendReply
  <2>4. cl[c].out = "read" /\ cl[c].in = "none" /\ runs[c] = 1
    BY <2>1, <2>2 DEF PInv, InService
  <2>5. /\ \A d \in Clients \ {c} : cl'[d] = cl[d]
        /\ cl'[c].out = cl[c].out /\ cl'[c].st = cl[c].st /\ cl'[c].in = thr[t].op
    <3>1. cl[c] \in ClientRecs
      BY DEF IInv, TypeOK
    <3> QED BY <2>3, <3>1 DEF IInv, TypeOK, ClientRecs
  <2>6. ~Serving(t)' /\ \A x \in Threads \ {t} : thr'[x] = thr[x]
    <3>1. thr'[t].pc = "walk"
      BY <2>1, <2>3 DEF IInv, TypeOK, ThreadRecs
    <3> QED BY <2>3, <3>1 DEF IInv, TypeOK, Serving
  <2>7. Linked'
    <3>1. /\ \A g \in Fds : fds[g] # NoClient => fds[g] \in Clients
          /\ \A u \in Threads : backlog[u] \subseteq Clients
      BY DEF IInv, TypeOK
    <3>2. \A d \in Clients : cl'[d].st = cl[d].st
      BY <2>5
    <3> QED BY <2>3, <3>1, <3>2 DEF PInv, Linked
  <2>8. Unread'
    <3> SUFFICES ASSUME NEW d \in Clients
                 PROVE  /\ cl'[d].st = "new" => cl'[d].out = "none"
                        /\ cl'[d].st = "connected" => cl'[d].out \in {"none", "part"}
                        /\ cl'[d].out # "read" => runs'[d] = 0 /\ cl'[d].in = "none"
      BY DEF Unread
    <3>1. CASE d = c
      BY <2>4, <2>5, <3>1 DEF PInv, Unread
    <3>2. CASE d # c
      <4>1. cl'[d] = cl[d]
        BY <2>5, <3>2
      <4> QED BY <2>3, <4>1 DEF PInv, Unread
    <3> QED BY <3>1, <3>2
  <2>9. InService'
    <3>1. ASSUME NEW x \in Threads, Serving(x)'
          PROVE  /\ Serving(x) /\ thr'[x] = thr[x]
                 /\ cl'[fds[thr[x].fd]] = cl[fds[thr[x].fd]]
      <4>1. Serving(x) /\ thr'[x] = thr[x] /\ x # t
        BY <2>6, <3>1 DEF Serving
      <4>2. fds[thr[x].fd] \in Clients /\ fds[thr[x].fd] # c
        BY <2>1, <2>2, <4>1, ServedIsClient, OneServer DEF PInv
      <4> QED BY <2>5, <4>1, <4>2
    <3>2. runs' = runs /\ fds' = fds
      BY <2>3
    <3> QED BY <3>1, <3>2 DEF PInv, InService
  <2>10. Sent' = Sent
    BY <2>5 DEF Sent
  <2>11. CASE thr[t].op = "none"
    <3>1. Answered' = Answered
      BY <2>4, <2>5, <2>11 DEF Answered
    <3> QED BY <2>3, <2>7, <2>8, <2>9, <2>10, <3>1 DEF PInv, Promised
  <2>12. CASE thr[t].op # "none"
    <3>1. c \notin Answered /\ Answered' = Answered \cup {c}
      BY <2>4, <2>5, <2>12 DEF Answered
    <3>2. Promise!Answer(c)
      BY <2>3, <2>4, <2>10, <3>1 DEF Promise!Answer, Sent, Answered
    <3> QED BY <2>7, <2>8, <2>9, <3>2 DEF PInv, Promised, Promise!Next
  <2> QED BY <2>11, <2>12
<1> QED BY <1>1, <1>2

-----------------------------------------------------------------------------
LEMMA PromiseInitially == Init => PInv /\ Promise!Init
<1> SUFFICES ASSUME Init PROVE PInv /\ Promise!Init
  OBVIOUS
<1>1. \A t \in Threads : thr[t].pc \notin {"handle", "reply"} /\ backlog[t] = {}
  BY DEF Init, NoThread
<1>2. \A c \in Clients : cl[c].st = "new" /\ cl[c].out = "none" /\ cl[c].in = "none"
  BY DEF Init, NewClient
<1>3. PInv
  BY <1>1, <1>2 DEF Init, PInv, Linked, Unread, InService, Serving
<1>4. Promise!Init
  BY <1>2 DEF Init, Promise!Init
<1> QED BY <1>3, <1>4

LEMMA PromiseStep == IInv /\ PInv /\ [Next]_vars => PInv' /\ [Promise!Next]_(Promise!vars)
<1> SUFFICES ASSUME IInv, PInv, [Next]_vars PROVE PInv' /\ Promised
  BY DEF Promised, Promise!vars, Sent, Answered
<1>1. ASSUME NEW c \in Clients, Client(c) \/ KillClient(c) PROVE PInv' /\ Promised
  BY <1>1, ClientPromise
<1>2. CASE KillDaemon
  BY <1>2, DeathPromise DEF KillDaemon
<1>3. ASSUME NEW t \in Threads, Loop(t) \/ Unblock(t) PROVE PInv' /\ Promised
  <2>1. CASE StartThread(t) \/ Select(t) \/ EndPass(t) \/ Unblock(t) \/ DeleteResource(t)
    BY <2>1, LoopPromise
  <2>2. ASSUME NEW f \in Fds, ReceiveRequest(t, f) \/ HangUp(t, f) PROVE PInv' /\ Promised
    BY <2>2, ReceiveRequestPromise, HangUpPromise
  <2>3. CASE Accept(t) \/ Handle(t) \/ SendReply(t)
    BY <2>3, AcceptPromise, HandlePromise, SendReplyPromise
  <2> QED BY <1>3, <2>1, <2>2, <2>3 DEF Loop
<1>4. CASE UNCHANGED vars
  BY <1>4 DEF vars, PInv, Linked, Unread, InService, Serving, Promised, Sent, Answered
<1> QED BY <1>1, <1>2, <1>3, <1>4 DEF Next

\* The daemon with its threads, descriptors and connections implements the promise:
\* each complete request is executed at most once and answered to the client that
\* sent it, whatever descriptors are reused and whoever is killed
\* (saftest_main_lib.c:286-346).
THEOREM PromiseIsKept == Spec => KeepsPromise
<1>1. Init => PInv /\ Promise!Init
  BY PromiseInitially
<1>2. IInv /\ PInv /\ [Next]_vars => PInv' /\ [Promise!Next]_(Promise!vars)
  BY PromiseStep
<1> QED BY <1>1, <1>2, Always, PTL DEF Spec, KeepsPromise, Promise!Spec

-----------------------------------------------------------------------------
\* In a daemon that is up each complete request is somewhere.

\* The request a thread has in hand is its client's.
TheirRequest ==
    /\ \A c \in Clients : cl[c].st # "new" => cl[c].op # "none"
    /\ \A t \in Threads : Serving(t) => thr[t].op = cl[fds[thr[t].fd]].op

\* A client that is still sending waits where its request will be read.
Somewhere(c) ==
    /\ cl[c].st = "connected" \/ cl[c].out = "full" => Waits(c)
    /\ cl[c].out = "read" => InHandOf("handle", c) \/ runs[c] = 1
    /\ runs[c] = 1 /\ cl[c].op # "BLOCK" => InHandOf("reply", c) \/ cl[c].in # "none"
Held == TheirRequest /\ \A c \in Clients : Somewhere(c)

\* A client goes on waiting while no descriptor changes hands.
LEMMA StillWaits ==
    ASSUME NEW c \in Clients, Waits(c), fds' = fds,
           \A x \in Threads : /\ backlog[x] \subseteq backlog'[x]
                              /\ thr'[x].clients = thr[x].clients
                              /\ thr'[x].pc = "delete" => thr[x].pc = "delete"
                              /\ thr[x].pc = "delete" => thr'[x].fd = thr[x].fd
    PROVE  Waits(c)'
BY DEF Waits, Closing

\* A step in which no connection, client or request in hand is concerned.
LEMMA QuietHeld ==
    ASSUME Held, UNCHANGED <<cl, runs, fds, backlog>>,
           \A x \in Threads :
              /\ Serving(x)' <=> Serving(x)
              /\ Serving(x) => /\ thr'[x].pc = thr[x].pc /\ thr'[x].fd = thr[x].fd
                               /\ thr'[x].op = thr[x].op
              /\ \A f \in thr[x].clients :
                    ~Closing(x, f) => f \in thr'[x].clients /\ ~Closing(x, f)'
    PROVE  Held'
<1>1. TheirRequest'
  BY DEF Held, TheirRequest
<1>2. ASSUME NEW c \in Clients PROVE Somewhere(c)'
  <2>1. Waits(c) => Waits(c)'
    BY DEF Waits
  <2>2. \A pc \in {"handle", "reply"} : InHandOf(pc, c) => InHandOf(pc, c)'
    BY DEF InHandOf, Serving
  <2> QED BY <2>1, <2>2 DEF Held, Somewhere
<1> QED BY <1>1, <1>2 DEF Held

LEMMA LoopHeld ==
    ASSUME IInv, Held, daemon' = "up", NEW t \in Threads,
           StartThread(t) \/ Select(t) \/ EndPass(t) \/ Unblock(t) \/ DeleteResource(t)
    PROVE  Held'
<1>1. \A why : Die(why) => why = "up"
  BY DEF Die
<1>2. UNCHANGED <<cl, runs, fds, backlog>>
  BY <1>1 DEF StartThread, Select, EndPass, Unblock, DeleteResource
<1>3. \A x \in Threads \ {t} : thr'[x] = thr[x]
  BY <1>1 DEF StartThread, Select, EndPass, Unblock, DeleteResource, IInv, TypeOK
<1>4. thr[t] \in ThreadRecs
  BY DEF IInv, TypeOK
<1>5. /\ ~Serving(t) /\ ~Serving(t)'
      /\ \A f \in thr[t].clients :
            ~Closing(t, f) => f \in thr'[t].clients /\ ~Closing(t, f)'
  <2>1. CASE StartThread(t) \/ EndPass(t)
    BY <1>4, <2>1 DEF StartThread, EndPass, IInv, TypeOK, ThreadRecs, Serving, Closing
  <2>2. CASE Select(t)
    <3>1. \/ thr' = [thr EXCEPT ![t].pc = "accept"]
          \/ \E d : thr' = [thr EXCEPT ![t].pc = "walk", ![t].todo = d]
      BY <1>1, <2>2 DEF Select
    <3>2. thr'[t].pc \in {"accept", "walk"} /\ thr'[t].clients = thr[t].clients
      BY <1>4, <3>1 DEF IInv, TypeOK, ThreadRecs
    <3>3. thr[t].pc = "select"
      BY <2>2 DEF Select
    <3> QED BY <3>2, <3>3 DEF Serving, Closing
  <2>3. CASE Unblock(t)
    BY <1>4, <2>3 DEF Unblock, IInv, TypeOK, ThreadRecs, Serving, Closing
  <2>4. CASE DeleteResource(t)
    <3>1. thr' = [thr EXCEPT ![t].pc = "select", ![t].todo = {},
                             ![t].clients = @ \ {thr[t].fd}, ![t].fd = 0]
      BY <1>1, <2>4 DEF DeleteResource
    <3> QED BY <1>4, <2>4, <3>1 DEF DeleteResource, IInv, TypeOK, ThreadRecs, Serving, Closing
  <2> QED BY <2>1, <2>2, <2>3, <2>4
<1>6. \A x \in Threads :
         /\ Serving(x)' <=> Serving(x)
         /\ Serving(x) => /\ thr'[x].pc = thr[x].pc /\ thr'[x].fd = thr[x].fd
                          /\ thr'[x].op = thr[x].op
         /\ \A f \in thr[x].clients :
               ~Closing(x, f) => f \in thr'[x].clients /\ ~Closing(x, f)'
  BY <1>3, <1>5 DEF Serving, Closing
<1> QED BY <1>2, <1>6, QuietHeld

\* A client connects, sends, or is gone: the threads have in hand what they had.
LEMMA ClientHeld ==
    ASSUME IInv, PInv, Held, daemon = "up", NEW c \in Clients, Client(c) \/ KillClient(c)
    PROVE  Held'
<1>1. UNCHANGED <<thr, fds, runs>> /\ \A x \in Threads : backlog[x] \subseteq backlog'[x]
  BY DEF Client, Connect, Send, Receive, KillClient, IInv, TypeOK
<1>2. \A d \in Clients \ {c} : cl'[d] = cl[d]
  BY DEF Client, Connect, Send, Receive, KillClient, IInv, TypeOK
<1>3. cl[c] \in ClientRecs
  BY DEF IInv, TypeOK
<1>4. cl'[c].in = cl[c].in /\ (cl'[c].out = "read" <=> cl[c].out = "read")
  <2>1. CASE Connect(c)
    <3>1. PICK s \in {"connected", "failed"}, op \in Requests, t \in Threads :
             cl' = [cl EXCEPT ![c] = [@ EXCEPT !.st = s, !.op = op, !.to = t]]
      BY <2>1 DEF Connect
    <3> QED BY <1>3, <3>1 DEF IInv, TypeOK, ClientRecs
  <2>2. CASE Send(c)
    BY <1>3, <2>2 DEF Send, IInv, TypeOK, ClientRecs, PInv, Unread
  <2>3. CASE Receive(c) \/ KillClient(c)
    BY <1>3, <2>3 DEF Receive, KillClient, IInv, TypeOK, ClientRecs
  <2> QED BY <2>1, <2>2, <2>3 DEF Client
<1>5. /\ cl'[c].st # "new" /\ cl'[c].op # "none"
      /\ cl[c].st = "new" \/ cl'[c].op = cl[c].op
  <2>1. CASE Connect(c)
    <3>1. PICK op \in Requests, t \in Threads, s \in {"connected", "failed"} :
             cl' = [cl EXCEPT ![c] = [@ EXCEPT !.st = s, !.op = op, !.to = t]]
      BY <2>1 DEF Connect
    <3>2. op # "none"
      BY MainAssumption DEF AllRequests
    <3> QED BY <1>3, <2>1, <3>1, <3>2 DEF Connect, IInv, TypeOK, ClientRecs
  <2>2. CASE Send(c)
    BY <1>3, <2>2 DEF Send, IInv, TypeOK, ClientRecs, Held, TheirRequest
  <2>3. CASE Receive(c) \/ KillClient(c)
    BY <1>3, <2>3 DEF Receive, KillClient, IInv, TypeOK, ClientRecs, Held, TheirRequest
  <2> QED BY <2>1, <2>2, <2>3 DEF Client
<1>6. TheirRequest'
  <2>1. ASSUME NEW t \in Threads, Serving(t)
        PROVE  cl'[fds[thr[t].fd]].op = cl[fds[thr[t].fd]].op
    <3>1. fds[thr[t].fd] \in Clients /\ thr[t].fd \in Fds
      BY <2>1, ServedIsClient
    <3>2. cl[fds[thr[t].fd]].st # "new"
      BY <3>1 DEF PInv, Linked, Clients, NoClient
    <3> QED BY <1>2, <1>5, <3>1, <3>2
  <2> QED BY <1>1, <1>2, <1>5, <2>1 DEF Held, TheirRequest, Serving
<1>7. \A d \in Clients : /\ Waits(d) => Waits(d)'
                         /\ \A pc : InHandOf(pc, d) => InHandOf(pc, d)'
  BY <1>1, StillWaits DEF InHandOf
<1>8. cl'[c].st = "connected" \/ cl'[c].out = "full" => Waits(c)'
  <2>1. CASE Connect(c)
    <3>1. cl[c].st = "new" /\ cl[c].out = "none"
      BY <2>1 DEF Connect, PInv, Unread
    <3>2. PICK t \in Threads, op \in Requests :
             \/ /\ cl' = [cl EXCEPT ![c] = [@ EXCEPT !.st = "connected", !.op = op, !.to = t]]
                /\ backlog' = [backlog EXCEPT ![t] = @ \cup {c}]
             \/ cl' = [cl EXCEPT ![c] = [@ EXCEPT !.st = "failed", !.op = op, !.to = t]]
      BY <2>1 DEF Connect
    <3>3. CASE backlog' = [backlog EXCEPT ![t] = @ \cup {c}]
      <4>1. c \in backlog'[t]
        BY <3>3 DEF IInv, TypeOK
      <4> QED BY <4>1 DEF Waits
    <3>4. CASE cl' = [cl EXCEPT ![c] = [@ EXCEPT !.st = "failed", !.op = op, !.to = t]]
      BY <1>3, <3>1, <3>4 DEF IInv, TypeOK, ClientRecs
    <3> QED BY <3>2, <3>3, <3>4
  <2>2. CASE Send(c)
    BY <1>7, <2>2 DEF Send, Held, Somewhere
  <2>3. CASE Receive(c) \/ KillClient(c)
    <3>1. cl'[c].out = cl[c].out /\ cl'[c].st # "connected"
      BY <1>3, <2>3 DEF Receive, KillClient, IInv, TypeOK, ClientRecs
    <3> QED BY <1>7, <3>1 DEF Held, Somewhere
  <2> QED BY <2>1, <2>2, <2>3 DEF Client
<1>9. Somewhere(c)'
  <2>1. cl[c].st = "new" => runs[c] = 0
    BY DEF PInv, Unread
  <2> QED BY <1>1, <1>4, <1>5, <1>7, <1>8, <2>1 DEF Held, Somewhere
<1>10. \A d \in Clients \ {c} : Somewhere(d)'
  BY <1>1, <1>2, <1>7 DEF Held, Somewhere
<1> QED BY <1>6, <1>9, <1>10 DEF Held

\* An accepted client waits behind its descriptor, which nobody else used.
LEMMA AcceptHeld ==
    ASSUME IInv, PInv, Held, daemon' = "up", NEW t \in Threads, Accept(t)
    PROVE  Held'
<1>1. Free # {}
  BY DEF Accept, Die
<1>2. PICK n \in Fds : n = LowestFree /\ fds[n] = NoClient
  BY <1>1, LowestIsFree
<1>3. PICK b \in backlog[t] :
         /\ backlog' = [backlog EXCEPT ![t] = @ \ {b}]
         /\ fds' = [fds EXCEPT ![n] = b]
         /\ thr' = [thr EXCEPT ![t].pc = "select", ![t].clients = @ \cup {n}]
         /\ UNCHANGED <<cl, runs>>
  BY <1>1, <1>2 DEF Accept
<1>4. /\ fds'[n] = b /\ \A f \in Fds \ {n} : fds'[f] = fds[f]
      /\ backlog'[t] = backlog[t] \ {b}
      /\ \A x \in Threads \ {t} : backlog'[x] = backlog[x] /\ thr'[x] = thr[x]
  BY <1>3 DEF IInv, TypeOK
<1>5. thr[t] \in ThreadRecs /\ thr[t].pc = "accept"
  BY DEF Accept, IInv, TypeOK
<1>6. thr'[t].pc = "select" /\ thr'[t].clients = thr[t].clients \cup {n}
  BY <1>3, <1>5 DEF IInv, TypeOK, ThreadRecs
<1>7. ~Serving(t) /\ ~Serving(t)'
  BY <1>5, <1>6 DEF Serving
<1>8. ASSUME NEW x \in Threads, Serving(x)
      PROVE  x # t /\ fds'[thr[x].fd] = fds[thr[x].fd]
  <2>1. thr[x].fd \in Fds /\ fds[thr[x].fd] # NoClient
    BY <1>8, ServedIsClient DEF Clients, NoClient
  <2> QED BY <1>2, <1>4, <1>7, <1>8, <2>1
<1>9. TheirRequest'
  <2>1. ASSUME NEW x \in Threads, Serving(x)'
        PROVE  thr'[x].op = cl'[fds'[thr'[x].fd]].op
    <3>1. thr'[x] = thr[x] /\ Serving(x)
      BY <1>4, <1>7, <2>1 DEF Serving
    <3>2. fds'[thr'[x].fd] = fds[thr[x].fd]
      BY <1>8, <3>1
    <3> QED BY <1>3, <3>1, <3>2 DEF Held, TheirRequest
  <2> QED BY <1>3, <2>1 DEF Held, TheirRequest
<1>10. ASSUME NEW c \in Clients, Waits(c) PROVE Waits(c)'
  <2>1. CASE c = b
    <3>1. n \in thr'[t].clients /\ fds'[n] = c /\ ~Closing(t, n)'
      BY <1>4, <1>6, <2>1 DEF Closing
    <3> QED BY <3>1 DEF Waits
  <2>2. CASE c # b /\ \E x \in Threads : c \in backlog[x]
    BY <1>4, <2>2 DEF Waits
  <2>3. ASSUME NEW x \in Threads, NEW f \in thr[x].clients, fds[f] = c, ~Closing(x, f)
        PROVE  Waits(c)'
    <3>1. f \in Fds /\ f # n
      BY <1>2, <2>3 DEF IInv, TypeOK, ThreadRecs, Clients, NoClient
    <3>2. f \in thr'[x].clients /\ ~Closing(x, f)'
      BY <1>4, <1>6, <2>3 DEF Closing
    <3> QED BY <1>4, <2>3, <3>1, <3>2 DEF Waits
  <2> QED BY <1>10, <2>1, <2>2, <2>3 DEF Waits
<1>11. \A c \in Clients, pc \in {"handle", "reply"} : InHandOf(pc, c) => InHandOf(pc, c)'
  BY <1>4, <1>8 DEF InHandOf, Serving
<1> QED BY <1>3, <1>9, <1>10, <1>11 DEF Held, Somewhere

\* The connection that is closed is that of a client that has no request waiting.
LEMMA HangUpHeld ==
    ASSUME IInv, PInv, Held, NEW t \in Threads, NEW f \in Fds, HangUp(t, f)
    PROVE  Held'
<1>1. /\ fds' = [fds EXCEPT ![f] = NoClient] /\ UNCHANGED <<backlog, cl, runs>>
      /\ thr[t].pc = "walk" /\ f \in thr[t].clients
      /\ cl[fds[f]].out # "full" /\ cl[fds[f]].st # "connected"
  BY DEF HangUp, Visits, Gone, IInv, InHand
<1>2. fds'[f] = NoClient /\ \A g \in Fds \ {f} : fds'[g] = fds[g]
  BY <1>1 DEF IInv, TypeOK
<1>3. \A x \in Threads \ {t} : thr'[x] = thr[x]
  BY DEF HangUp, IInv, TypeOK
<1>4. thr'[t].pc = "delete" /\ thr'[t].fd = f /\ thr'[t].clients = thr[t].clients
  <2>1. thr[t] \in ThreadRecs
    BY DEF IInv, TypeOK
  <2> QED BY <2>1 DEF HangUp, IInv, TypeOK, ThreadRecs
<1>5. ~Serving(t) /\ ~Serving(t)'
  BY <1>1, <1>4 DEF Serving
<1>6. ASSUME NEW x \in Threads, Serving(x)
      PROVE  x # t /\ fds'[thr[x].fd] = fds[thr[x].fd]
  <2>1. thr[x].fd \in Fds /\ fds[thr[x].fd] # NoClient /\ x \in Owners(thr[x].fd)
    BY <1>6, ServedIsClient DEF Clients, NoClient
  <2>2. t \in Owners(f)
    BY <1>1 DEF Owners, Closing
  <2>3. thr[x].fd # f
    BY <1>5, <1>6, <2>1, <2>2 DEF IInv, FdHasOneOwner
  <2> QED BY <1>2, <1>5, <1>6, <2>1, <2>3
<1>7. TheirRequest'
  BY <1>1, <1>3, <1>5, <1>6 DEF Held, TheirRequest, Serving
<1>8. ASSUME NEW c \in Clients, c # fds[f], Waits(c) PROVE Waits(c)'
  <2>1. ASSUME NEW x \in Threads, NEW g \in thr[x].clients, fds[g] = c, ~Closing(x, g)
        PROVE  Waits(c)'
    <3>1. g \in Fds /\ g # f
      BY <1>8, <2>1 DEF IInv, TypeOK, ThreadRecs
    <3>2. g \in thr'[x].clients /\ ~Closing(x, g)'
      BY <1>3, <1>4, <2>1, <3>1 DEF Closing
    <3> QED BY <1>2, <2>1, <3>1, <3>2 DEF Waits
  <2> QED BY <1>1, <1>8, <2>1 DEF Waits
<1>9. \A c \in Clients, pc \in {"handle", "reply"} : InHandOf(pc, c) => InHandOf(pc, c)'
  BY <1>3, <1>6 DEF InHandOf, Serving
<1> QED BY <1>1, <1>7, <1>8, <1>9 DEF Held, Somewhere

\* The request that is read is then in hand.
LEMMA ReceiveRequestHeld ==
    ASSUME IInv, PInv, Held, NEW t \in Threads, NEW f \in Fds, ReceiveRequest(t, f)
    PROVE  Held'
<1>1. f \in thr[t].clients /\ ~Closing(t, f) /\ thr[t].pc = "walk"
  BY DEF IInv, InHand, ReceiveRequest, Visits, Closing
<1>2. PICK c \in Clients : c = fds[f]
  BY <1>1, InHandIsOpen
<1>3. /\ cl[c].out = "full" /\ UNCHANGED <<fds, backlog, runs>>
      /\ cl' = [cl EXCEPT ![c] = [cl[c] EXCEPT !.out = "read"]]
  BY <1>2 DEF ReceiveRequest
<1>4. /\ \A d \in Clients \ {c} : cl'[d] = cl[d]
      /\ cl'[c].out = "read" /\ cl'[c].in = cl[c].in /\ cl'[c].st = cl[c].st
      /\ cl'[c].op = cl[c].op
  <2>1. cl[c] \in ClientRecs
    BY DEF IInv, TypeOK
  <2> QED BY <1>3, <2>1 DEF IInv, TypeOK, ClientRecs
<1>5. \A x \in Threads \ {t} : thr'[x] = thr[x]
  BY DEF ReceiveRequest, IInv, TypeOK
<1>6. /\ thr'[t].pc = "handle" /\ thr'[t].fd = f /\ thr'[t].op = cl[c].op
      /\ thr'[t].clients = thr[t].clients
  <2>1. thr[t] \in ThreadRecs
    BY DEF IInv, TypeOK
  <2> QED BY <1>2, <2>1 DEF ReceiveRequest, IInv, TypeOK, ThreadRecs
<1>7. \A d \in Clients : cl'[d].op = cl[d].op /\ cl'[d].st = cl[d].st
  BY <1>4
<1>8. TheirRequest'
  <2>1. ASSUME NEW x \in Threads, Serving(x)'
        PROVE  thr'[x].op = cl'[fds'[thr'[x].fd]].op
    <3>1. CASE x = t
      BY <1>2, <1>3, <1>4, <1>6, <3>1
    <3>2. CASE x # t
      <4>1. thr'[x] = thr[x] /\ Serving(x)
        BY <1>5, <2>1, <3>2 DEF Serving
      <4>2. fds[thr[x].fd] \in Clients
        BY <4>1, ServedIsClient
      <4> QED BY <1>3, <1>7, <4>1, <4>2 DEF Held, TheirRequest
    <3> QED BY <3>1, <3>2
  <2> QED BY <1>7, <2>1 DEF Held, TheirRequest
<1>9. ASSUME NEW d \in Clients PROVE Somewhere(d)'
  <2>1. Waits(d) => Waits(d)'
    <3>1. \A x \in Threads : /\ backlog[x] \subseteq backlog'[x]
                             /\ thr'[x].clients = thr[x].clients
                             /\ thr'[x].pc = "delete" => thr[x].pc = "delete"
                             /\ thr[x].pc = "delete" => thr'[x].fd = thr[x].fd
      BY <1>1, <1>3, <1>5, <1>6
    <3> QED BY <1>3, <3>1, StillWaits
  <2>2. \A pc \in {"handle", "reply"} : InHandOf(pc, d) => InHandOf(pc, d)'
    BY <1>1, <1>3, <1>5 DEF InHandOf
  <2>3. CASE d = c
    <3>1. InHandOf("handle", d)'
      BY <1>2, <1>3, <1>6, <2>3 DEF InHandOf
    <3>2. runs[d] = 0 /\ cl[d].st # "connected"
      BY <1>3, <2>3 DEF PInv, Unread
    <3> QED BY <1>3, <1>4, <2>3, <3>1, <3>2 DEF Somewhere
  <2>4. CASE d # c
    BY <1>3, <1>4, <2>1, <2>2, <2>4 DEF Held, Somewhere
  <2> QED BY <2>3, <2>4
<1> QED BY <1>8, <1>9 DEF Held

\* The request that was executed is being answered, unless it is a blocking dispatch.
LEMMA HandleHeld ==
    ASSUME IInv, PInv, Held, daemon' = "up", NEW t \in Threads, Handle(t)
    PROVE  Held'
<1>1. \A why : Die(why) => why = "up"
  BY DEF Die
<1>2. Serving(t) /\ thr[t].pc = "handle"
  BY DEF Handle, HandleInitialize, HandleStatus, HandleCreateThread, HandleLibrary, Serving
<1>3. PICK c \in Clients : c = fds[thr[t].fd]
  BY <1>2, ServedIsClient
<1>4. /\ UNCHANGED <<fds, backlog, cl>>
      /\ runs' = [runs EXCEPT ![c] = @ + 1]
      /\ \/ thr' = [thr EXCEPT ![t].pc = "reply"]
         \/ thr' = [thr EXCEPT ![t].pc = "blocked"] /\ thr[t].op = "BLOCK"
         \/ \E u \in Threads :
               /\ thr[u].pc = "none"
               /\ thr' = [thr EXCEPT ![u].pc = "starting", ![t].pc = "reply"]
  <2>1. CASE HandleInitialize(t)
    BY <1>1, <1>3, <2>1 DEF HandleInitialize, Served, Count
  <2>2. CASE HandleStatus(t)
    BY <1>1, <1>3, <2>2 DEF HandleStatus, Served, Count
  <2>3. CASE HandleCreateThread(t)
    BY <1>1, <1>3, <2>3 DEF HandleCreateThread, Count
  <2>4. CASE HandleLibrary(t)
    BY <1>3, <2>4 DEF HandleLibrary, Count
  <2> QED BY <2>1, <2>2, <2>3, <2>4 DEF Handle
<1>5. cl[c].out = "read" /\ cl[c].in = "none" /\ runs[c] = 0
  BY <1>2, <1>3 DEF PInv, InService
<1>6. runs'[c] = 1 /\ \A d \in Clients \ {c} : runs'[d] = runs[d]
  BY <1>4, <1>5 DEF IInv, TypeOK
<1>7. /\ thr'[t].fd = thr[t].fd /\ thr'[t].op = thr[t].op
      /\ thr'[t].clients = thr[t].clients
      /\ thr'[t].pc = "reply" \/ (thr'[t].pc = "blocked" /\ thr[t].op = "BLOCK")
  <2>1. thr[t] \in ThreadRecs
    BY DEF IInv, TypeOK
  <2>2. \/ thr'[t] = [thr[t] EXCEPT !.pc = "reply"]
        \/ thr'[t] = [thr[t] EXCEPT !.pc = "blocked"] /\ thr[t].op = "BLOCK"
    BY <1>2, <1>4 DEF IInv, TypeOK
  <2> QED BY <2>1, <2>2 DEF ThreadRecs
<1>8. ASSUME NEW x \in Threads \ {t}
      PROVE  /\ thr'[x].fd = thr[x].fd /\ thr'[x].op = thr[x].op
             /\ thr'[x].clients = thr[x].clients
             /\ \/ thr'[x].pc = thr[x].pc
                \/ thr[x].pc = "none" /\ thr'[x].pc = "starting"
  <2>1. thr[x] \in ThreadRecs
    BY DEF IInv, TypeOK
  <2>2. \/ thr'[x] = thr[x]
        \/ thr[x].pc = "none" /\ thr'[x] = [thr[x] EXCEPT !.pc = "starting"]
    BY <1>4 DEF IInv, TypeOK
  <2> QED BY <2>1, <2>2 DEF ThreadRecs
<1>9. TheirRequest'
  <2>1. ASSUME NEW x \in Threads, Serving(x)'
        PROVE  Serving(x) /\ thr'[x].fd = thr[x].fd /\ thr'[x].op = thr[x].op
    BY <1>2, <1>7, <1>8, <2>1 DEF Serving
  <2> QED BY <1>4, <2>1 DEF Held, TheirRequest
<1>10. ASSUME NEW d \in Clients PROVE Somewhere(d)'
  <2>1. Waits(d) => Waits(d)'
    <3>1. \A x \in Threads : /\ backlog[x] \subseteq backlog'[x]
                             /\ thr'[x].clients = thr[x].clients
                             /\ thr'[x].pc = "delete" => thr[x].pc = "delete"
                             /\ thr[x].pc = "delete" => thr'[x].fd = thr[x].fd
      BY <1>2, <1>4, <1>7, <1>8
    <3> QED BY <1>4, <3>1, StillWaits
  <2>2. CASE d = c
    <3>1. CASE thr'[t].pc = "reply"
      <4>1. InHandOf("reply", d)'
        BY <1>3, <1>4, <1>7, <2>2, <3>1 DEF InHandOf
      <4> QED BY <1>4, <1>6, <2>1, <2>2, <4>1 DEF Held, Somewhere
    <3>2. CASE thr[t].op = "BLOCK"
      <4>1. cl[d].op = "BLOCK"
        BY <1>2, <1>3, <2>2, <3>2 DEF Held, TheirRequest
      <4> QED BY <1>4, <1>6, <2>1, <2>2, <4>1 DEF Held, Somewhere
    <3> QED BY <1>7, <3>1, <3>2
  <2>3. CASE d # c
    <3>1. \A pc \in {"handle", "reply"} : InHandOf(pc, d) => InHandOf(pc, d)'
      BY <1>3, <1>4, <1>8, <2>3 DEF InHandOf
    <3> QED BY <1>4, <1>6, <2>1, <2>3, <3>1 DEF Held, Somewhere
  <2> QED BY <2>2, <2>3
<1> QED BY <1>9, <1>10 DEF Held

\* The reply that is sent is the client's answer.
LEMMA SendReplyHeld ==
    ASSUME IInv, PInv, Held, daemon' = "up", NEW t \in Threads, SendReply(t)
    PROVE  Held'
<1>1. Serving(t) /\ thr[t].pc = "reply" /\ thr[t] \in ThreadRecs
  BY DEF SendReply, Serving, IInv, TypeOK
<1>2. PICK c \in Clients : c = fds[thr[t].fd]
  BY <1>1, ServedIsClient
<1>3. /\ UNCHANGED <<fds, backlog, runs>>
      /\ cl' = [cl EXCEPT ![c] = [cl[c] EXCEPT !.in = thr[t].op]]
      /\ thr' = [thr EXCEPT ![t].pc = "walk", ![t].fd = 0, ![t].op = "none"]
  BY <1>2 DEF SendReply, Die
<1>4. /\ \A d \in Clients \ {c} : cl'[d] = cl[d]
      /\ cl'[c].out = cl[c].out /\ cl'[c].st = cl[c].st /\ cl'[c].op = cl[c].op
      /\ cl'[c].in = thr[t].op
  <2>1. cl[c] \in ClientRecs
    BY DEF IInv, TypeOK
  <2> QED BY <1>3, <2>1 DEF IInv, TypeOK, ClientRecs
<1>5. /\ thr'[t].pc = "walk" /\ thr'[t].clients = thr[t].clients
      /\ \A x \in Threads \ {t} : thr'[x] = thr[x]
  BY <1>1, <1>3 DEF IInv, TypeOK, ThreadRecs
<1>6. \A d \in Clients : cl'[d].op = cl[d].op /\ cl'[d].st = cl[d].st
  BY <1>4
<1>7. TheirRequest'
  <2>1. ASSUME NEW x \in Threads, Serving(x)'
        PROVE  thr'[x].op = cl'[fds'[thr'[x].fd]].op
    <3>1. thr'[x] = thr[x] /\ Serving(x)
      BY <1>5, <2>1 DEF Serving
    <3>2. fds[thr[x].fd] \in Clients
      BY <3>1, ServedIsClient
    <3>3. cl'[fds'[thr'[x].fd]].op = cl[fds[thr[x].fd]].op
      BY <1>3, <1>6, <3>1, <3>2
    <3>4. thr[x].op = cl[fds[thr[x].fd]].op
      BY <3>1 DEF Held, TheirRequest
    <3> QED BY <3>1, <3>3, <3>4
  <2> QED BY <1>6, <2>1 DEF Held, TheirRequest
<1>8. thr[t].op # "none"
  <2>1. thr[t].fd \in Fds /\ fds[thr[t].fd] # NoClient
    BY <1>1, ServedIsClient DEF Clients, NoClient
  <2>2. cl[c].st # "new"
    BY <1>2, <2>1 DEF PInv, Linked
  <2> QED BY <1>1, <1>2, <2>2 DEF Held, TheirRequest
<1>9. ASSUME NEW d \in Clients PROVE Somewhere(d)'
  <2>1. Waits(d) => Waits(d)'
    <3>1. \A x \in Threads : /\ backlog[x] \subseteq backlog'[x]
                             /\ thr'[x].clients = thr[x].clients
                             /\ thr'[x].pc = "delete" => thr[x].pc = "delete"
                             /\ thr[x].pc = "delete" => thr'[x].fd = thr[x].fd
      BY <1>1, <1>3, <1>5
    <3> QED BY <1>3, <3>1, StillWaits
  <2>2. CASE d = c
    <3>1. runs[d] = 1
      BY <1>1, <1>2, <2>2 DEF PInv, InService
    <3> QED BY <1>3, <1>4, <1>8, <2>1, <2>2, <3>1 DEF Held, Somewhere
  <2>3. CASE d # c
    <3>1. \A pc \in {"handle", "reply"} : InHandOf(pc, d) => InHandOf(pc, d)'
      BY <1>2, <1>3, <1>5, <2>3 DEF InHandOf
    <3> QED BY <1>3, <1>4, <2>1, <2>3, <3>1 DEF Held, Somewhere
  <2> QED BY <2>2, <2>3
<1> QED BY <1>7, <1>9 DEF Held

HeldWhileUp == daemon = "up" => Held

LEMMA HeldStep == IInv /\ PInv /\ HeldWhileUp /\ [Next]_vars => HeldWhileUp'
<1> SUFFICES ASSUME IInv, PInv, daemon = "up" => Held, [Next]_vars, daemon' = "up"
             PROVE  Held'
  BY DEF HeldWhileUp
<1>1. CASE UNCHANGED vars
  BY <1>1 DEF vars, Held, TheirRequest, Serving, Somewhere, Waits, InHandOf, Closing
<1>2. ASSUME NEW c \in Clients, Client(c) \/ KillClient(c) PROVE Held'
  <2>1. daemon = "up"
    BY <1>2 DEF Client, Connect, Send, Receive, KillClient
  <2> QED BY <1>2, <2>1, ClientHeld
<1>3. ~KillDaemon
  BY DEF KillDaemon, Die
<1>4. ASSUME daemon = "up", NEW t \in Threads, Loop(t) \/ Unblock(t) PROVE Held'
  <2>1. CASE StartThread(t) \/ Select(t) \/ EndPass(t) \/ Unblock(t) \/ DeleteResource(t)
    BY <1>4, <2>1, LoopHeld
  <2>2. ASSUME NEW f \in Fds, ReceiveRequest(t, f) \/ HangUp(t, f) PROVE Held'
    BY <1>4, <2>2, ReceiveRequestHeld, HangUpHeld
  <2>3. CASE Accept(t) \/ Handle(t) \/ SendReply(t)
    BY <1>4, <2>3, AcceptHeld, HandleHeld, SendReplyHeld
  <2> QED BY <1>4, <2>1, <2>2, <2>3 DEF Loop
<1> QED BY <1>1, <1>2, <1>3, <1>4 DEF Next

\* Each complete request waits where a thread will read it, is in one thread's hand, or
\* was executed and is answered: with descriptors that are reused while their resources
\* are deleted, passes that end early, and clients and daemons killed at any step
\* (saftest_main_lib.c:286-346, 413-418).
THEOREM NothingIsLost == Spec => []NoRequestIsLost
<1>1. Init => PInv /\ HeldWhileUp
  <2> SUFFICES ASSUME Init PROVE Held
    BY PromiseInitially DEF HeldWhileUp
  <2> QED BY DEF Init, NoThread, NewClient, Held, TheirRequest, Serving, Somewhere
<1>2. IInv /\ PInv /\ [Next]_vars => PInv'
  BY PromiseStep
<1>3. HeldWhileUp => NoRequestIsLost
  BY DEF HeldWhileUp, Held, Somewhere, NoRequestIsLost
<1> QED BY <1>1, <1>2, <1>3, HeldStep, Always, PTL DEF Spec

-----------------------------------------------------------------------------
\* What the next theorem assumes: clients as the test framework's, nobody is killed, the
\* heap is not corrupted, and a descriptor is left for every client.
AsTheFramework == Careful /\ ~MayKill /\ ~HeapFaults /\ MaxClients <= MaxFds

\* A thread's connections were made to its socket, and their clients go on.
Reached ==
    /\ \A t \in Threads : \A c \in backlog[t] : cl[c].to = t /\ cl[c].st # "failed"
    /\ \A f \in Fds : fds[f] # NoClient => cl[fds[f]].st # "failed"
    /\ \A f \in Fds : \A t \in Owners(f) : cl[fds[f]].to = t
    /\ \A t \in Threads : thr[t].pc = "accept" => backlog[t] # {}

\* The request in hand is the client's, and one that is answered does not block.
OpInHand ==
    \A t \in Threads : Serving(t) =>
        /\ thr[t].op = cl[fds[thr[t].fd]].op
        /\ thr[t].pc = "reply" => thr[t].op # "BLOCK"

\* One client initialises the daemon, and has its answer before others ask.
OneInitializes ==
    /\ \A c, d \in Asked("INITIALIZE") : c = d
    /\ \A c \in Clients : cl[c].op \notin {"none", "INITIALIZE"} =>
          \E d \in Asked("INITIALIZE") : cl[d].st = "ok"
    /\ \A c \in Clients : cl[c].op = "CREATE_THREAD" => cl[c].to = MainThread
    /\ inited <=> \E d \in Asked("INITIALIZE") : runs[d] > 0

\* A client ends when it was answered, or needs no answer.
Outcomes ==
    \A c \in Clients :
        /\ cl[c].st = "new" <=> cl[c].op = "none"
        /\ cl[c].st # "killed"
        /\ cl[c].st = "ok" => cl[c].op = "BLOCK" \/ cl[c].in # "none"
        /\ cl[c].in # "none" => runs[c] > 0

UInv == StaysUp /\ Reached /\ OpInHand /\ OneInitializes /\ Outcomes

\* An accept always finds a descriptor: each one in use has a client of its own, and
\* there is one client more, in the backlog.
LEMMA DescriptorIsLeft ==
    ASSUME AsTheFramework, IInv, PInv, NEW t \in Threads, NEW c \in backlog[t]
    PROVE  Free # {}
<1> SUFFICES ASSUME Free = {} PROVE FALSE
  OBVIOUS
<1>1. c \in Clients /\ \A f \in Fds : fds[f] \in Clients \ {c}
  BY DEF IInv, TypeOK, PInv, Linked, Free
<1>2. fds \in [Fds -> Clients \ {c}]
  BY <1>1 DEF IInv, TypeOK
<1>3. IsFiniteSet(Fds) /\ Cardinality(Fds) = MaxFds
  BY MainAssumption, FS_Interval DEF Fds
<1>4. IsFiniteSet(Clients) /\ Cardinality(Clients) = MaxClients
  BY MainAssumption, FS_Interval DEF Clients
<1>5. IsFiniteSet(Clients \ {c}) /\ Cardinality(Clients \ {c}) = MaxClients - 1
  BY <1>1, <1>4, FS_RemoveElement
<1>6. MaxClients - 1 < MaxFds
  BY MainAssumption DEF AsTheFramework
<1>7. PICK f, g \in Fds : f # g /\ fds[f] = fds[g]
  BY <1>2, <1>3, <1>5, <1>6, FS_PigeonHole
<1>8. fds[f] # NoClient
  BY <1>1 DEF Clients, NoClient
<1> QED BY <1>7, <1>8 DEF PInv, Linked

\* Nobody sends INITIALIZE again, and whoever sends another request has waited for the
\* answer to it.
LEMMA InitializedInTime ==
    ASSUME IInv, PInv, UInv, NEW t \in Threads, thr[t].pc = "handle"
    PROVE  /\ thr[t].op = "INITIALIZE" => ~inited
           /\ thr[t].op \in {"STATUS", "CREATE_THREAD"} => inited
           /\ thr[t].op = "CREATE_THREAD" => t = MainThread
<1>1. Serving(t)
  BY DEF Serving
<1>2. PICK c \in Clients : c = fds[thr[t].fd] /\ t \in Owners(thr[t].fd) /\ thr[t].fd \in Fds
  BY <1>1, ServedIsClient
<1>3. cl[c].op = thr[t].op /\ runs[c] = 0 /\ cl[c].to = t
  BY <1>1, <1>2 DEF UInv, OpInHand, Reached, PInv, InService
<1>4. ASSUME thr[t].op = "INITIALIZE" PROVE ~inited
  <2>1. c \in Asked("INITIALIZE") /\ ~(runs[c] > 0)
    BY <1>3, <1>4 DEF Asked
  <2> QED BY <2>1 DEF UInv, OneInitializes
<1>5. ASSUME thr[t].op \in {"STATUS", "CREATE_THREAD"} PROVE inited
  <2>1. PICK d \in Asked("INITIALIZE") : cl[d].st = "ok"
    BY <1>3, <1>5 DEF UInv, OneInitializes
  <2>2. runs[d] > 0
    BY <2>1 DEF UInv, Outcomes, Asked
  <2> QED BY <2>2 DEF UInv, OneInitializes
<1>6. thr[t].op = "CREATE_THREAD" => t = MainThread
  BY <1>3 DEF UInv, OneInitializes
<1> QED BY <1>4, <1>5, <1>6

\* Whom a thread is about to answer still waits.
LEMMA AnswerIsAwaited ==
    ASSUME IInv, PInv, UInv, NEW t \in Threads, thr[t].pc = "reply"
    PROVE  ~Gone(fds[thr[t].fd])
<1>1. Serving(t)
  BY DEF Serving
<1>2. PICK c \in Clients : c = fds[thr[t].fd] /\ thr[t].fd \in Fds
  BY <1>1, ServedIsClient
<1>3. cl[c].in = "none" /\ cl[c].op # "BLOCK"
  BY <1>1, <1>2 DEF PInv, InService, UInv, OpInHand
<1>4. cl[c].st # "failed"
  BY <1>2 DEF UInv, Reached, Clients, NoClient
<1> QED BY <1>2, <1>3, <1>4 DEF UInv, Outcomes, Gone

\* None of the ends of the daemon is met.
LEMMA Survives ==
    ASSUME AsTheFramework, IInv, PInv, UInv, NEW t \in Threads, Loop(t) \/ Unblock(t)
    PROVE  /\ StaysUp'
           /\ ~(\E why \in Ends \ {"up"} : Die(why))
<1>1. daemon = "up"
  BY DEF UInv, StaysUp
<1>2. CASE Select(t)
  <2>1. ~(\E f \in thr[t].clients : fds[f] = NoClient)
    <3> SUFFICES ASSUME NEW f \in thr[t].clients PROVE fds[f] # NoClient
      OBVIOUS
    <3>1. ~Closing(t, f)
      BY <1>2 DEF Select, Closing
    <3> QED BY <3>1, InHandIsOpen DEF Clients, NoClient
  <2> QED BY <1>1, <1>2, <2>1 DEF Select, Die, StaysUp
<1>3. CASE Accept(t)
  <2>1. PICK c \in backlog[t] : TRUE
    BY <1>3 DEF Accept, UInv, Reached
  <2>2. Free # {}
    BY <2>1, DescriptorIsLeft
  <2> QED BY <1>1, <1>3, <2>2 DEF Accept, Die, StaysUp
<1>4. CASE Handle(t)
  <2>1. /\ thr[t].op = "INITIALIZE" => ~inited
        /\ thr[t].op \in {"STATUS", "CREATE_THREAD"} => inited
        /\ thr[t].op = "CREATE_THREAD" => t = MainThread
    BY <1>4, InitializedInTime
       DEF Handle, HandleInitialize, HandleStatus, HandleCreateThread, HandleLibrary
  <2> QED BY <1>1, <1>4, <2>1
      DEF Handle, HandleInitialize, HandleStatus, HandleCreateThread, HandleLibrary, Die,
          StaysUp
<1>5. CASE SendReply(t)
  <2>1. ~Gone(fds[thr[t].fd])
    BY <1>5, AnswerIsAwaited DEF SendReply
  <2> QED BY <1>1, <1>5, <2>1 DEF SendReply, Die, StaysUp
<1>6. CASE DeleteResource(t)
  BY <1>1, <1>6 DEF DeleteResource, AsTheFramework, Die, StaysUp
<1>7. CASE \/ StartThread(t) \/ EndPass(t) \/ Unblock(t)
           \/ \E f \in Fds : ReceiveRequest(t, f) \/ HangUp(t, f)
  BY <1>1, <1>7 DEF StartThread, EndPass, Unblock, ReceiveRequest, HangUp, Die, StaysUp
<1> QED BY <1>2, <1>3, <1>4, <1>5, <1>6, <1>7 DEF Loop

\* What a step of thread t leaves alone: the other threads, one of which may be created,
\* and where the clients are.
OthersStay(t) ==
    \A x \in Threads \ {t} :
        /\ thr'[x].clients = thr[x].clients
        /\ thr'[x].fd = thr[x].fd /\ thr'[x].op = thr[x].op
        /\ \/ thr'[x].pc = thr[x].pc
           \/ thr[x].pc = "none" /\ thr'[x].pc = "starting"
ClientsStay ==
    \A c \in Clients :
        cl'[c].op = cl[c].op /\ cl'[c].to = cl[c].to /\ cl'[c].st = cl[c].st

\* Steps in which a client is neither answered nor executed.
LEMMA SameOutcomes ==
    ASSUME UInv, ClientsStay, UNCHANGED <<runs, inited>>,
           \A c \in Clients : cl'[c].in = cl[c].in
    PROVE  OneInitializes' /\ Outcomes'
<1>1. Asked("INITIALIZE")' = Asked("INITIALIZE") /\ Asked("INITIALIZE") \subseteq Clients
  BY DEF Asked, ClientsStay
<1>2. OneInitializes'
  BY <1>1 DEF UInv, OneInitializes, ClientsStay
<1>3. Outcomes'
  BY DEF UInv, Outcomes, ClientsStay
<1> QED BY <1>2, <1>3

\* Steps that make and end no connection.
LEMMA SameConnections ==
    ASSUME IInv, UInv, NEW t \in Threads, OthersStay(t), ClientsStay,
           UNCHANGED <<fds, backlog>>,
           thr'[t].clients \subseteq thr[t].clients,
           thr[t].pc = "delete" => thr[t].fd \notin thr'[t].clients,
           thr'[t].pc = "accept" => backlog[t] # {}
    PROVE  Reached'
<1>1. /\ \A f \in Fds : fds[f] # NoClient => fds[f] \in Clients
      /\ \A x \in Threads : backlog[x] \subseteq Clients
  BY DEF IInv, TypeOK
<1>2. \A f \in Fds : Owners(f)' \subseteq Owners(f)
  <2> SUFFICES ASSUME NEW f \in Fds, NEW x \in Owners(f)' PROVE x \in Owners(f)
    OBVIOUS
  <2>1. CASE x = t
    BY <2>1 DEF Owners, Closing
  <2>2. CASE x # t
    BY <2>2 DEF Owners, Closing, OthersStay
  <2> QED BY <2>1, <2>2
<1>3. \A f \in Fds : \A x \in Owners(f) : fds[f] \in Clients
  BY <1>1 DEF IInv, FdHasOneOwner
<1>4. \A x \in Threads : \A c \in backlog'[x] : cl'[c].to = x /\ cl'[c].st # "failed"
  BY <1>1 DEF UInv, Reached, ClientsStay
<1>5. \A f \in Fds : fds'[f] # NoClient => cl'[fds'[f]].st # "failed"
  BY <1>1 DEF UInv, Reached, ClientsStay
<1>6. \A f \in Fds : \A x \in Owners(f)' : cl'[fds'[f]].to = x
  BY <1>2, <1>3 DEF UInv, Reached, ClientsStay
<1>7. \A x \in Threads : thr'[x].pc = "accept" => backlog'[x] # {}
  BY DEF UInv, Reached, OthersStay
<1> QED BY <1>4, <1>5, <1>6, <1>7 DEF Reached

\* The requests the other threads have in hand stay what they are.
LEMMA SameRequests ==
    ASSUME IInv, UInv, NEW t \in Threads, OthersStay(t), ClientsStay,
           \A x \in Threads \ {t} : Serving(x) => fds'[thr[x].fd] = fds[thr[x].fd],
           Serving(t)' => /\ fds'[thr'[t].fd] \in Clients
                          /\ thr'[t].op = cl[fds'[thr'[t].fd]].op
                          /\ thr'[t].pc = "reply" => thr'[t].op # "BLOCK"
    PROVE  OpInHand'
<1> SUFFICES ASSUME NEW x \in Threads, Serving(x)'
             PROVE  /\ thr'[x].op = cl'[fds'[thr'[x].fd]].op
                    /\ thr'[x].pc = "reply" => thr'[x].op # "BLOCK"
  BY DEF OpInHand
<1>1. CASE x = t
  BY <1>1 DEF ClientsStay
<1>2. CASE x # t
  <2>1. Serving(x) /\ thr'[x].fd = thr[x].fd /\ thr'[x].op = thr[x].op /\ thr'[x].pc = thr[x].pc
    BY <1>2 DEF OthersStay, Serving
  <2>2. fds[thr[x].fd] \in Clients
    BY <2>1, ServedIsClient
  <2> QED BY <1>2, <2>1, <2>2 DEF UInv, OpInHand, ClientsStay
<1> QED BY <1>1, <1>2

LEMMA LoopStays ==
    ASSUME AsTheFramework, IInv, PInv, UInv, NEW t \in Threads,
           StartThread(t) \/ Select(t) \/ EndPass(t) \/ Unblock(t) \/ DeleteResource(t)
    PROVE  UInv'
<1>1. StaysUp' /\ ~(\E why \in Ends \ {"up"} : Die(why))
  BY Survives DEF Loop
<1>2. UNCHANGED <<cl, runs, fds, backlog, inited>>
  BY <1>1 DEF StartThread, Select, EndPass, Unblock, DeleteResource, Ends
<1>3. /\ \A x \in Threads \ {t} : thr'[x] = thr[x]
      /\ thr'[t].pc \in {"select", "accept", "walk"}
      /\ thr'[t].clients \subseteq thr[t].clients
      /\ thr[t].pc = "delete" => thr[t].fd \notin thr'[t].clients
      /\ thr'[t].pc = "accept" => backlog[t] # {}
  <2>1. thr[t] \in ThreadRecs
    BY DEF IInv, TypeOK
  <2>2. CASE StartThread(t) \/ EndPass(t)
    BY <2>1, <2>2 DEF StartThread, EndPass, IInv, TypeOK, ThreadRecs
  <2>3. CASE Select(t)
    <3>1. \/ thr' = [thr EXCEPT ![t].pc = "accept"] /\ backlog[t] # {}
          \/ \E d : thr' = [thr EXCEPT ![t].pc = "walk", ![t].todo = d]
      BY <1>1, <2>3 DEF Select, Ends
    <3>2. thr[t].pc = "select"
      BY <2>3 DEF Select
    <3> QED BY <2>1, <3>1, <3>2 DEF IInv, TypeOK, ThreadRecs
  <2>4. CASE Unblock(t)
    BY <2>1, <2>4 DEF Unblock, IInv, TypeOK, ThreadRecs
  <2>5. CASE DeleteResource(t)
    <3>1. thr' = [thr EXCEPT ![t].pc = "select", ![t].todo = {},
                             ![t].clients = @ \ {thr[t].fd}, ![t].fd = 0]
      BY <1>1, <2>5 DEF DeleteResource, Ends
    <3> QED BY <2>1, <3>1 DEF IInv, TypeOK, ThreadRecs
  <2> QED BY <2>2, <2>3, <2>4, <2>5
<1>4. OthersStay(t) /\ ClientsStay /\ ~Serving(t)'
  BY <1>2, <1>3 DEF OthersStay, ClientsStay, Serving
<1>5. Reached'
  BY <1>2, <1>3, <1>4, SameConnections
<1>6. OpInHand'
  BY <1>2, <1>4, SameRequests
<1>7. OneInitializes' /\ Outcomes'
  BY <1>2, <1>4, SameOutcomes
<1> QED BY <1>1, <1>5, <1>6, <1>7 DEF UInv

\* The client of an accepted connection has connected to the thread that accepts it.
LEMMA AcceptStays ==
    ASSUME AsTheFramework, IInv, PInv, UInv, NEW t \in Threads, Accept(t)
    PROVE  UInv'
<1>1. StaysUp' /\ ~(\E why \in Ends \ {"up"} : Die(why))
  BY Survives DEF Loop
<1>2. Free # {}
  BY <1>1 DEF Accept, Ends
<1>3. PICK n \in Fds : n = LowestFree /\ fds[n] = NoClient
  BY <1>2, LowestIsFree
<1>4. PICK c \in backlog[t] :
         /\ backlog' = [backlog EXCEPT ![t] = @ \ {c}]
         /\ fds' = [fds EXCEPT ![n] = c]
         /\ thr' = [thr EXCEPT ![t].pc = "select", ![t].clients = @ \cup {n}]
         /\ UNCHANGED <<daemon, inited, cl, runs>>
  BY <1>2, <1>3 DEF Accept
<1>5. /\ fds'[n] = c /\ \A f \in Fds \ {n} : fds'[f] = fds[f]
      /\ \A x \in Threads : backlog'[x] \subseteq backlog[x] /\ (x # t => backlog'[x] = backlog[x])
      /\ cl[c].to = t /\ cl[c].st # "failed" /\ c \in Clients
  BY <1>4 DEF IInv, TypeOK, UInv, Reached
<1>6. /\ \A x \in Threads \ {t} : thr'[x] = thr[x]
      /\ thr'[t].pc = "select" /\ thr'[t].clients = thr[t].clients \cup {n}
      /\ thr[t].pc = "accept"
  <2>1. thr[t] \in ThreadRecs
    BY DEF IInv, TypeOK
  <2> QED BY <1>4, <2>1 DEF IInv, TypeOK, ThreadRecs, Accept
<1>7. OthersStay(t) /\ ClientsStay /\ ~Serving(t)'
  BY <1>4, <1>6 DEF OthersStay, ClientsStay, Serving
<1>8. Reached'
  <2>1. \A x \in Threads : \A d \in backlog'[x] : cl'[d].to = x /\ cl'[d].st # "failed"
    BY <1>4, <1>5 DEF UInv, Reached
  <2>2. \A f \in Fds : fds'[f] # NoClient => cl'[fds'[f]].st # "failed"
    BY <1>4, <1>5 DEF UInv, Reached
  <2>3. ASSUME NEW f \in Fds, NEW x \in Owners(f)' PROVE cl'[fds'[f]].to = x
    <3>1. CASE f = n
      <4>1. Owners(n) = {}
        BY <1>3 DEF IInv, FdHasOneOwner
      <4>2. x = t
        BY <1>6, <2>3, <3>1, <4>1 DEF Owners, Closing
      <4> QED BY <1>4, <1>5, <3>1, <4>2
    <3>2. CASE f # n
      <4>1. x \in Owners(f)
        BY <1>6, <2>3, <3>2 DEF Owners, Closing
      <4> QED BY <1>4, <1>5, <3>2, <4>1 DEF UInv, Reached
    <3> QED BY <3>1, <3>2
  <2>4. \A x \in Threads : thr'[x].pc = "accept" => backlog'[x] # {}
    BY <1>5, <1>6 DEF UInv, Reached
  <2> QED BY <2>1, <2>2, <2>3, <2>4 DEF Reached
<1>9. OpInHand'
  <2>1. ASSUME NEW x \in Threads \ {t}, Serving(x) PROVE fds'[thr[x].fd] = fds[thr[x].fd]
    <3>1. thr[x].fd \in Fds /\ fds[thr[x].fd] # NoClient
      BY <2>1, ServedIsClient DEF Clients, NoClient
    <3> QED BY <1>3, <1>5, <3>1
  <2> QED BY <1>7, <2>1, SameRequests
<1>10. OneInitializes' /\ Outcomes'
  BY <1>4, <1>7, SameOutcomes
<1> QED BY <1>1, <1>8, <1>9, <1>10 DEF UInv

LEMMA HangUpStays ==
    ASSUME AsTheFramework, IInv, PInv, UInv, NEW t \in Threads, NEW f \in Fds, HangUp(t, f)
    PROVE  UInv'
<1>1. StaysUp'
  BY Survives DEF Loop
<1>2. /\ fds' = [fds EXCEPT ![f] = NoClient] /\ UNCHANGED <<backlog, cl, runs, inited>>
      /\ thr' = [thr EXCEPT ![t].pc = "delete", ![t].todo = @ \ {f}, ![t].fd = f]
      /\ thr[t].pc = "walk" /\ f \in thr[t].clients
  BY DEF HangUp, Visits, IInv, InHand
<1>3. /\ \A x \in Threads \ {t} : thr'[x] = thr[x]
      /\ thr'[t].pc = "delete" /\ thr'[t].clients = thr[t].clients /\ thr'[t].fd = f
  <2>1. thr[t] \in ThreadRecs
    BY DEF IInv, TypeOK
  <2> QED BY <1>2, <2>1 DEF IInv, TypeOK, ThreadRecs
<1>4. fds'[f] = NoClient /\ \A g \in Fds \ {f} : fds'[g] = fds[g]
  BY <1>2 DEF IInv, TypeOK
<1>5. OthersStay(t) /\ ClientsStay /\ ~Serving(t)'
  BY <1>2, <1>3 DEF OthersStay, ClientsStay, Serving
<1>6. t \in Owners(f)
  BY <1>2 DEF Owners, Closing
<1>7. Owners(f) = {t}
  <2>1. fds[f] # NoClient
    BY <1>6 DEF IInv, FdHasOneOwner
  <2> QED BY <1>6, <2>1 DEF IInv, FdHasOneOwner
<1>8. Reached'
  <2>1. \A x \in Threads : \A d \in backlog'[x] : cl'[d].to = x /\ cl'[d].st # "failed"
    BY <1>2 DEF UInv, Reached
  <2>2. \A g \in Fds : fds'[g] # NoClient => cl'[fds'[g]].st # "failed"
    BY <1>2, <1>4 DEF UInv, Reached
  <2>3. ASSUME NEW g \in Fds, NEW x \in Owners(g)' PROVE cl'[fds'[g]].to = x
    <3>1. x \in Owners(g) /\ (x = t => g # f)
      BY <1>2, <1>3, <2>3 DEF Owners, Closing
    <3>2. g # f
      BY <1>7, <3>1
    <3> QED BY <1>2, <1>4, <3>1, <3>2 DEF UInv, Reached
  <2>4. \A x \in Threads : thr'[x].pc = "accept" => backlog'[x] # {}
    BY <1>2, <1>3 DEF UInv, Reached
  <2> QED BY <2>1, <2>2, <2>3, <2>4 DEF Reached
<1>9. OpInHand'
  <2>1. ASSUME NEW x \in Threads \ {t}, Serving(x) PROVE fds'[thr[x].fd] = fds[thr[x].fd]
    <3>1. thr[x].fd \in Fds /\ x \in Owners(thr[x].fd)
      BY <2>1, ServedIsClient
    <3>2. thr[x].fd # f
      BY <1>7, <3>1
    <3> QED BY <1>4, <3>1, <3>2
  <2> QED BY <1>5, <2>1, SameRequests
<1>10. OneInitializes' /\ Outcomes'
  BY <1>2, <1>5, SameOutcomes
<1> QED BY <1>1, <1>8, <1>9, <1>10 DEF UInv

LEMMA ReceiveRequestStays ==
    ASSUME AsTheFramework, IInv, PInv, UInv, NEW t \in Threads, NEW f \in Fds,
           ReceiveRequest(t, f)
    PROVE  UInv'
<1>1. StaysUp'
  BY Survives DEF Loop
<1>2. f \in thr[t].clients /\ ~Closing(t, f) /\ thr[t].pc = "walk"
  BY DEF IInv, InHand, ReceiveRequest, Visits, Closing
<1>3. PICK c \in Clients : c = fds[f]
  BY <1>2, InHandIsOpen
<1>4. /\ UNCHANGED <<fds, backlog, runs, inited>>
      /\ cl' = [cl EXCEPT ![c] = [cl[c] EXCEPT !.out = "read"]]
      /\ thr' = [thr EXCEPT ![t].pc = "handle", ![t].todo = @ \ {f},
                            ![t].fd = f, ![t].op = cl[c].op]
  BY <1>3 DEF ReceiveRequest
<1>5. ClientsStay /\ \A d \in Clients : cl'[d].in = cl[d].in
  <2>1. cl[c] \in ClientRecs
    BY DEF IInv, TypeOK
  <2> QED BY <1>4, <2>1 DEF IInv, TypeOK, ClientRecs, ClientsStay
<1>6. /\ \A x \in Threads \ {t} : thr'[x] = thr[x]
      /\ thr'[t].pc = "handle" /\ thr'[t].clients = thr[t].clients
      /\ thr'[t].fd = f /\ thr'[t].op = cl[c].op
  <2>1. thr[t] \in ThreadRecs
    BY DEF IInv, TypeOK
  <2> QED BY <1>4, <2>1 DEF IInv, TypeOK, ThreadRecs
<1>7. OthersStay(t)
  BY <1>6 DEF OthersStay
<1>8. Reached'
  BY <1>2, <1>4, <1>5, <1>6, <1>7, SameConnections
<1>9. OpInHand'
  BY <1>3, <1>4, <1>5, <1>6, <1>7, SameRequests
<1>10. OneInitializes' /\ Outcomes'
  BY <1>4, <1>5, SameOutcomes
<1> QED BY <1>1, <1>8, <1>9, <1>10 DEF UInv

\* Only the client that initialises makes the daemon initialised.
LEMMA HandleStays ==
    ASSUME AsTheFramework, IInv, PInv, UInv, NEW t \in Threads, Handle(t)
    PROVE  UInv'
<1>1. StaysUp' /\ ~(\E why \in Ends \ {"up"} : Die(why))
  BY Survives DEF Loop
<1>2. Serving(t) /\ thr[t].pc = "handle"
  BY DEF Handle, HandleInitialize, HandleStatus, HandleCreateThread, HandleLibrary, Serving
<1>3. PICK c \in Clients : c = fds[thr[t].fd]
  BY <1>2, ServedIsClient
<1>4. thr[t].op = cl[c].op /\ runs[c] = 0
  BY <1>2, <1>3 DEF UInv, OpInHand, PInv, InService
<1>5. /\ UNCHANGED <<fds, backlog, cl>>
      /\ runs' = [runs EXCEPT ![c] = @ + 1]
      /\ thr[t].op = "INITIALIZE" => inited' = TRUE
      /\ thr[t].op # "INITIALIZE" => inited' = inited
      /\ \/ thr' = [thr EXCEPT ![t].pc = "reply"] /\ thr[t].op # "BLOCK"
         \/ thr' = [thr EXCEPT ![t].pc = "blocked"]
         \/ \E u \in Threads :
               /\ thr[u].pc = "none" /\ thr[t].op # "BLOCK"
               /\ thr' = [thr EXCEPT ![u].pc = "starting", ![t].pc = "reply"]
  <2>1. CASE HandleInitialize(t)
    BY <1>1, <1>3, <2>1 DEF HandleInitialize, Served, Count, Ends
  <2>2. CASE HandleStatus(t)
    BY <1>1, <1>3, <2>2 DEF HandleStatus, Served, Count, Ends
  <2>3. CASE HandleCreateThread(t)
    BY <1>1, <1>3, <2>3 DEF HandleCreateThread, Count, Ends
  <2>4. CASE HandleLibrary(t)
    <3>1. CASE thr[t].op = "LIB"
      BY <1>3, <2>4, <3>1 DEF HandleLibrary, Count
    <3>2. CASE thr[t].op = "BLOCK"
      BY <1>3, <2>4, <3>2 DEF HandleLibrary, Count
    <3> QED BY <2>4, <3>1, <3>2 DEF HandleLibrary
  <2> QED BY <2>1, <2>2, <2>3, <2>4 DEF Handle
<1>6. /\ OthersStay(t)
      /\ thr'[t].clients = thr[t].clients /\ thr'[t].fd = thr[t].fd
      /\ thr'[t].op = thr[t].op /\ thr'[t].pc \in {"reply", "blocked"}
      /\ thr'[t].pc = "reply" => thr[t].op # "BLOCK"
  <2>1. \A x \in Threads : thr[x] \in ThreadRecs
    BY DEF IInv, TypeOK
  <2>2. CASE \/ thr' = [thr EXCEPT ![t].pc = "reply"] /\ thr[t].op # "BLOCK"
             \/ thr' = [thr EXCEPT ![t].pc = "blocked"]
    BY <2>1, <2>2 DEF IInv, TypeOK, ThreadRecs, OthersStay
  <2>3. ASSUME NEW u \in Threads, thr[u].pc = "none", thr[t].op # "BLOCK",
               thr' = [thr EXCEPT ![u].pc = "starting", ![t].pc = "reply"]
        PROVE  /\ OthersStay(t)
               /\ thr'[t].clients = thr[t].clients /\ thr'[t].fd = thr[t].fd
               /\ thr'[t].op = thr[t].op /\ thr'[t].pc = "reply"
    <3>1. u # t
      BY <1>2, <2>3
    <3>2. thr'[t] = [thr[t] EXCEPT !.pc = "reply"]
      BY <2>3, <3>1 DEF IInv, TypeOK
    <3>3. thr'[u] = [thr[u] EXCEPT !.pc = "starting"]
      BY <2>3, <3>1 DEF IInv, TypeOK
    <3>4. \A x \in Threads : x \notin {t, u} => thr'[x] = thr[x]
      BY <2>3 DEF IInv, TypeOK
    <3>5. OthersStay(t)
      <4>1. /\ thr'[u].pc = "starting" /\ thr'[u].clients = thr[u].clients
            /\ thr'[u].fd = thr[u].fd /\ thr'[u].op = thr[u].op
        BY <2>1, <3>3 DEF ThreadRecs
      <4> QED BY <2>3, <3>4, <4>1 DEF OthersStay
    <3> QED BY <2>1, <3>2, <3>5 DEF ThreadRecs
  <2> QED BY <1>5, <2>2, <2>3
<1>7. ClientsStay
  BY <1>5 DEF ClientsStay
<1>8. Reached'
  BY <1>2, <1>5, <1>6, <1>7, SameConnections
<1>9. OpInHand'
  BY <1>3, <1>4, <1>5, <1>6, <1>7, SameRequests
<1>10. runs'[c] = 1 /\ \A d \in Clients \ {c} : runs'[d] = runs[d]
  BY <1>4, <1>5 DEF IInv, TypeOK
<1>11. OneInitializes'
  <2>1. Asked("INITIALIZE")' = Asked("INITIALIZE") /\ Asked("INITIALIZE") \subseteq Clients
    BY <1>5 DEF Asked
  <2>2. inited' <=> \E d \in Asked("INITIALIZE") : runs'[d] > 0
    <3>1. CASE thr[t].op = "INITIALIZE"
      <4>1. c \in Asked("INITIALIZE") /\ runs'[c] > 0
        <5>1. cl[c].op = "INITIALIZE" /\ runs'[c] = 1
          BY <1>4, <1>10, <3>1
        <5> QED BY <5>1 DEF Asked
      <4>2. inited'
        BY <1>5, <3>1
      <4> QED BY <4>1, <4>2
    <3>2. CASE thr[t].op # "INITIALIZE"
      <4>1. c \notin Asked("INITIALIZE")
        BY <1>4, <3>2 DEF Asked
      <4>2. \A d \in Asked("INITIALIZE") : runs'[d] = runs[d]
        BY <1>10, <2>1, <4>1
      <4> QED BY <1>5, <3>2, <4>2 DEF UInv, OneInitializes
    <3> QED BY <3>1, <3>2
  <2> QED BY <1>5, <2>1, <2>2 DEF UInv, OneInitializes
<1>12. Outcomes'
  BY <1>5, <1>10 DEF UInv, Outcomes
<1> QED BY <1>1, <1>8, <1>9, <1>11, <1>12 DEF UInv

LEMMA SendReplyStays ==
    ASSUME AsTheFramework, IInv, PInv, UInv, NEW t \in Threads, SendReply(t)
    PROVE  UInv'
<1>1. StaysUp' /\ ~(\E why \in Ends \ {"up"} : Die(why))
  BY Survives DEF Loop
<1>2. Serving(t) /\ thr[t].pc = "reply"
  BY DEF SendReply, Serving
<1>3. PICK c \in Clients : c = fds[thr[t].fd]
  BY <1>2, ServedIsClient
<1>4. runs[c] = 1
  BY <1>2, <1>3 DEF PInv, InService
<1>5. /\ UNCHANGED <<fds, backlog, runs, inited>>
      /\ cl' = [cl EXCEPT ![c] = [cl[c] EXCEPT !.in = thr[t].op]]
      /\ thr' = [thr EXCEPT ![t].pc = "walk", ![t].fd = 0, ![t].op = "none"]
  BY <1>1, <1>3 DEF SendReply, Ends
<1>6. ClientsStay /\ \A d \in Clients \ {c} : cl'[d] = cl[d]
  <2>1. cl[c] \in ClientRecs
    BY DEF IInv, TypeOK
  <2> QED BY <1>5, <2>1 DEF IInv, TypeOK, ClientRecs, ClientsStay
<1>7. OthersStay(t) /\ ~Serving(t)' /\ thr'[t].pc = "walk" /\ thr'[t].clients = thr[t].clients
  <2>1. thr[t] \in ThreadRecs
    BY DEF IInv, TypeOK
  <2> QED BY <1>5, <2>1 DEF IInv, TypeOK, ThreadRecs, OthersStay, Serving
<1>8. Reached'
  BY <1>2, <1>5, <1>6, <1>7, SameConnections
<1>9. OpInHand'
  BY <1>5, <1>6, <1>7, SameRequests
<1>10. OneInitializes'
  <2>1. Asked("INITIALIZE")' = Asked("INITIALIZE") /\ Asked("INITIALIZE") \subseteq Clients
    BY <1>6 DEF Asked, ClientsStay
  <2> QED BY <1>5, <1>6, <2>1 DEF UInv, OneInitializes, ClientsStay
<1>11. Outcomes'
  <2> SUFFICES ASSUME NEW d \in Clients
               PROVE  /\ cl'[d].st = "new" <=> cl'[d].op = "none"
                      /\ cl'[d].st # "killed"
                      /\ cl'[d].st = "ok" => cl'[d].op = "BLOCK" \/ cl'[d].in # "none"
                      /\ cl'[d].in # "none" => runs'[d] > 0
    BY DEF Outcomes
  <2>1. CASE d = c
    <3>1. cl[c].st # "ok"
      BY <1>2, <1>3, AnswerIsAwaited DEF Gone
    <3> QED BY <1>4, <1>5, <1>6, <2>1, <3>1 DEF UInv, Outcomes, ClientsStay
  <2>2. CASE d # c
    BY <1>5, <1>6, <2>2 DEF UInv, Outcomes
  <2> QED BY <2>1, <2>2
<1> QED BY <1>1, <1>8, <1>9, <1>10, <1>11 DEF UInv

\* A client that connects asks in its turn.
LEMMA ConnectStays ==
    ASSUME AsTheFramework, IInv, PInv, UInv, NEW c \in Clients, Connect(c)
    PROVE  UInv'
<1>1. PICK op \in Requests, t \in Threads :
         /\ MayAsk(op, t)
         /\ \/ /\ cl' = [cl EXCEPT ![c] = [@ EXCEPT !.st = "connected", !.op = op, !.to = t]]
               /\ backlog' = [backlog EXCEPT ![t] = @ \cup {c}]
            \/ /\ cl' = [cl EXCEPT ![c] = [@ EXCEPT !.st = "failed", !.op = op, !.to = t]]
               /\ backlog' = backlog
  BY DEF Connect
<1>2. cl[c].st = "new" /\ UNCHANGED <<daemon, inited, thr, fds, runs>>
  BY DEF Connect
<1>3. /\ \A d \in Clients \ {c} : cl'[d] = cl[d]
      /\ cl'[c].op = op /\ cl'[c].to = t /\ cl'[c].in = cl[c].in
      /\ cl'[c].st \in {"connected", "failed"}
      /\ cl'[c].st = "failed" => backlog' = backlog
      /\ \A x \in Threads : \/ backlog'[x] = backlog[x]
                            \/ x = t /\ backlog'[x] = backlog[x] \cup {c}
  <2>1. cl[c] \in ClientRecs
    BY DEF IInv, TypeOK
  <2>2. \A d \in Clients \ {c} : cl'[d] = cl[d]
    BY <1>1 DEF IInv, TypeOK
  <2>3. PICK s \in {"connected", "failed"} :
           /\ cl'[c] = [cl[c] EXCEPT !.st = s, !.op = op, !.to = t]
           /\ s = "failed" => backlog' = backlog
    BY <1>1 DEF IInv, TypeOK
  <2>4. /\ cl'[c].op = op /\ cl'[c].to = t /\ cl'[c].in = cl[c].in /\ cl'[c].st = s
    BY <2>1, <2>3 DEF ClientRecs
  <2>5. \A x \in Threads : \/ backlog'[x] = backlog[x]
                           \/ x = t /\ backlog'[x] = backlog[x] \cup {c}
    BY <1>1 DEF IInv, TypeOK
  <2> QED BY <2>2, <2>3, <2>4, <2>5
<1>4. /\ \A f \in Fds : fds[f] # c /\ (fds[f] # NoClient => fds[f] \in Clients)
      /\ \A x \in Threads : c \notin backlog[x] /\ backlog[x] \subseteq Clients
  BY <1>2 DEF IInv, TypeOK, PInv, Linked, Clients, NoClient
<1>5. \A f \in Fds : Owners(f)' = Owners(f) /\ (Owners(f) # {} => fds[f] \in Clients)
  <2>1. \A f \in Fds : Owners(f)' = Owners(f)
    BY <1>2 DEF Owners, Closing
  <2> QED BY <1>4, <2>1 DEF IInv, FdHasOneOwner
<1>6. Reached'
  <2>1. \A x \in Threads : \A d \in backlog'[x] : cl'[d].to = x /\ cl'[d].st # "failed"
    BY <1>3, <1>4 DEF UInv, Reached
  <2>2. \A f \in Fds : fds'[f] # NoClient => cl'[fds'[f]].st # "failed"
    BY <1>2, <1>3, <1>4 DEF UInv, Reached
  <2>3. \A f \in Fds : \A x \in Owners(f)' : cl'[fds'[f]].to = x
    BY <1>2, <1>3, <1>4, <1>5 DEF UInv, Reached
  <2>4. \A x \in Threads : thr'[x].pc = "accept" => backlog'[x] # {}
    BY <1>2, <1>3 DEF UInv, Reached
  <2> QED BY <2>1, <2>2, <2>3, <2>4 DEF Reached
<1>7. OpInHand'
  <2> SUFFICES ASSUME NEW x \in Threads, Serving(x)
               PROVE  thr[x].op = cl'[fds[thr[x].fd]].op
    BY <1>2 DEF UInv, OpInHand, Serving
  <2>1. fds[thr[x].fd] \in Clients \ {c}
    BY <1>4, ServedIsClient
  <2> QED BY <1>3, <2>1 DEF UInv, OpInHand
<1>8. op \in AllRequests /\ op # "none" /\ cl[c].op = "none"
  BY <1>2, MainAssumption DEF AllRequests, UInv, Outcomes
<1>9. OneInitializes'
  <2>1. Asked("INITIALIZE")' = IF op = "INITIALIZE" THEN Asked("INITIALIZE") \cup {c}
                               ELSE Asked("INITIALIZE")
    BY <1>3, <1>8 DEF Asked
  <2>2. c \notin Asked("INITIALIZE") /\ Asked("INITIALIZE") \subseteq Clients
    BY <1>8 DEF Asked
  <2>3. op = "INITIALIZE" => Asked("INITIALIZE") = {}
    BY <1>1 DEF MayAsk, AsTheFramework
  <2>4. op # "INITIALIZE" => \E d \in Asked("INITIALIZE") : cl[d].st = "ok"
    BY <1>1 DEF MayAsk, AsTheFramework
  <2>5. op = "CREATE_THREAD" => t = MainThread
    BY <1>1 DEF MayAsk, AsTheFramework
  <2>6. \A d, e \in Asked("INITIALIZE")' : d = e
    BY <2>1, <2>3 DEF UInv, OneInitializes
  <2>7. \A d \in Clients : cl'[d].op \notin {"none", "INITIALIZE"} =>
           \E e \in Asked("INITIALIZE")' : cl'[e].st = "ok"
    <3> SUFFICES ASSUME NEW d \in Clients, cl'[d].op \notin {"none", "INITIALIZE"}
                 PROVE  \E e \in Asked("INITIALIZE") : cl[e].st = "ok"
      BY <1>3, <2>1, <2>2
    <3>1. CASE d = c
      BY <1>3, <2>4, <3>1
    <3>2. CASE d # c
      BY <1>3, <3>2 DEF UInv, OneInitializes
    <3> QED BY <3>1, <3>2
  <2>8. \A d \in Clients : cl'[d].op = "CREATE_THREAD" => cl'[d].to = MainThread
    BY <1>3, <2>5 DEF UInv, OneInitializes
  <2>9. inited' <=> \E d \in Asked("INITIALIZE")' : runs'[d] > 0
    <3>1. ~(runs[c] > 0)
      BY <1>2 DEF PInv, Unread
    <3>2. (\E d \in Asked("INITIALIZE")' : runs'[d] > 0)
             <=> \E d \in Asked("INITIALIZE") : runs[d] > 0
      BY <1>2, <2>1, <3>1
    <3> QED BY <1>2, <3>2 DEF UInv, OneInitializes
  <2> QED BY <2>6, <2>7, <2>8, <2>9 DEF OneInitializes
<1>10. Outcomes'
  <2>1. cl[c].in = "none"
    BY <1>2 DEF PInv, Unread
  <2> QED BY <1>2, <1>3, <1>8, <2>1 DEF UInv, Outcomes
<1>11. StaysUp'
  BY <1>2 DEF UInv, StaysUp
<1> QED BY <1>6, <1>7, <1>9, <1>10, <1>11 DEF UInv

\* A client that sends or receives goes on, or ends with its answer.
LEMMA ClientStays ==
    ASSUME AsTheFramework, IInv, PInv, UInv, NEW c \in Clients, Send(c) \/ Receive(c)
    PROVE  UInv'
<1>1. daemon = "up" /\ UNCHANGED <<daemon, inited, thr, fds, backlog, runs>>
  BY DEF UInv, StaysUp, Send, Receive
<1>2. /\ \A d \in Clients \ {c} : cl'[d] = cl[d]
      /\ cl'[c].op = cl[c].op /\ cl'[c].to = cl[c].to /\ cl'[c].in = cl[c].in
      /\ cl[c].st \in {"connected", "waiting"}
      /\ cl'[c].st \in {"connected", "waiting", "ok"}
      /\ cl'[c].st = "ok" => cl[c].op = "BLOCK" \/ cl[c].in # "none"
  <2>1. cl[c] \in ClientRecs
    BY DEF IInv, TypeOK
  <2>2. CASE Receive(c)
    <3>1. cl' = [cl EXCEPT ![c] = [cl[c] EXCEPT !.st = "ok"]] /\ cl[c].in # "none"
      BY <1>1, <2>2 DEF Receive
    <3> QED BY <2>1, <2>2, <3>1 DEF Receive, IInv, TypeOK, ClientRecs
  <2>3. CASE Send(c)
    <3>1. CASE cl[c].out = "none"
      <4>1. cl' = [cl EXCEPT ![c] = [cl[c] EXCEPT !.out = "part"]]
        BY <1>1, <2>3, <3>1 DEF Send
      <4> QED BY <2>1, <2>3, <4>1 DEF Send, IInv, TypeOK, ClientRecs
    <3>2. CASE cl[c].out # "none" /\ cl[c].op = "BLOCK"
      <4>1. cl' = [cl EXCEPT ![c] = [cl[c] EXCEPT !.out = "full", !.st = "ok"]]
        BY <1>1, <2>3, <3>2 DEF Send
      <4> QED BY <2>1, <2>3, <3>2, <4>1 DEF Send, IInv, TypeOK, ClientRecs
    <3>3. CASE cl[c].out # "none" /\ cl[c].op # "BLOCK"
      <4>1. cl' = [cl EXCEPT ![c] = [cl[c] EXCEPT !.out = "full", !.st = "waiting"]]
        BY <1>1, <2>3, <3>3 DEF Send
      <4> QED BY <2>1, <2>3, <4>1 DEF Send, IInv, TypeOK, ClientRecs
    <3> QED BY <3>1, <3>2, <3>3
  <2> QED BY <2>2, <2>3
<1>3. /\ \A f \in Fds : fds[f] # NoClient => fds[f] \in Clients
      /\ \A x \in Threads : backlog[x] \subseteq Clients
  BY DEF IInv, TypeOK
<1>4. \A d \in Clients :
         /\ cl'[d].op = cl[d].op /\ cl'[d].to = cl[d].to /\ cl'[d].in = cl[d].in
         /\ cl[d].st = "ok" => cl'[d].st = "ok"
         /\ cl'[d].st = "failed" => cl[d].st = "failed"
  BY <1>2
<1>5. Reached'
  <2>1. \A f \in Fds : Owners(f)' = Owners(f) /\ (Owners(f) # {} => fds[f] \in Clients)
    BY <1>1, <1>3 DEF Owners, Closing, IInv, FdHasOneOwner
  <2>2. \A x \in Threads : \A d \in backlog'[x] : cl'[d].to = x /\ cl'[d].st # "failed"
    BY <1>1, <1>3, <1>4 DEF UInv, Reached
  <2>3. \A f \in Fds : fds'[f] # NoClient => cl'[fds'[f]].st # "failed"
    BY <1>1, <1>3, <1>4 DEF UInv, Reached
  <2>4. \A f \in Fds : \A x \in Owners(f)' : cl'[fds'[f]].to = x
    BY <1>1, <1>4, <2>1 DEF UInv, Reached
  <2>5. \A x \in Threads : thr'[x].pc = "accept" => backlog'[x] # {}
    BY <1>1 DEF UInv, Reached
  <2> QED BY <2>2, <2>3, <2>4, <2>5 DEF Reached
<1>6. OpInHand'
  <2> SUFFICES ASSUME NEW x \in Threads, Serving(x)
               PROVE  thr[x].op = cl'[fds[thr[x].fd]].op
    BY <1>1 DEF UInv, OpInHand, Serving
  <2>1. fds[thr[x].fd] \in Clients
    BY ServedIsClient
  <2> QED BY <1>4, <2>1 DEF UInv, OpInHand
<1>7. OneInitializes'
  <2>1. Asked("INITIALIZE")' = Asked("INITIALIZE") /\ Asked("INITIALIZE") \subseteq Clients
    <3>1. \A d \in Clients : cl'[d].op = cl[d].op
      BY <1>4
    <3> QED BY <3>1 DEF Asked
  <2>2. \A d \in Clients :
           /\ cl'[d].op = cl[d].op /\ cl'[d].to = cl[d].to
           /\ cl[d].st = "ok" => cl'[d].st = "ok"
    BY <1>4
  <2> QED BY <1>1, <2>1, <2>2 DEF UInv, OneInitializes
<1>8. Outcomes'
  <2> SUFFICES ASSUME NEW d \in Clients
               PROVE  /\ cl'[d].st = "new" <=> cl'[d].op = "none"
                      /\ cl'[d].st # "killed"
                      /\ cl'[d].st = "ok" => cl'[d].op = "BLOCK" \/ cl'[d].in # "none"
                      /\ cl'[d].in # "none" => runs'[d] > 0
    BY DEF Outcomes
  <2>1. CASE d = c
    BY <1>1, <1>2, <2>1 DEF UInv, Outcomes
  <2>2. CASE d # c
    BY <1>1, <1>2, <2>2 DEF UInv, Outcomes
  <2> QED BY <2>1, <2>2
<1>9. StaysUp'
  BY <1>1 DEF StaysUp
<1> QED BY <1>5, <1>6, <1>7, <1>8, <1>9 DEF UInv

LEMMA StaysInitially == Init => UInv
<1> SUFFICES ASSUME Init PROVE UInv
  OBVIOUS
<1>1. /\ \A t \in Threads : thr[t].pc \in {"none", "starting"} /\ backlog[t] = {}
      /\ \A t \in Threads : thr[t].clients = {}
      /\ \A f \in Fds : fds[f] = NoClient
      /\ \A c \in Clients : /\ cl[c].st = "new" /\ cl[c].op = "none" /\ cl[c].in = "none"
                            /\ runs[c] = 0
  BY DEF Init, NoThread, NewClient
<1>2. Asked("INITIALIZE") = {} /\ inited = FALSE /\ daemon = "up"
  BY <1>1 DEF Asked, Init
<1>3. Reached /\ OpInHand
  BY <1>1 DEF Reached, OpInHand, Serving, Owners
<1>4. OneInitializes /\ Outcomes
  BY <1>1, <1>2 DEF OneInitializes, Outcomes
<1> QED BY <1>2, <1>3, <1>4 DEF UInv, StaysUp

LEMMA StaysStep ==
    ASSUME AsTheFramework, IInv, PInv, UInv, [Next]_vars
    PROVE  UInv'
<1>1. ASSUME NEW c \in Clients, Client(c) \/ KillClient(c) PROVE UInv'
  BY <1>1, ConnectStays, ClientStays DEF Client, KillClient, AsTheFramework
<1>2. CASE KillDaemon
  BY <1>2 DEF KillDaemon, AsTheFramework
<1>3. ASSUME NEW t \in Threads, Loop(t) \/ Unblock(t) PROVE UInv'
  <2>1. CASE StartThread(t) \/ Select(t) \/ EndPass(t) \/ Unblock(t) \/ DeleteResource(t)
    BY <2>1, LoopStays
  <2>2. ASSUME NEW f \in Fds, ReceiveRequest(t, f) \/ HangUp(t, f) PROVE UInv'
    BY <2>2, ReceiveRequestStays, HangUpStays
  <2>3. CASE Accept(t) \/ Handle(t) \/ SendReply(t)
    BY <2>3, AcceptStays, HandleStays, SendReplyStays
  <2> QED BY <1>3, <2>1, <2>2, <2>3 DEF Loop
<1>4. CASE UNCHANGED vars
  <2> USE <1>4 DEF vars
  <2>1. Reached' /\ OpInHand'
    BY DEF UInv, Reached, OpInHand, Serving, Owners, Closing
  <2>2. OneInitializes' /\ Outcomes' /\ StaysUp'
    BY DEF UInv, OneInitializes, Outcomes, Asked, StaysUp
  <2> QED BY <2>1, <2>2 DEF UInv
<1> QED BY <1>1, <1>2, <1>3, <1>4 DEF Next

\* A daemon used as the framework uses it is not ended by an assertion, a failed system
\* call or a reply nobody waits for, for any number of threads, clients and descriptors
\* as long as there are as many of these as clients (saftest_main_lib.c:257-262,
\* 449-450, 479-480, 494-498; saftest_comm.c:565-583, 683-687).
THEOREM DaemonStaysUp == ASSUME AsTheFramework PROVE Spec => []StaysUp
<1>1. Init => PInv /\ UInv
  BY PromiseInitially, StaysInitially
<1>2. IInv /\ PInv /\ UInv /\ [Next]_vars => PInv' /\ UInv'
  BY PromiseStep, StaysStep
<1>3. UInv => StaysUp
  BY DEF UInv
<1> QED BY <1>1, <1>2, <1>3, Always, PTL DEF Spec
=============================================================================
