------------------------------ MODULE DriverMain ------------------------------
(***************************************************************************)
(* One saf_driver daemon and its clients: the select loop of every thread, *)
(* the connections, and the requests the daemon itself answers             *)
(* (src/trunk/driver/saftest_main_lib.c, src/trunk/driver/saftest_comm.c,  *)
(* the client side of src/trunk/driver/driver_main.c).                     *)
(*                                                                         *)
(* A client is a process that connects, sends one request, waits for the   *)
(* reply and exits.  Of the requests to other libraries it matters here    *)
(* only whether they are answered: "LIB" is, "BLOCK" (a blocking dispatch, *)
(* see LckDriver) never is.                                                *)
(*                                                                         *)
(* File descriptors are reused: an accepted connection gets the lowest     *)
(* free one, whichever thread freed it.                                    *)
(***************************************************************************)
EXTENDS Naturals, FiniteSets

CONSTANTS
    Threads, MainThread,  \* threads the daemon may have; the one main() runs on
    MaxClients,           \* bound: clients of the daemon, numbered as they connect
    MaxFds,               \* descriptors the daemon may have for connections
    Requests,             \* the requests the clients of this instance send
    HeapFaults,           \* TRUE: a read of freed memory may end the daemon
    MayKill,              \* TRUE: clients and the daemon may be killed
    Careful               \* TRUE: clients behave as the test framework does

AllRequests == {"INITIALIZE", "STATUS", "CREATE_THREAD", "LIB", "BLOCK"}

ASSUME MainAssumption ==
    /\ MainThread \in Threads
    /\ MaxClients \in Nat /\ MaxFds \in Nat
    /\ Requests \subseteq AllRequests
    /\ HeapFaults \in BOOLEAN /\ MayKill \in BOOLEAN /\ Careful \in BOOLEAN

Clients  == 1 .. MaxClients
NoClient == 0
Fds      == 1 .. MaxFds

\* A thread that was created is first "starting"; then it selects, accepts,
\* walks its client list, runs a handler, sends a reply, deletes a client
\* resource, or is blocked in a library.
ThreadPcs == {"none", "starting", "select", "accept", "walk", "handle", "reply",
              "delete", "blocked"}
ThreadRecs == [pc      : ThreadPcs,
               clients : SUBSET Fds,       \* client_list
               todo    : SUBSET Fds,       \* readable ones not visited in this pass
               fd      : Fds \cup {0},     \* the client in hand
               op      : AllRequests \cup {"none"}]  \* its request
NoThread == [pc |-> "none", clients |-> {}, todo |-> {}, fd |-> 0, op |-> "none"]

\* A client's socket closes when its process ends, whatever the reason.
ClientRecs == [st  : {"new", "connected", "waiting", "ok", "failed", "killed"},
               op  : AllRequests \cup {"none"},
               to  : Threads,
               out : {"none", "part", "full", "read"},   \* its request
               in  : AllRequests \cup {"none"}]          \* the reply, by request
NewClient == [st |-> "new", op |-> "none", to |-> MainThread, out |-> "none",
              in |-> "none"]

VARIABLES
    daemon,    \* "up", or what ended it
    inited,    \* daemon_initialized
    thr,       \* [Threads -> ThreadRecs]
    fds,       \* [Fds -> the client at the other end, NoClient if free]
    backlog,   \* [Threads -> clients connected to its socket, not yet accepted]
    cl,        \* [Clients -> ClientRecs]
    runs       \* [Clients -> how often its request reached a handler] (history)

vars == <<daemon, inited, thr, fds, backlog, cl, runs>>

Ends == {"up", "killed", "accept failed", "bad fd", "heap fault",
         "initialized twice", "not initialized", "not main thread", "reply failed"}

\* Type invariant: the places of threads and clients, and the descriptors and lists
\* they use (saftest_main_lib.c:16-43).
TypeOK ==
    /\ daemon \in Ends
    /\ inited \in BOOLEAN
    /\ thr \in [Threads -> ThreadRecs]
    /\ fds \in [Fds -> Clients \cup {NoClient}]
    /\ backlog \in [Threads -> SUBSET Clients]
    /\ cl \in [Clients -> ClientRecs]
    /\ runs \in [Clients -> Nat]

Init ==
    /\ daemon = "up"
    /\ inited = FALSE
    /\ thr = [t \in Threads |-> IF t = MainThread
                                THEN [NoThread EXCEPT !.pc = "starting"] ELSE NoThread]
    /\ fds = [f \in Fds |-> NoClient]
    /\ backlog = [t \in Threads |-> {}]
    /\ cl = [c \in Clients |-> NewClient]
    /\ runs = [c \in Clients |-> 0]

Gone(c) == cl[c].st \in {"ok", "failed", "killed"}
Listening(t) == thr[t].pc \notin {"none", "starting"}

\* The process ends, and with it its threads and connections.
Die(why) ==
    /\ daemon' = why
    /\ thr' = [t \in Threads |-> NoThread]
    /\ fds' = [f \in Fds |-> NoClient]
    /\ backlog' = [t \in Threads |-> {}]
    /\ UNCHANGED <<inited, cl, runs>>

-----------------------------------------------------------------------------
\* How the framework uses a daemon: whoever started it initialises it before
\* anybody else asks for anything, creates its threads from the main thread, and
\* leaves a dispatch thread to the one blocking request.

Asked(op) == {c \in Clients : cl[c].op = op}
MayAsk(op, t) ==
    /\ op = "CREATE_THREAD" =>    \* bound: the instance has enough threads
           Cardinality(Asked(op)) + 1 < Cardinality(Threads)
    /\ Careful =>
        /\ op = "INITIALIZE" => Asked(op) = {}
        /\ op # "INITIALIZE" => \E c \in Asked("INITIALIZE") : cl[c].st = "ok"
        /\ op \in {"INITIALIZE", "STATUS", "CREATE_THREAD"} => t = MainThread
        /\ op = "BLOCK" => t # MainThread /\ \A c \in Clients : cl[c].to # t
        /\ \A c \in Asked("BLOCK") : cl[c].to # t
        /\ t # MainThread => \A c \in Asked("CREATE_THREAD") : cl[c].st = "ok"

-----------------------------------------------------------------------------
\* Clients.

Connect(c) ==
    /\ cl[c].st = "new"
    /\ \A d \in Clients : d < c => cl[d].st # "new"
    /\ \E op \in Requests, t \in Threads :
        /\ MayAsk(op, t)
        /\ IF daemon = "up" /\ Listening(t)
           THEN /\ cl' = [cl EXCEPT ![c] = [@ EXCEPT !.st = "connected",
                                                     !.op = op, !.to = t]]
                /\ backlog' = [backlog EXCEPT ![t] = @ \cup {c}]
           ELSE /\ cl' = [cl EXCEPT ![c] = [@ EXCEPT !.st = "failed",
                                                     !.op = op, !.to = t]]
                /\ UNCHANGED backlog
    /\ UNCHANGED <<daemon, inited, thr, fds, runs>>

\* A request takes more than one segment.  Nobody waits for the reply to a
\* blocking dispatch: its client reports success as soon as the request is sent.
\* A client that sends to a daemon that died is ended by SIGPIPE.
Send(c) ==
    /\ cl[c].st = "connected"
    /\ IF daemon # "up" THEN cl' = [cl EXCEPT ![c].st = "failed"]
       ELSE IF cl[c].out = "none" THEN cl' = [cl EXCEPT ![c].out = "part"]
       ELSE cl' = [cl EXCEPT ![c].out = "full",
                             ![c].st = IF cl[c].op = "BLOCK" THEN "ok" ELSE "waiting"]
    /\ UNCHANGED <<daemon, inited, thr, fds, backlog, runs>>

Receive(c) ==
    /\ cl[c].st = "waiting"
    /\ \/ cl[c].in # "none" /\ cl' = [cl EXCEPT ![c].st = "ok"]
       \/ cl[c].in = "none" /\ daemon # "up" /\ cl' = [cl EXCEPT ![c].st = "failed"]
    /\ UNCHANGED <<daemon, inited, thr, fds, backlog, runs>>

KillClient(c) ==
    /\ MayKill
    /\ cl[c].st \in {"connected", "waiting"}
    /\ cl' = [cl EXCEPT ![c].st = "killed"]
    /\ UNCHANGED <<daemon, inited, thr, fds, backlog, runs>>

Client(c) == Connect(c) \/ Send(c) \/ Receive(c)

-----------------------------------------------------------------------------
\* The select loop.

StartThread(t) ==
    /\ thr[t].pc = "starting"
    /\ thr' = [thr EXCEPT ![t].pc = "select"]
    /\ UNCHANGED <<daemon, inited, fds, backlog, cl, runs>>

\* A descriptor is readable if a request, or a part of one, has arrived or the
\* client's end is closed.
Readable(f) == cl[fds[f]].out \in {"part", "full"} \/ Gone(fds[f])

\* The clients' descriptors are not in the set select() waits for: the highest
\* descriptor it is passed is the listening socket's.
Select_ListenerOnly(t) ==
    /\ thr[t].pc = "select"
    /\ backlog[t] # {}
    /\ thr' = [thr EXCEPT ![t].pc = "accept"]
    /\ UNCHANGED <<daemon, inited, fds, backlog, cl, runs>>

\* While anybody waits to be accepted the clients already connected are not
\* looked at: the pass accepts one connection and ends.
Select(t) ==
    /\ thr[t].pc = "select"
    /\ IF \E f \in thr[t].clients : fds[f] = NoClient THEN Die("bad fd")
       ELSE LET ready == {f \in thr[t].clients : Readable(f)}
            IN /\ backlog[t] # {} \/ ready # {}
               /\ thr' = IF backlog[t] # {} THEN [thr EXCEPT ![t].pc = "accept"]
                         ELSE [thr EXCEPT ![t].pc = "walk", ![t].todo = ready]
               /\ UNCHANGED <<daemon, inited, fds, backlog, cl, runs>>

Free == {f \in Fds : fds[f] = NoClient}
LowestFree == CHOOSE f \in Free : \A g \in Free : f <= g

\* The error of accept() is only logged, and the resource keeps what it returned.
Accept_GoesOn(t) ==
    /\ thr[t].pc = "accept"
    /\ \E c \in backlog[t], f \in IF Free = {} THEN {0} ELSE {LowestFree} :
        /\ backlog' = [backlog EXCEPT ![t] = @ \ {c}]
        /\ fds' = IF f = 0 THEN fds ELSE [fds EXCEPT ![f] = c]
        /\ thr' = [thr EXCEPT ![t].pc = "select", ![t].clients = @ \cup {f}]
    /\ UNCHANGED <<daemon, inited, cl, runs>>

Accept(t) ==
    /\ thr[t].pc = "accept"
    /\ IF Free = {} THEN Die("accept failed")
       ELSE \E c \in backlog[t] :
              /\ backlog' = [backlog EXCEPT ![t] = @ \ {c}]
              /\ fds' = [fds EXCEPT ![LowestFree] = c]
              /\ thr' = [thr EXCEPT ![t].pc = "select",
                                    ![t].clients = @ \cup {LowestFree}]
              /\ UNCHANGED <<daemon, inited, cl, runs>>

EndPass(t) ==
    /\ thr[t].pc = "walk"
    /\ thr[t].todo = {}
    /\ thr' = [thr EXCEPT ![t].pc = "select"]
    /\ UNCHANGED <<daemon, inited, fds, backlog, cl, runs>>

\* The thread comes to the next client that is ready.
Visits(t, f) == thr[t].pc = "walk" /\ f \in thr[t].todo

\* Half a request makes the thread wait for the rest, or for the client's end.
ReceiveRequest(t, f) ==
    LET c == fds[f]
    IN /\ Visits(t, f)
       /\ cl[c].out = "full"
       /\ cl' = [cl EXCEPT ![c].out = "read"]
       /\ thr' = [thr EXCEPT ![t].pc = "handle", ![t].todo = @ \ {f},
                             ![t].fd = f, ![t].op = cl[c].op]
       /\ UNCHANGED <<daemon, inited, fds, backlog, runs>>

\* The end of the connection is noticed before the request.
HangUp_BeforeRead(t, f) ==
    LET c == fds[f]
    IN /\ Visits(t, f)
       /\ Gone(c)
       /\ fds' = [fds EXCEPT ![f] = NoClient]
       /\ thr' = [thr EXCEPT ![t].pc = "delete", ![t].todo = @ \ {f}, ![t].fd = f]
       /\ UNCHANGED <<daemon, inited, backlog, cl, runs>>

\* No request is left and none can come: the descriptor is closed, and from then
\* on any thread may be given its number.
HangUp(t, f) ==
    LET c == fds[f]
    IN /\ Visits(t, f)
       /\ Gone(c) /\ cl[c].out # "full"
       /\ fds' = [fds EXCEPT ![f] = NoClient]
       /\ thr' = [thr EXCEPT ![t].pc = "delete", ![t].todo = @ \ {f}, ![t].fd = f]
       /\ UNCHANGED <<daemon, inited, backlog, cl, runs>>

\* The resource stays on the list.
DeleteResource_Forgets(t) ==
    /\ thr[t].pc = "delete"
    /\ thr' = [thr EXCEPT ![t].pc = "select", ![t].todo = {}, ![t].fd = 0]
    /\ UNCHANGED <<daemon, inited, fds, backlog, cl, runs>>

\* The walk over the list reads "next" of the element that was just freed, and
\* the search for the resource reads the lists of all threads without a lock.
\* If the memory is as it was left the pass ends (its "next" was cleared), and
\* select() reports the clients not visited again.
DeleteResource(t) ==
    /\ thr[t].pc = "delete"
    /\ \/ /\ thr' = [thr EXCEPT ![t].pc = "select", ![t].todo = {},
                                ![t].clients = @ \ {thr[t].fd}, ![t].fd = 0]
          /\ UNCHANGED <<daemon, inited, fds, backlog, cl, runs>>
       \/ HeapFaults /\ Die("heap fault")

-----------------------------------------------------------------------------
\* The handlers.

Served(t) == thr' = [thr EXCEPT ![t].pc = "reply"]
Count(c) == runs' = [runs EXCEPT ![c] = @ + 1]

\* The daemon does not note that it is initialised.
HandleInitialize_Forgets(t) ==
    /\ thr[t].pc = "handle" /\ thr[t].op = "INITIALIZE"
    /\ Count(fds[thr[t].fd])
    /\ Served(t)
    /\ UNCHANGED <<daemon, inited, fds, backlog, cl>>

HandleInitialize(t) ==
    /\ thr[t].pc = "handle" /\ thr[t].op = "INITIALIZE"
    /\ IF inited THEN Die("initialized twice")
       ELSE /\ inited' = TRUE
            /\ Count(fds[thr[t].fd])
            /\ Served(t)
            /\ UNCHANGED <<daemon, fds, backlog, cl>>

HandleStatus(t) ==
    /\ thr[t].pc = "handle" /\ thr[t].op = "STATUS"
    /\ IF ~inited THEN Die("not initialized")
       ELSE /\ Count(fds[thr[t].fd])
            /\ Served(t)
            /\ UNCHANGED <<daemon, inited, fds, backlog, cl>>

\* The new thread listens some time after the reply.
HandleCreateThread(t) ==
    /\ thr[t].pc = "handle" /\ thr[t].op = "CREATE_THREAD"
    /\ IF ~inited THEN Die("not initialized")
       ELSE IF t # MainThread THEN Die("not main thread")
       ELSE /\ \E u \in Threads :
                 /\ thr[u].pc = "none"
                 /\ thr' = [thr EXCEPT ![u].pc = "starting", ![t].pc = "reply"]
            /\ Count(fds[thr[t].fd])
            /\ UNCHANGED <<daemon, inited, fds, backlog, cl>>

HandleLibrary(t) ==
    /\ thr[t].pc = "handle" /\ thr[t].op \in {"LIB", "BLOCK"}
    /\ Count(fds[thr[t].fd])
    /\ thr' = [thr EXCEPT ![t].pc = IF thr[t].op = "LIB" THEN "reply" ELSE "blocked"]
    /\ UNCHANGED <<daemon, inited, fds, backlog, cl>>

\* A blocking dispatch ends when its handle is finalized.  It has no reply.
Unblock(t) ==
    /\ thr[t].pc = "blocked"
    /\ thr' = [thr EXCEPT ![t].pc = "walk", ![t].fd = 0, ![t].op = "none"]
    /\ UNCHANGED <<daemon, inited, fds, backlog, cl, runs>>

\* The reply goes to another of the thread's clients.
SendReply_ToAnother(t) ==
    /\ thr[t].pc = "reply"
    /\ \E f \in thr[t].clients :
        /\ ~Gone(fds[f])
        /\ cl' = [cl EXCEPT ![fds[f]].in = thr[t].op]
    /\ thr' = [thr EXCEPT ![t].pc = "walk", ![t].fd = 0, ![t].op = "none"]
    /\ UNCHANGED <<daemon, inited, fds, backlog, runs>>

SendReply(t) ==
    LET c == fds[thr[t].fd]
    IN /\ thr[t].pc = "reply"
       /\ IF Gone(c) THEN Die("reply failed")
          ELSE /\ cl' = [cl EXCEPT ![c].in = thr[t].op]
               /\ thr' = [thr EXCEPT ![t].pc = "walk", ![t].fd = 0, ![t].op = "none"]
               /\ UNCHANGED <<daemon, inited, fds, backlog, runs>>

KillDaemon == MayKill /\ Die("killed")

Handle(t) ==
    HandleInitialize(t) \/ HandleStatus(t) \/ HandleCreateThread(t) \/ HandleLibrary(t)

Loop(t) ==
    \/ StartThread(t) \/ Select(t) \/ Accept(t) \/ EndPass(t)
    \/ \E f \in Fds : ReceiveRequest(t, f) \/ HangUp(t, f)
    \/ DeleteResource(t) \/ Handle(t) \/ SendReply(t)

Next ==
    \/ \E c \in Clients : Client(c) \/ KillClient(c)
    \/ /\ daemon = "up"
       /\ KillDaemon \/ \E t \in Threads : Loop(t) \/ Unblock(t)

Spec == Init /\ [][Next]_vars

\* A thread that can take a step does, and while some connected client can go on, one
\* of them does.  A blocking dispatch may never end.
Fairness ==
    /\ \A t \in Threads : WF_vars(daemon = "up" /\ Loop(t))
    /\ WF_vars(\E c \in Clients : Send(c) \/ Receive(c))

-----------------------------------------------------------------------------
(***************************************************************************)
(* Properties.                                                             *)
(***************************************************************************)

\* A descriptor belongs to one client resource of one thread, and is open, except
\* between the close of a connection and the deletion of its resource, when
\* another thread may already have been given its number
\* (saftest_main_lib.c:332-333).  Otherwise a thread would wait on a closed
\* descriptor, and end the daemon, or read another thread's requests.
Closing(t, f) == thr[t].pc = "delete" /\ thr[t].fd = f
Owners(f) == {t \in Threads : f \in thr[t].clients /\ ~Closing(t, f)}
FdHasOneOwner ==
    \A f \in Fds : /\ fds[f] # NoClient => \E t \in Threads : Owners(f) = {t}
                   /\ fds[f] = NoClient => Owners(f) = {}

\* No complete request goes astray in a living daemon, however descriptors are reused,
\* passes over a client list cut short (saftest_main_lib.c:324-334), and clients killed
\* or gone before they are served, as that of a blocking dispatch always is: it waits
\* on the socket or on a client list a thread selects on; or one thread has it in
\* hand; or it was executed, and then its answer is being sent or was.
InHandOf(pc, c) == \E t \in Threads : thr[t].pc = pc /\ fds[thr[t].fd] = c
Waits(c) == \E t \in Threads : \/ c \in backlog[t]
                               \/ \E f \in thr[t].clients : fds[f] = c /\ ~Closing(t, f)
NoRequestIsLost ==
    daemon = "up" => \A c \in Clients :
        /\ cl[c].out = "full" => Waits(c)
        /\ cl[c].out = "read" => InHandOf("handle", c) \/ runs[c] = 1
        /\ runs[c] = 1 /\ cl[c].op # "BLOCK" => InHandOf("reply", c) \/ cl[c].in # "none"

\* Whatever descriptors are reused and whoever is killed, each complete request
\* is executed at most once and answered to the client that sent it
\* (saftest_main_lib.c:286-346).
Promise == INSTANCE RequestReply WITH
    asked    <- {c \in Clients : cl[c].out \in {"full", "read"}},
    executed <- runs,
    answered <- {c \in Clients : cl[c].in # "none"}
KeepsPromise == Promise!Spec

\* A daemon used as the framework uses it, by clients that are not killed, stays
\* up (saftest_main_lib.c:257-262, 449-450, 479-480, 494-498;
\* saftest_comm.c:565-583, 683-687).
StaysUp == daemon = "up"

\* Every client that got a connection to such a daemon gets its reply, although
\* accepting has priority over serving, and a pass ends early when a client has
\* left (saftest_main_lib.c:413-418, 332-334).
ConnectedAreServed ==
    \A c \in Clients : cl[c].st \in {"connected", "waiting"} ~> cl[c].st = "ok"
=============================================================================
