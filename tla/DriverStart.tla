----------------------------- MODULE DriverStart ------------------------------
(***************************************************************************)
(* How a saf_driver daemon is started, found and stopped: the framework's  *)
(* side (src/trunk/lib/SAFTestDriver.rb), the daemon's way to its          *)
(* listening socket (src/trunk/driver/driver_utils.c, saftest_uds_listen   *)
(* in src/trunk/driver/saftest_comm.c), and what they share: one socket    *)
(* file and one pid file per driver instance, which outlive a daemon that  *)
(* is killed.                                                              *)
(*                                                                         *)
(* Start k is one call of startNewDriver(); it spawns daemon k at most.    *)
(***************************************************************************)
EXTENDS Naturals, FiniteSets

CONSTANTS
    MaxStarts,   \* bound: calls of startNewDriver() in a run
    MaxId,       \* instances a start may choose from
    Together     \* bound: as many starts may begin at one time; a later one waits until
                 \* those before it have ended and no daemon is on its way

ASSUME StartAssumption == MaxStarts \in Nat /\ MaxId \in Nat \ {0} /\ Together \in Nat

Starts == 1 .. MaxStarts
Ids    == 1 .. MaxId

\* startNewDriver(): look for an instance whose daemon does not answer, remove
\* its pid file, spawn a daemon, sleep, read the pid file, and initialise it: the
\* request is sent (asked), handled, and answered.
StartPcs == {"new", "probe", "remove", "spawn", "sleep", "init",
             "asked", "handled", "answered", "running", "failed", "stopped"}
\* The daemon: truncate and write the pid file, bind the socket, and listen.
\* It ends by itself (exited), by an assertion (aborted), or is killed.
DaemonPcs == {"none", "truncate", "writepid", "bind", "check", "unlink", "rebind",
              "chmod", "listen", "cleanup", "up", "exited", "aborted", "killed"}

VARIABLES
    st,       \* [Starts -> StartPcs]
    id,       \* [Starts -> the instance it considers]
    pid,      \* [Starts -> the daemon it takes for its own; 0: none]
    peer,     \* [Starts -> the daemon that it asked to initialise; 0: none]
    dm,       \* [Starts -> DaemonPcs]
    inited,   \* [Starts -> daemon_initialized]
    sock,     \* [Ids -> the daemon that bound the socket file; 0: no file]
    pidFile,  \* [Ids -> the daemon in the pid file; 0: missing or empty]
    raced     \* a start began before the one before had ended, or sleep(1) was
              \* too short for a daemon (history; the engine starts drivers one
              \* after the other, and counts on the second)

vars == <<st, id, pid, peer, dm, inited, sock, pidFile, raced>>

\* Type invariant: the places of starts and daemons, and whose the files are
\* (driver_utils.c:47-100, saftest_comm.c:489-558).
TypeOK ==
    /\ st \in [Starts -> StartPcs]
    /\ id \in [Starts -> Ids]
    /\ pid \in [Starts -> Starts \cup {0}]
    /\ peer \in [Starts -> Starts \cup {0}]
    /\ dm \in [Starts -> DaemonPcs]
    /\ inited \in [Starts -> BOOLEAN]
    /\ sock \in [Ids -> Starts \cup {0}]
    /\ pidFile \in [Ids -> Starts \cup {0}]
    /\ raced \in BOOLEAN

Init ==
    /\ st = [k \in Starts |-> "new"]
    /\ id = [k \in Starts |-> 1]
    /\ pid = [k \in Starts |-> 0]
    /\ peer = [k \in Starts |-> 0]
    /\ dm = [k \in Starts |-> "none"]
    /\ inited = [k \in Starts |-> FALSE]
    /\ sock = [i \in Ids |-> 0]
    /\ pidFile = [i \in Ids |-> 0]
    /\ raced = FALSE

Alive(k) == dm[k] \notin {"none", "exited", "aborted", "killed"}

\* connect() reaches the daemon that bound the file, if it listens.
Answers(i) == sock[i] # 0 /\ dm[sock[i]] = "up"

-----------------------------------------------------------------------------
\* The framework.

\* The daemon's only thread is between a handler and its reply.
Busy(d) == \E k \in Starts : st[k] = "handled" /\ peer[k] = d

Step(k, from, to) == st[k] = from /\ st' = [st EXCEPT ![k] = to]

UnderWay == {k \in Starts : st[k] \notin {"new", "running", "failed", "stopped"}}

\* Starts are numbered as they begin.
Begin(k) ==
    /\ Step(k, "new", "probe")
    /\ \A j \in Starts : j < k => st[j] # "new"
    /\ k > Together => UnderWay = {} /\ \A d \in Starts : Alive(d) => dm[d] = "up"
    /\ raced' = (raced \/ UnderWay # {})
    /\ UNCHANGED <<id, pid, peer, dm, inited, sock, pidFile>>

\* The first instance is taken without asking.
Probe_TakesFirst(k) ==
    /\ Step(k, "probe", "remove")
    /\ UNCHANGED <<id, pid, peer, dm, inited, sock, pidFile, raced>>

\* A busy last instance does not end the search.
Probe_PastTheLast(k) ==
    LET d == sock[id[k]]
    IN IF Answers(id[k]) /\ inited[d]
       THEN /\ st[k] = "probe" /\ ~Busy(d)
            /\ id' = [id EXCEPT ![k] = @ + 1]
            /\ UNCHANGED <<st, pid, peer, dm, inited, sock, pidFile, raced>>
       ELSE /\ Step(k, "probe", "remove")
            /\ UNCHANGED <<id, pid, peer, dm, inited, sock, pidFile, raced>>

\* DRIVER_STATUS, from the connection to the reply: the daemon takes it up between two
\* other requests, and the question leaves nothing behind.  A daemon that nobody has
\* initialised yet aborts, and its instance counts as unused.
Probe(k) ==
    LET d == sock[id[k]]
    IN /\ Answers(id[k]) => ~Busy(d)
       /\ IF Answers(id[k]) /\ inited[d]
          THEN /\ Step(k, "probe", IF id[k] = MaxId THEN "failed" ELSE "probe")
               /\ id' = [id EXCEPT ![k] = IF @ = MaxId THEN @ ELSE @ + 1]
               /\ UNCHANGED dm
          ELSE /\ Step(k, "probe", "remove")
               /\ dm' = IF Answers(id[k]) THEN [dm EXCEPT ![d] = "aborted"] ELSE dm
               /\ UNCHANGED id
    /\ UNCHANGED <<pid, peer, inited, sock, pidFile, raced>>

\* What a daemon writes to a file it opened before this goes nowhere.
RemovePidFile(k) ==
    /\ Step(k, "remove", "spawn")
    /\ pidFile' = [pidFile EXCEPT ![id[k]] = 0]
    /\ dm' = [d \in Starts |-> IF dm[d] = "writepid" /\ id[d] = id[k] THEN "bind"
                               ELSE dm[d]]
    /\ UNCHANGED <<id, pid, peer, inited, sock, raced>>

Spawn(k) ==
    /\ Step(k, "spawn", "sleep")
    /\ dm' = [dm EXCEPT ![k] = "truncate"]
    /\ UNCHANGED <<id, pid, peer, inited, sock, pidFile, raced>>

LoadPid(k) ==
    /\ st[k] = "sleep"
    /\ raced' = (raced \/ (Alive(k) /\ dm[k] # "up"))
    /\ IF pidFile[id[k]] = 0
       THEN st' = [st EXCEPT ![k] = "failed"] /\ UNCHANGED pid
       ELSE /\ st' = [st EXCEPT ![k] = "init"]
            /\ pid' = [pid EXCEPT ![k] = pidFile[id[k]]]
    /\ UNCHANGED <<id, peer, dm, inited, sock, pidFile>>

\* init(): the DRIVER_INITIALIZE request goes to whichever daemon answers.
Connect(k) ==
    /\ IF Answers(id[k])
       THEN Step(k, "init", "asked") /\ peer' = [peer EXCEPT ![k] = sock[id[k]]]
       ELSE Step(k, "init", "failed") /\ UNCHANGED peer
    /\ UNCHANGED <<id, pid, dm, inited, sock, pidFile, raced>>

\* A reply that was sent is read even if the daemon has died since; without one,
\* the end of the connection is an error.
ReceiveReply(k) ==
    /\ \/ Step(k, "answered", "running")
       \/ /\ \E pc \in {"asked", "handled"} : Step(k, pc, "failed")
          /\ dm[peer[k]] # "up"
    /\ UNCHANGED <<id, pid, peer, dm, inited, sock, pidFile, raced>>

\* kill -9 of the pid that was loaded.
Stop(k) ==
    /\ Step(k, "running", "stopped")
    /\ dm' = IF Alive(pid[k]) THEN [dm EXCEPT ![pid[k]] = "killed"] ELSE dm
    /\ UNCHANGED <<id, pid, peer, inited, sock, pidFile, raced>>

\* stopAllDrivers, or whoever else kills a daemon.
Kill(k) ==
    /\ Alive(k)
    /\ dm' = [dm EXCEPT ![k] = "killed"]
    /\ UNCHANGED <<st, id, pid, peer, inited, sock, pidFile, raced>>

Framework(k) ==
    \/ Probe(k) \/ RemovePidFile(k) \/ Spawn(k) \/ LoadPid(k)
    \/ Connect(k) \/ ReceiveReply(k)

-----------------------------------------------------------------------------
\* The daemon.

Go(k, from, to) == dm[k] = from /\ dm' = [dm EXCEPT ![k] = to]

WritePidFile(k) ==
    /\ \/ /\ Go(k, "truncate", "writepid")
          /\ pidFile' = [pidFile EXCEPT ![id[k]] = 0]
       \/ /\ Go(k, "writepid", "bind")
          /\ pidFile' = [pidFile EXCEPT ![id[k]] = k]
    /\ UNCHANGED <<st, id, pid, peer, inited, sock, raced>>

\* Any socket file in the way ends the daemon.
Bind_GivesUp(k) ==
    /\ dm[k] = "bind"
    /\ IF sock[id[k]] = 0
       THEN /\ dm' = [dm EXCEPT ![k] = "chmod"]
            /\ sock' = [sock EXCEPT ![id[k]] = k]
       ELSE dm' = [dm EXCEPT ![k] = "exited"] /\ UNCHANGED sock
    /\ UNCHANGED <<st, id, pid, peer, inited, pidFile, raced>>

\* bind() fails while the file exists, whoever left it.
Bind(k) ==
    /\ dm[k] = "bind"
    /\ IF sock[id[k]] = 0
       THEN /\ dm' = [dm EXCEPT ![k] = "chmod"]
            /\ sock' = [sock EXCEPT ![id[k]] = k]
       ELSE dm' = [dm EXCEPT ![k] = "check"] /\ UNCHANGED sock
    /\ UNCHANGED <<st, id, pid, peer, inited, pidFile, raced>>

CheckLive(k) ==
    /\ IF Answers(id[k]) THEN Go(k, "check", "exited") ELSE Go(k, "check", "unlink")
    /\ UNCHANGED <<st, id, pid, peer, inited, sock, pidFile, raced>>

Unlink(k) ==
    /\ Go(k, "unlink", "rebind")
    /\ sock' = [sock EXCEPT ![id[k]] = 0]
    /\ UNCHANGED <<st, id, pid, peer, inited, pidFile, raced>>

Rebind(k) ==
    /\ dm[k] = "rebind"
    /\ IF sock[id[k]] = 0
       THEN /\ dm' = [dm EXCEPT ![k] = "chmod"]
            /\ sock' = [sock EXCEPT ![id[k]] = k]
       ELSE dm' = [dm EXCEPT ![k] = "exited"] /\ UNCHANGED sock
    /\ UNCHANGED <<st, id, pid, peer, inited, pidFile, raced>>

\* chmod() names the file, not the socket: it fails if the file is gone, and the
\* daemon removes whatever is there by then, and ends.
Chmod(k) ==
    /\ IF sock[id[k]] # 0 THEN Go(k, "chmod", "listen") ELSE Go(k, "chmod", "cleanup")
    /\ UNCHANGED <<st, id, pid, peer, inited, sock, pidFile, raced>>

Cleanup(k) ==
    /\ Go(k, "cleanup", "exited")
    /\ sock' = [sock EXCEPT ![id[k]] = 0]
    /\ UNCHANGED <<st, id, pid, peer, inited, pidFile, raced>>

Listen(k) ==
    /\ Go(k, "listen", "up")
    /\ UNCHANGED <<st, id, pid, peer, inited, sock, pidFile, raced>>

\* A second DRIVER_INITIALIZE is taken like the first.
HandleInitialize_Again(d) ==
    /\ dm[d] = "up" /\ ~Busy(d)
    /\ \E k \in Starts : peer[k] = d /\ Step(k, "asked", "handled")
    /\ inited' = [inited EXCEPT ![d] = TRUE]
    /\ UNCHANGED <<id, pid, peer, dm, sock, pidFile, raced>>

\* The handler notes that the daemon is initialised; a second request aborts it.
HandleInitialize(d) ==
    /\ dm[d] = "up" /\ ~Busy(d)
    /\ \E k \in Starts : /\ peer[k] = d
                         /\ IF inited[d]
                            THEN st[k] = "asked" /\ UNCHANGED st
                            ELSE Step(k, "asked", "handled")
    /\ inited' = [inited EXCEPT ![d] = TRUE]
    /\ dm' = IF inited[d] THEN [dm EXCEPT ![d] = "aborted"] ELSE dm
    /\ UNCHANGED <<id, pid, peer, sock, pidFile, raced>>

\* The reply leaves the daemon after the handler has returned.
SendReply(d) ==
    /\ dm[d] = "up"
    /\ \E k \in Starts : peer[k] = d /\ Step(k, "handled", "answered")
    /\ UNCHANGED <<id, pid, peer, dm, inited, sock, pidFile, raced>>

Daemon(k) ==
    \/ WritePidFile(k) \/ Bind(k) \/ CheckLive(k) \/ Unlink(k) \/ Rebind(k)
    \/ Chmod(k) \/ Cleanup(k) \/ Listen(k) \/ HandleInitialize(k) \/ SendReply(k)

Next == \E k \in Starts : Begin(k) \/ Framework(k) \/ Stop(k) \/ Kill(k) \/ Daemon(k)

Spec == Init /\ [][Next]_vars

\* A start that began goes on, and so does a daemon that was spawned.
Fairness == \A k \in Starts : WF_vars(Framework(k)) /\ WF_vars(Daemon(k))
FairSpec == Spec /\ Fairness

-----------------------------------------------------------------------------
(***************************************************************************)
(* Properties.                                                             *)
(***************************************************************************)

\* A start whose DRIVER_INITIALIZE was answered with success has initialised a daemon,
\* and one that no other start was told it had; and a daemon that was initialised and
\* lives is that of a start that knows, or whose answer is on its way.  However starts
\* overlap and whoever is killed: a daemon killed after it noted the request and before
\* it replied leaves a start that failed (saftest_main_lib.c:302-304, 449-470).
Successful == {k \in Starts : st[k] \in {"running", "stopped"}}
OnTheWay   == {k \in Starts : st[k] \in {"handled", "answered"}}

SuccessHasItsDaemon ==
    /\ \A k \in Successful : /\ inited[peer[k]]
                            /\ \A j \in Successful \ {k} : peer[j] # peer[k]
    /\ \A d \in Starts :
           inited[d] /\ Alive(d) => \E k \in Successful \cup OnTheWay : peer[k] = d

\* A driver whose start succeeded and that is still up is the one its socket file
\* leads to, the one its pid file names, and the one stop() would kill, unless
\* starts have raced (SAFTestDriver.rb:265-326).
StartedIsInControl ==
    ~raced => \A k \in Starts : st[k] = "running" /\ dm[k] = "up" =>
                  sock[id[k]] = k /\ pidFile[id[k]] = k /\ pid[k] = k

\* No probe and no initialisation of one start aborts the daemon of another, unless
\* starts have raced (saftest_main_lib.c:449-450, 479-480).
NoDaemonAborts == raced \/ \A k \in Starts : dm[k] # "aborted"

\* Files left by a daemon that was killed, at whichever step, do not keep an
\* instance from being started again (saftest_comm.c:522-540); the first start
\* finds no files.
StaleFilesAreNoObstacle ==
    \A k \in Starts \ {1} :
        st[k] = "remove" ~> \/ raced \/ dm[k] = "killed"
                            \/ st[k] \in {"running", "stopped"}

\* "Check if there is a live process bound to it.  If not, remove the file and try
\* to bind again." (saftest_comm.c:524-527)
LiveFileIsKept ==
    [][\A i \in Ids : sock[i] # 0 /\ sock'[i] # sock[i] => ~Alive(sock[i])]_vars
=============================================================================
