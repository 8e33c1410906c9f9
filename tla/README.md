# A verification of SAFTest

SAFTest (`src/trunk`) tests implementations of the SA Forum AIS libraries. The
test cases and the engine are Ruby scripts; what calls the AIS library under test
is a C program, `saf_driver`, which runs on every node of the cluster:

    test case --> SAFTestDriver.rb --> saf_driver --op X        (client process)
                                          |  Unix socket, one request, one reply
                                          v
                                       saf_driver --daemon      (one per instance)
                                          |  main_lib, lck_driver, clm_driver
                                          v
                                       AIS library (saLck..., saClm...)

A daemon lives through many test cases and holds their library handles, so what
goes wrong in it is seen far from where it happened. It is what this project
models first: the LCK and CLM libraries of the daemon, the daemon's loop and its
clients with the lists it keeps them on, and how a daemon is started and killed.
What decides whether anybody can believe a result is the other half: the engine
that runs the test cases one after the other, the commands a case leaves running
in the background, and the report made of the log.

## 1. Inventory

Paths are relative to `src/trunk`.

| component | state | operations | hard part |
|---|---|---|---|
| **LCK driver** `cases/lck/driver/lck_driver.c` | sessions (one library handle, one resource, one lock, one invocation of each kind), on a global list or a thread's own; the next session id | 15 requests that change or read a session; four library callbacks; its part of `add_fds`/`check_fds` | callbacks are matched to sessions by lock id or invocation; sessions change between `select()` and the check; blocking calls stop a thread's loop; a global session is shared by threads |
| **Lock service** (external, `include/standard`) | handles, open resources, locks, queued callbacks | `saLck*` | asynchronous answers, unlocks that fail late |
| **Daemon core** `driver/saftest_main_lib.c`, `driver/driver_main.c` | threads with their lists of client connections, `daemon_initialized` | select, accept, receive and dispatch a request, hang-up; INITIALIZE, STATUS, CREATE_THREAD | descriptors are reused across threads, lists are searched without a lock, elements are freed while the list is walked, any assertion ends the daemon for everybody |
| **Communication** `driver/saftest_comm.c` | messages of at most 50 pairs; sockets | create, flatten, unflatten; listen, accept, connect, send, receive | partial requests, clients that have died, stale socket files |
| **Start and stop** `lib/SAFTestDriver.rb`, `driver/driver_utils.c`, `cases/driver/*` | socket file and pid file of each instance, `@pid` | find a free instance, spawn, load the pid, initialise, kill | the files outlive a daemon; probe and spawn are separate; `sleep(1)` stands for "is up" |
| **CLM driver** `cases/clm/driver/clm_driver.c` | sessions with a handle, the last callback data and counts | node get (sync, async), track, dispatch, finalize | which session a tracking callback belongs to; an error of a stale dispatch exits |
| **Test engine** `lib/SAFTestEngine.rb`, `bin/saftest` | phase, list of cases, request to halt; pid file, status file, log | start, stop, run a case, write and read the status | a request to halt against the running phase; the status read while it is written; a killed engine leaves its case, its files and an unfinished log |
| **Actions** `lib/SAFTestAction.rb`, `bin/saftest_action` | action and command state, in memory and in files | add, start, run, store, load, reload by pollers | several processes make and load directories; a poller reads between two files' stores; a command may never end |
| **Bundles and reports** `lib/SAFTestBundle.rb`, `lib/SAFTestReport.rb` | lists of cases; counters | merge, count | the order around and within the specifications; a log of several runs; exit codes that mean nothing |
| **Generic list** `driver/saftest_list.c` | doubly linked elements | enqueue, dequeue, insert, remove, find, each, delete if | mutation during a walk |
| **Configuration, utilities** `lib/*.rb` | XML documents | parse, write | (none) |
| **Implementation adapter** `lib/SAFImplementation.rb`, `implementation/*` | none | shell commands on nodes | the vendor's cluster, outside the repository |
| **Logging, getopt** | none | formatting | (none) |
| **Test scripts** `cases/*/lifecycle`, `cases/*/operation` | none | sequences of driver operations | what they wait for, and what they do not |

What makes each correct:

* LCK driver: a callback ends at the session it was meant for; a lock the library
  holds is known to its session; a poll sees the answer of the present request and
  not of an earlier one; handles are not lost; the thread-local lists, which have
  no lock, are really local; the first thread never blocks in the library's
  dispatch loop; callbacks arrive; the assertions are never reached by the tests.
* Daemon core and communication: each request is executed at most once and its
  reply goes to its sender; a complete request does not go astray; a descriptor
  has one owner; every connected client is served in the end.
* Start and stop: a start that is told it initialised a daemon did, and no other start
  is told so of the same one; it can stop it; no start disturbs another's daemon; stale files are no obstacle.
* CLM driver: every callback is counted once, on the session that asked for it; the
  assertions and the exit of `check_fds` are never reached by the tests.
* Engine, actions, report: cases run in the order their bundle was put together
  for; a stop ends a run soon, and a run ends although commands hang; status and
  report say what happened, whoever was killed; a case passes only on what its own
  commands returned.
* List: every operation does on the chain of elements what it says of a sequence,
  and touches no other list.

Each hazard of this code, with its line and the properties aimed at it, is listed
in `PROJECT.json`.

## 2. Modules

| module | models |
|---|---|
| `LckService` | the AIS lock library, from how `lck_driver.c` calls it (external) |
| `LckDriver` | `lck_driver.c` on one daemon with several threads; extends `LckService` |
| `MCLckDriver` | instance of `LckDriver` for TLC (symmetry of invocations) |
| `LckDriverProofs` | theorems about `LckDriver` with any clients: types, lists, dispatchers |
| `LckCallbackProofs` | theorems about `LckDriver` with clients as the test cases: callbacks, locks, polls, handles; extends `LckDriverProofs` |
| `ClmService` | the AIS cluster membership library, from how `clm_driver.c` calls it (external) |
| `ClmDriver` | `clm_driver.c` on one daemon of either kind; extends `ClmService` |
| `MCClmDriver` | instance of `ClmDriver` for TLC |
| `ClmDriverProofs` | theorems about `ClmDriver` |
| `RequestReply` | abstract specification: what a daemon promises its clients |
| `DriverMain` | `saftest_main_lib.c`, the sockets, and the client processes; implements `RequestReply` |
| `DriverList` | `saftest_list.c`: the operations as functions of the memory |
| `ClientLists` | the client lists of `DriverMain`'s threads in that memory; extends `DriverMain` and `DriverList` |
| `DriverMainProofs` | theorems about `DriverMain`; that it implements `RequestReply`, and stays up when used as the framework uses it |
| `DriverListProofs` | theorems about the list operations, the walks among them |
| `ClientListsProofs` | that the lists in memory hold the clients, and what walks do to them; extends `ClientLists`, `DriverListProofs` and `DriverMainProofs` |
| `DriverStart` | `startNewDriver()`, `daemonize()`, `saftest_uds_listen()`, stop and kill |
| `DriverStartProofs` | theorems about `DriverStart` |
| `Actions` | `SAFTestAction.rb`, `bin/saftest_action`, and the part of a test case that uses them |
| `TestReport` | what `SAFTestReport.rb` makes of a log |
| `TestEngine` | `SAFTestEngine.rb`, `SAFTestBundle.rb` and the commands of `bin/saftest`; extends `Actions` and `TestReport` |
| `MCTestEngine` | instance of `TestEngine` for TLC: the bundles and cases |
| `TestEngineProofs` | theorems about `TestEngine`, `Actions` and `TestReport` |

An operator named `F_Fault` is `F` with a fault seeded in it; it stands beside `F`
to say what a property has to notice. No specification uses one.

### LckDriver and LckService

`sess` are the fields of `lck_session_t` that the handlers relate to one another
(the `home` field is the list the session is on), `nextId` is
`next_lck_session_id`, `th[t]` is where thread t is in its pass
`select -> serve -> check` and in which library call, and `aborted` is the
assertion or abort that ended the process. One action is one handler of
`msg_map_table_LCK`. It is one step, cut only where the code calls a function
that blocks or lets another thread run: `LockSync`/`LockSyncReturn`,
`LockAsync`/`LockAsyncReturn`, `UnlockSync`/`UnlockSyncReturn`, and `Dispatch`,
which enters `saLckDispatch` and runs one callback after another
(`TakeOne`, `RunCallback`) until `DispatchReturn`.

`EndServe` and `Check` are the LCK part of `check_fds`: they use the mask
`select()` returned *before* the requests of this pass were handled, which is how
the code does it.

The service gives lock ids and handles in order and never again, has one resource
(the driver never relates two), and every lock is exclusive. Holders on other nodes
are not represented: they show as a queued request that stays queued, a request
that is refused, or a waiter signal at any time. A selection object is named by its
handle: that the kernel may reuse its number after `saLckFinalize` is left out, and
so are orphaned locks, purge, deadlock detection, priorities and timeouts (a timeout
is an error). `MayRefuse` lets every call return an error instead;
`UnlockFails` lets an asynchronous unlock be accepted and fail afterwards.

`Careful = TRUE` restricts clients to what the test cases do, and each restriction
is stated where it is used: they wait for the result of one operation on a
session before the next (`Quiet`), take fresh invocation numbers (the test's
pid), initialise a session once, leave blocking dispatch to global sessions and to
a thread other than the first. With `Careful = FALSE` any request comes at any time.

### ClmDriver and ClmService

The CLM library has the shape of the LCK library: `sess`, `nextId`, `th` and the
actions correspond in the same way, and `ended` is the assertion, abort or `exit(1)`
that ended the process. No CLM call but `saClmDispatch` blocks, so a handler is
one step, and so is a callback. `daemon` is the set of threads the process has; it
is chosen at the start, since the framework has daemons with one thread and
daemons with a dispatch thread, and sets them up differently
(`CLMTestDriver.rb:69-100`).

The service keeps for each handle how many callbacks of each sort it is *owed*: a
request that was accepted is owed an answer, and when the library has it ready is
its own affair, so `Select` sees any part of the handles that are owed something,
and a dispatch may return before all of it is delivered. A dispatch with
`SA_DISPATCH_ALL` may therefore stop after one callback, which makes
`SA_DISPATCH_ONE` a case of it.

`Careful` clients do what the test cases do: the long-lived sessions are set up
first; a test takes an invocation no other session has (it draws one of 999, so
that this is an assumption), or repeats one it used on the same session; and
tracking that calls back is asked for on the first long-lived session only,
as the comment at `clm_driver.c:440-447` demands. Not all tests obey it:
`clusterTrackCurrentNullNotificationBuffer` tracks on a short-lived session, and its
callback, if it comes before the session is finalized, is counted on another.
`dispatchBlocking` asks for the global session and cannot get it, because
`getAllLongLivedSessions` (`CLMTestDriver.rb:244-245`) does not pass `:GLOBAL` on.

### DriverMain and RequestReply

`thr[t].pc` is the thread's place in `select_loop()`: blocked in `select`, in
`handle_accept`, walking its clients, in a handler, in `send_reply`, or deleting a
client resource. `fds` is the process's descriptor table: `accept` takes the
lowest free number, as the kernel does, whichever thread freed it.
A hang-up is two steps, close and delete, since another thread may run in between. A
client is a process: it connects, sends in two parts (`MSG_WAITALL` keeps the
thread in `recv` in between), waits, and exits; it may be killed anywhere
(`MayKill`). `HeapFaults` adds the other outcome of reading the freed list element
and the unlocked lists: the daemon crashes. `Die` ends the process for every
assertion, abort and failed system call, each with its own reason.

`RequestReply` says: a request is executed at most once, only after all of it
was sent, and answered at most once, after it was executed. `DriverMain`
implements it under the mapping stated at `Promise`.

### DriverStart

`st[k]` is the place of the k-th call of `startNewDriver()`, `dm[k]` the place of
the daemon it spawned on its way from `write_pid_file` through each system call of
`saftest_uds_listen` to its loop. `sock` and `pidFile` are the files, named by the
daemon that made them; they stay when it is killed. `peer[k]` is the daemon the
DRIVER_INITIALIZE of start k went to, which is whichever daemon answers on the socket
file. The request takes four steps, since a daemon may be killed between any two of
them: `Connect` (asked), `HandleInitialize`, where the daemon notes that it is
initialised or aborts because it was (handled), `SendReply` (answered) and
`ReceiveReply`. Killed after the second and before the third, a daemon is initialised
and its start fails. Between handler and reply the daemon's only thread takes up nothing
else (`Busy`). A probe is one step, from connection to reply: the handler of STATUS
changes nothing, or aborts the daemon, so all that its order with other requests leaves
is the moment the handler runs. That a start succeeds means that this request did;
what a long-lived one asks next (threads, sessions) is `DriverMain`'s and the libraries'.
`raced` is a history variable:
a start began while another was under way, or `sleep(1)` was too short. The engine
starts its drivers one after the other (`cases/driver/startLongLivedDrivers`) and
relies on the sleep, so the invariants about control are stated for runs in which
neither happened, and those that must hold anyway are not.

### DriverList and ClientLists

A memory is a record of functions, the fields of `saftest_list_s` by list and those
of `saftest_list_element_s` by element, and an operation maps the memory before the
call to the one after it. `Represents(m, l, s)` says that list `l` stands for the
sequence `s`: chained forwards and backwards in that order, counted, and with no
other element claiming to be on it. The walks (`DeleteIf`, `Find`, `Emptied`) are
recursive functions over at most as many steps as the list has elements.

`ClientLists` refines `DriverMain`: where that has a set of descriptors a thread
serves, this has the list on which their resources are, so that `AddClientResource`
is `Accept` with the enqueueing that goes with it, `DeleteClientResource` is
`DeleteResource` with the search and the removal, and a pass visits clients in list
order. `items` is a history variable, the sequence the list should be.

### Actions, TestReport and TestEngine

`eng[e]` is the e-th engine process: the phase, the place in a list run in order, the
case under way, and the request to halt, which both the signal handler and the look
at the time set. `bundle` is the file `saftest create` wrote, of top level and
specifications in either order of the hash (`Merge`). A case is a process
(`tester[t]`); what it does to drivers is left to chance (`Failing`, `Skipping`),
what it does in the background is its script: "start" makes an action with one
command and starts it (`runDriverBG`), "wait" polls for its end
(`waitForLockSyncBG`). `job[<<t, n>>]` is the background process of the n-th action
of test case t, `action[a]` are the files of directory a.

A file is rewritten by truncating it and writing at the close, and a step ends where
another process can see the difference: the status file is empty for a step
(`TruncateStatus`, `PhaseOver`), a command directory exists before its file (`AddCommand`), and the last
store of an action is seen file by file (`StoreAction`, `Truncate`,
`StoreCommand`). The processes of a killed engine go on: its case, and the
background processes, which meet those of the next run in the same directory. An action is
made only while there is a directory number and a place left for it (`Room`, the bound).

`ExitCodes` is what `runCommand` makes of the end of a case, where `$? >> 8` turns
death by a signal into 0 when the shell has been replaced by the command, and into
137 when it has not. `Report` reads the log as its regular expressions do.

Left to the user: that no engine is started while another runs (nothing in
`start()` looks), so that an engine starts only after those before it have ended.

## 3. What is checked

| run | question | instance |
|---|---|---|
| `lck_careful` | clients as the test cases: two sessions compete for locks, on a thread that dispatches in its own loop or with a dispatch thread in `saLckDispatch(BLOCKING)`: `NoAbort`, `CallbackFindsItsSession`, `HeldLockIsKnown`, `PollIsNotEarly`, `HandleIsHeldOnce` | 2 threads, 2 sessions, 2 handles, 2 lock requests |
| `lck_any` | no assumption on clients, any call may be refused: `TypeOK`, `MainNeverBlocksInDispatch`, `LocalHandleHasOneDispatcher`, `LocalSessionsStayLocal` | 2 threads, 1 session, all requests but the asynchronous unlock |
| `lck_live` | one session and every request but OPEN_ASYNC, DELETE and the wait count: `CallbacksArrive`, `NoAbort`, `HeldLockIsKnown` | 2 threads, 1 session, 2 lock requests, a blocking synchronous lock possible |
| `lck_leak` | violation: a handle is lost when a session is initialised twice | |
| `lck_unlock_fails` | violation: a failed unlock leads to "Unknown lock id" | |
| `clm` | clients as the tests, both kinds of daemon: `TypeOK`, `NoAbort`, `NodeAnswersAreCounted`, `TrackCallbacksAreCounted` | 2 sessions, 2 handles, 2 invocations, counts to 2 |
| `clm_track` | violation: tracking on the global session ends a daemon with a dispatch thread | |
| `main_safe` | any client, kills, few descriptors: `FdHasOneOwner`, `NoRequestIsLost`, `KeepsPromise` | 3 clients, 2 threads, 2 descriptors |
| `main_live` | the framework's use, with the lists in memory: `StaysUp`, `ListsHoldTheClients`, `ListWalksAreComplete`, `ConnectedAreServed` | 4 clients, 2 threads, 4 descriptors and elements |
| `start` | `TypeOK`, `SuccessHasItsDaemon`, `StartedIsInControl`, `NoDaemonAborts`, `StaleFilesAreNoObstacle` | 3 starts, the first two possibly at once, 2 instances, kills anywhere |
| `engine` | cases, commands, a user and kills: `TypeOK`, `ReportTellsTheTruth`, `StatusIsTrue`, `RunFollowsBundle`, `HaltsSoon`, `PassedMeansReturned`, `RunEnds` | 6 bundles, up to 2 runs, 5 test cases, 3 actions, 2 processes killed |
| `start_race` | violation: a live daemon's socket file is removed | 2 starts, 1 instance |

**Bounds.** Two lock requests and two sessions are what it takes for one session
to wait for another and for a callback of one to be looked up while the other
exists; a lookup compares one session at a time, so a third adds no new case. In
`lck_any` one session is enough because what it asks is about one session and
two threads; two would go beyond what TLC can finish, and the theorems below cover
every number. Asynchronous unlocks, which double its states, are left to `lck_careful`
and `lck_live`: for what `lck_any` asks, they differ from asynchronous locks in the
callback only. In `clm` the main session and one other are what a wrong lookup
needs, and two callbacks of a kind tell a count from a flag. Three clients and two descriptors make a number free, taken
again by another thread and exhausted, all in one run; the fourth client of
`main_live` is needed to have a dispatch thread created, blocked, and two others
waiting. Three starts let a third meet the files of two predecessors. The third
waits until the first two have ended and no daemon is on its way (`Together`): three at
once add only interleavings of pairs, and without a race there is nothing to wait for,
a start that ended having left its daemon up or dead. Each bundle of `engine` is there for one thing: two
specifications around which the top level's cases stand, a random choice, a random choice of
nothing, a case that leaves its command to the next one, two commands of one case,
and a second run beside what a killed one left. Two kills are an engine and a test
case, or two runs; a random run of two main cases has one on either side of a stop.

**Deadlock** is checked in the LCK runs where clients behave (`lck_careful`,
`lck_live`) and in `clm`: `STATUS` is always possible, so what is
checked is that a thread never stops for good together with the library. It is off
where the system may stop: after an abort (`lck_any`, `lck_leak`), when all clients have
ended (`main_*`), when all starts have ended (`start*`), and when all runs have
(`engine`).

**Fairness.** In `LckDriver` a thread that can take a step takes one: the kernel
runs it, a client found ready sends the request it connected for, and an answered
call returns. A synchronous lock is answered in the end: the test that waits has
another driver release the lock. An asynchronous request may stay queued for
ever, and nothing is assumed of `saLckDispatch(BLOCKING)` returning. In
`DriverMain` threads run, and while any connected client can go on to send or receive,
some client does; nobody has to connect, and a blocking dispatch need not end. In `DriverStart` a
start that began and a daemon that was spawned go on; nobody has to begin, stop
or kill. In `TestEngine` the engine goes on while it can, and some test case does; a
command in the background may hang, and so may its process, and nobody has to start
a run. All of it is weak fairness.

### Findings

1. `lck_leak`: the assertion "Resource must be finalized before deletion"
   (`lck_driver.c:473-474`) looks at the session's last handle only. INITIALIZE
   stores a new handle over an open one (line 607), which is then lost.
2. `lck_unlock_fails`: the release callback forgets the lock id whatever its error
   code (line 411); the synchronous unlock does so only on success (936). If the
   unlock failed the next waiter signal aborts the daemon (350).
3. `start_race`: "Check if there is a live process bound to it. If not, remove the
   file" (`saftest_comm.c:524-527`) takes a process that is bound and not yet
   listening for dead, and acts on an answer that may be old.
4. `clm_track`: "We only increment the cluster track callback count on the first
   long lived session" (`clm_driver.c:441-442`), but the lookup (239-250) walks only
   the dispatching thread's list. With a dispatch thread the first long-lived
   session is a global one, and the callback aborts the daemon.

Behaviour the models show that no document denies, and that the careful assumptions
therefore exclude: a client killed before its reply ends the daemon
(`saftest_comm.c:683`); so do a second INITIALIZE, a STATUS before the first, and a
probe of a daemon that is not initialised yet; a second LOCK_ASYNC on a session
before the first is answered makes the first callback abort. A stop has no effect on
the cases of a sequential run, and the initial and final cases of any run are run
whole. A case killed by a signal counts as passed, or vanishes from the report; a
process killed between making a command directory and its file makes every later use
of actions raise until somebody removes the directory; a poll that finds a
truncated command file fails a case whose command did what was expected; and a
random bundle whose main cases are all disabled ends the engine before its final
cases, with the status of the phase before.

## 4. What is proved

`LckDriverProofs`, for every number of threads, sessions, handles and locks, with
`Careful` and `MayRefuse` either way, from `ServiceAssumption` and
`DriverAssumption` (bounds are naturals, the first thread is a thread, 0 is not an
invocation number):

* `TypeCorrect`: `Spec => []TypeOK`. `TypeOK` is not inductive: a thread in a lock
  call stores the lock it has in hand, so `TypeInv` adds `InHand` (what a thread
  holds at each place) and that an unlock in progress has an invocation number,
  which its callback will carry.
* `OneDispatcher`: `Spec => []LocalHandleHasOneDispatcher`. The property speaks of
  the handle a thread has in hand, which may have been finalized, and of its
  session, which may have been deleted, since. The inductive invariant
  `IInv = TypeInv /\ OwnInv` follows them: ids are used once (`IdsAreFresh`), no two
  sessions hold a handle and a handle in use is not handed out again
  (`HandlesAreOwned`), the session a thread works for is on its own list, on the
  global list or deleted (`SessionIsReachable`), the handle it dispatches belongs to
  no other session (`HandleIsOfSession`), so two threads on one handle are on one
  session (`SharedHandleSharedSession`), and `check_fds` visits the thread's own
  sessions only (`TodoIsLocal`). Most actions change neither lists nor handles and
  are covered by one lemma, `OrdinaryStep`; creation, deletion, initialisation and
  the start of a dispatch have their own.
* `MainThreadServes`: `Spec => []MainNeverBlocksInDispatch`, from the two assertions
  (`lck_driver.c:663-665` and `1072-1073`), which together cover both ways into
  `saLckDispatch`.
* `ListsNeedNoLock`: `Spec => LocalSessionsStayLocal`, that only the thread itself
  changes a session on its list, from `TypeInv`.

`LckCallbackProofs`, for every number of threads, sessions, handles, locks and
invocations, for clients that keep to the conventions of the test cases and a library
whose accepted unlocks succeed (`TestCases == Careful /\ ~UnlockFails`; without the first
any client can reach an assertion, without the second the run `lck_unlock_fails` does):

* `LckLives`: `Spec => []NoAbort`; `CallbackFinds`: `Spec => []CallbackFindsItsSession`;
  `HeldLocksAreKnown`: `Spec => []HeldLockIsKnown`; `PollsAreNotEarly`:
  `Spec => []PollIsNotEarly`; `HandlesHeldOnce`: `Spec => []HandleIsHeldOnce`.

All five come from one invariant, `CInv`, inductive together with the `IInv` above. How
far an operation on a session has come is told by three places that change at different
times: the session's fields, the library's lock, and the callbacks that are queued or in
a thread's hands. `LockFits` and `CallbackFits` say which combinations of the three
there are, one line for each stage of open, lock and unlock. `NamesTell` says that the
lock id or invocation a lookup compares is of one session only, though numbers stay
behind in sessions that are done with them; `RunsOnce` that no answer is delivered
twice by two threads in one dispatch; `OpenUnderHandle` that a stored resource is of the
present handle or of one that is gone; `ThreadsAtWork` and `CallFits` what a thread
blocked in a call has in hand and what the library may do meanwhile. The lookup's
correctness, the poll's and the absence of aborts are then read off `CInv`. Each
action has a lemma that shows what it does to its own session; that other sessions keep
their part is shown once (`StillFits`, `OthersFit`).

`ClmDriverProofs`, for every number of the same, with `TestCases == Careful /\
~ThreadedTrack` (tracking in a daemon with several threads ends it, as `clm_track` shows):

* `ClmTypes`: `Spec => []TypeOK`; `ClmLives`: `Spec => []NoAbort`; and the action
  properties `NodeAnswers`: `Spec => NodeAnswersAreCounted` and `TrackCallbacks`:
  `Spec => TrackCallbacksAreCounted`.

A node callback carries an invocation, a track callback nothing, so what makes the
lookup right is in the invariant: sessions live on one kind of list (`OneHome`), each
owns its handle and none is lost (`HandlesAreOwned`, `NoHandleIsLost`), no two sessions
that may be answered have the same invocation, nor has an old one left behind
(`InvocationTells`), and only the first long-lived session is owed track callbacks
(`FirstTracks`, `LongFirst`). `InHand` and `CountsAreBounded` say what a dispatching
thread holds. For the action properties the steps are divided into those that count
nothing (`Quiet`) and the deliveries.

`DriverStartProofs`, for every number of starts and instances, from `StartAssumption`,
however starts overlap and whoever is killed:

* `StartTypes`: `Spec => []TypeOK`; `SuccessIsReal`: `Spec => []SuccessHasItsDaemon`. A
  success is reported two steps after the daemon noted it, and either process may be
  killed or fail in between, so the invariant `Paired` counts from the note on: each
  start whose request was handled (`Accepted`) has an initialised daemon to itself, an
  initialised daemon listens or is dead, and if it lives one of these starts is its own.
  A start that gives up after the handler ran has met a dead daemon, which is why the
  last part is kept.
* `Control`: `Spec => []StartedIsInControl`, `NoAborts`: `Spec => []NoDaemonAborts`, and
  `LiveFiles`: `Spec => LiveFileIsKeptInOrder`, an action property no run checks: as
  long as starts do not race no daemon's socket file is taken while it lives, which is
  the promise `start_race` breaks when they do. The invariant is
  `raced \/ InOrder`: `InOrder` says that one start is under way at a time
  (`OneUnderWay`), that a file leads to a daemon of its own instance (`FilesAreNamed`), that
  a daemon alive has both (`FilesOfTheLiving`), that a start past its probe has no other
  daemon alive in its instance (`InstanceIsTaken`), and how a start that ended leaves its
  daemon (`Settled`). A kill may come at each step.

`DriverListProofs`, for every set of lists and elements and for lists of every length, from
`ListAssumption` (the null pointer is neither a list nor an element). Given a memory
in which list `l` represents `s`: `EnqueueAppends`, `RemoveTakesOut`, `DequeueRemovesFirst` and
`InsertPutsAfter` say which sequence it represents after the operation, and
`OtherListsAreKept` that no other list changes. Each is proved field by field
from what the operation stores; the cases are the place of the element, since head,
tail and middle take different branches in the code. The walks are `FindsFirst`,
`EmptiedIsEmpty` and `DeleteIfKeepsTheRest`. Each is a recursive function of the steps left,
and what it returns is shown by taking the lowest number of steps for which it fails
(`UpTo`, from the well-foundedness of the natural numbers), which the step before refutes;
the induction theorems of the library take an operator and cannot be used. For
`DeleteIf` the step is `RemoveTakesOut` on a list of which the part already walked over
has lost what matches (`LeftAfter`).

`DriverMainProofs`, for every number of threads, clients and descriptors, with careful
clients or not, with kills and faults or not, from `MainAssumption`:

* `DaemonTypes`: `Spec => []TypeOK`, and `OneOwner`: `Spec => []FdHasOneOwner`. Neither
  is inductive without the other: a request is read from, and a reply written to, a
  descriptor that is open only because its thread owns it. `IInv` adds `InHand`: what a
  thread walks over and what it has in hand is on its client list. The steps that
  leave lists and descriptors alone are covered by one lemma, `OrdinaryStep`; accepting,
  hanging up and deleting have their own, and the end of the daemon one.

* `PromiseIsKept`: `Spec => KeepsPromise`, that `DriverMain` implements `RequestReply`.
  Beyond `IInv` it takes `Linked` (a connection is in one backlog or behind one
  descriptor), `Unread` (a request that was not read was neither executed nor answered)
  and `InService` (the request in hand was read, and was executed once when its reply is
  due). From `Linked` and `FdHasOneOwner` no two threads serve one client
  (`OneServer`), so the request a thread executes is nobody else's. Each action maps
  to `Ask`, `Execute` or `Answer`, or changes nothing the promise speaks of.
* `NothingIsLost`: `Spec => []NoRequestIsLost`. To `IInv` and the three above it adds `Held`: a
  client that is still sending already waits where its request will be read, and the
  request in a thread's hand is its client's (`TheirRequest`), so that one that is not
  a blocking dispatch is followed by a reply. A client waits on while its descriptor stays on
  a list; the lemmas for accepting, hanging up and deleting show that these steps take
  away only the descriptor they mean, though its number may be in use twice.
* `DaemonStaysUp`: `Spec => []StaysUp`, for careful clients, no kills and heap faults, and
  `MaxClients <= MaxFds` (`AsTheFramework`, which `main_live` satisfies). Each end of the daemon
  has its reason not to be met, which `UInv` adds to the invariants above: a
  second initialisation and a request before the first by `OneInitializes`, a thread
  created from another than the main one by `Reached` (a connection is served by the
  thread it was made to), a failed reply by `Outcomes` (who waits has not gone), a failed
  accept by counting: each descriptor in use has a client of its own, and one more
  client is in the backlog (`DescriptorIsLeft`).

`ClientListsProofs`, from `ListsAssumption` (the lists are named by the threads) and the
assumptions of both modules it joins:

* `ListsAreTheClients`: `LFairSpec => []ListsHoldTheClients`. `EnqueueAppends` and
  `RemoveTakesOut` say what becomes of the list of the thread that accepts or deletes,
  `OtherListsAreKept` that the others stay. `LInv` adds that no two elements of a list
  carry the same descriptor: when a thread deletes one, its element is found and no
  other goes with it. A new one is not on the list yet because a free descriptor has no
  owner (`FdHasOneOwner`).
* `WalksAreComplete`: `LFairSpec => []ListWalksAreComplete`, from `LInv` and the theorems
  about the walks.

`TestEngineProofs`, for any cases, bundles and scripts, and for every number of runs, test
cases, actions and kills, from `ActionsAssumption` and `EngineAssumption` (names are strings,
bundles are made of them, and a script waits only for what it has started, since
`waitForLockSyncBG` is given the action it waits for):

* `EngineTypeOK`: `Spec => []TypeOK`; `StopHaltsSoon`: `Spec => []HaltsSoon`;
  `PassedOnItsOwn`: `Spec => []PassedMeansReturned`. The invariant is `EInv`. Its half `AInv`
  relates three places that change one after the other: a directory belongs to one job
  (`OneJob`), its files tell how far that job is (`FilesTell`), and what a test case has
  waited for, or has in hand from a file, is what that job stored (`WaitedFor`). That the
  job a poll looks at exists takes how far the case is in its script (`FollowsScript`,
  `Slots`). The other half says where an engine is and with which case: one runs at a time
  (`InTurn`), the test case under way is its own (`CaseInHand`), and a random run that was
  late for a stop once is not about to begin another case (`LateOnce`).
* `StatusTold`: `Spec => []StatusIsTrue`. The log is written first, then the status file is
  truncated, then written, so `StatusInv` adds to the property that from the truncation on
  the line written last is of the case in hand (`LastLine`).
* `ReportTold`: `Spec => []ReportTellsTheTruth`. The report is a fold over the log, and
  `ReportIs` says what one more line does to it. `ReportInv` counts the test cases that have a
  line by how they ended (`Logged`, `Counted`), and has the report's own idea of the case
  under way agree with the engine's (`Named`), without which an END would stop it.
* `RunFollows`: `Spec => []RunFollowsBundle`, if in each bundle no case name is twice
  (`AllOnce`). First what merging makes of a bundle: each list of the file is the top level's
  cases and each specification's in the order of the hash (`LaidOut`, by induction over
  the specifications), so a case is in one place, and in front of it is what the
  property wants there (`ListOnce`, `ListOrder`, `PlaceOrder`). Then `FInv`: what an engine
  has begun lies behind its place in the lists (`ArePast`), nothing behind it was left out
  (`AllBegun`), and the case chosen is the one in its place (`Chosen`). The hypothesis is
  needed since the log tells a case by its name only: five names of
  `cases/clm/conf/conformance_bundle.xml` are there twice, and of such a case a log cannot
  say which of the two was begun. The bundles of the run `engine` satisfy it.

Every invariant and action property of a passing run is thus a theorem. Only model-checked
is liveness (`CallbacksArrive`, `ConnectedAreServed`, `StaleFilesAreNoObstacle`, `RunEnds`), which
is out of the prover's reach: fairness speaks of what is enabled.

## 5. What is not modelled

* Two engines at once, the deletion of actions, cases on other nodes; the times in the
  status file and the text of the report.
* The XML files the CLM driver writes, and the cluster they describe.
* The contents of messages: their pairs are set, flattened and read back one after the other
  in one process, and their limit of 50 is a bound without a history.
* The list functions that build a new list from an old one: nothing calls them.
* Hazards of one process without a sequence of steps, or that one test reaches: the thread
  number a new thread looks itself up by (`saftest_main_lib.c:151`); a session with
  invalid dispatch flags, which every later STATUS aborts on
  (`driver_lib_utils.c:112`); 13 sessions in a STATUS reply (`saftest_comm.c:164`); the
  exact count `clusterTrack` waits for while it is subscribed to changes
  (`cases/clm/operation/saClmClusterTrack/clusterTrack:49`).
* Torn reads and writes of unlocked fields inside one handler: handlers are
  steps between library calls. Where the lists themselves are raced on
  (`saftest_main_lib.c:92`) the crash is an outcome.
* The loader (`dlopen`, library table), options, logging, core dumps: no state that
  matters after the start.
* XML configuration, implementation adapters, vendored getopt, AIS headers, the single
  test scripts: data, formatting and shell commands.

## 6. Plan

Done: 1 `LckService`, `LckDriver`; 2 `LckDriverProofs`; 3 `RequestReply`,
`DriverMain`; 4 `DriverStart`; 5 `ClmService`, `ClmDriver`; 6 `Actions`, `TestReport`,
`TestEngine`; 7 `DriverList`, `DriverListProofs`, `ClientLists`; 8 `DriverMainProofs`,
`ClientListsProofs`; 9 `DriverStartProofs`, `ClmDriverProofs`, `LckCallbackProofs`, and
`DaemonStaysUp`; 10 `TestEngineProofs`; 11 the walks over lists.

Left: a second engine started beside a running one, which `start()` does not prevent.
