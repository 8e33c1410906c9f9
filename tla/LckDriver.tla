------------------------------- MODULE LckDriver -------------------------------
(***************************************************************************)
(* The LCK library of one saf_driver daemon                                *)
(* (src/trunk/cases/lck/driver/lck_driver.c): the sessions it keeps for    *)
(* its clients, the request handlers, the callbacks the lock library runs  *)
(* inside saLckDispatch, and the part of every thread's select loop that   *)
(* decides which session is dispatched.                                    *)
(*                                                                         *)
(* A thread's pass through its loop is                                     *)
(*     select -> serve (the clients that were ready) -> check (the         *)
(*     sessions whose selection object was ready) -> select.               *)
(* Everything between two calls into the lock library, which may block or  *)
(* let another thread run, is one step.                                    *)
(*                                                                         *)
(* A definition named F_Fault, whatever the fault, is F with that bug      *)
(* seeded in it: what a property has to notice.  No action uses one.       *)
(***************************************************************************)
EXTENDS LckService

CONSTANTS
    Threads, MainThread,  \* the daemon's threads; the one main() runs on
    MaxSessions,          \* bound: sessions created in a run
    MaxServed,            \* bound: clients found ready by one select
    Ops,                  \* the requests the clients of this instance send
    DispatchFlags,        \* the dispatch flags they choose from
    MayRefuse,            \* TRUE: any library call may also return an error
    Careful               \* TRUE: clients behave as the test cases do (below)

AllOps == {"CREATE", "DELETE", "INITIALIZE", "SELECTION_OBJECT_GET", "DISPATCH",
           "FINALIZE", "OPEN", "OPEN_ASYNC", "CLOSE", "LOCK_SYNC", "LOCK_ASYNC",
           "UNLOCK_SYNC", "UNLOCK_ASYNC", "WAIT_COUNT", "STATUS"}

ASSUME DriverAssumption ==
    /\ MainThread \in Threads
    /\ "none" \notin Threads /\ "global" \notin Threads
    /\ MaxSessions \in Nat /\ MaxServed \in Nat
    /\ Ops \subseteq AllOps
    /\ DispatchFlags \subseteq {"NONE", "ONE", "ALL", "BLOCKING"}
    /\ MayRefuse \in BOOLEAN /\ Careful \in BOOLEAN

Ids   == 1 .. MaxSessions
Flags == {"NONE", "ONE", "ALL", "BLOCKING"}      \* SaDispatchFlagsT

\* The fields of lck_session_t the properties tell apart.  The error codes of
\* asynchronous locks and unlocks are left out: each is stored together with a
\* lock status, which whoever polls for it compares as well.
Sessions == [home       : Threads \cup {"none", "global"},  \* the list it is on
             handle     : Handles \cup {0},
             selobj     : Handles \cup {0},      \* the handle whose fd it is
             flags      : Flags,
             cbs        : BOOLEAN,               \* callbacks registered
             res        : Handles \cup {0},      \* res_handle
             openInv    : Invocations \cup {0},
             openErr    : Errors \cup {"NONE"},
             lockId     : LockIds \cup {0},
             lockStatus : Results \cup {"NONE", "NO_MORE"},
             lockInv    : Invocations \cup {0},
             unlockInv  : Invocations \cup {0},
             waits      : Nat]                   \* waiter_signal_notification_count
NewSession == [home |-> "none", handle |-> 0, selobj |-> 0, flags |-> "NONE",
               cbs |-> FALSE, res |-> 0, openInv |-> 0, openErr |-> "NONE",
               lockId |-> 0, lockStatus |-> "NONE", lockInv |-> 0,
               unlockInv |-> 0, waits |-> 0]

NoCb == [kind |-> "none"]
\* Where a thread is: in its loop, in a call into the lock library (lock,
\* lockasync, dispatch), about to store what a call returned (unlock), or in a
\* callback.
Pcs == {"select", "serve", "check", "lock", "lockasync", "unlock",
        "dispatch", "callback"}
ThreadRecs == [pc   : Pcs,
               mask : SUBSET Handles,     \* what select() found readable
               left : 0 .. MaxServed,     \* ready clients not yet served
               todo : SUBSET Ids,         \* sessions check_fds has still to visit
               s    : Ids \cup {0},       \* the session in hand
               l    : LockIds \cup {0},   \* the lock in hand
               h    : Handles \cup {0},   \* the handle being dispatched
               how  : Flags,              \* with these flags; NONE: return now
               back : {"serve", "check"}, \* where a dispatch returns to
               cb   : Callbacks \cup {NoCb}]
IdleThread == [pc |-> "select", mask |-> {}, left |-> 0, todo |-> {}, s |-> 0,
               l |-> 0, h |-> 0, how |-> "NONE", back |-> "serve", cb |-> NoCb]

VARIABLES
    sess,      \* [Ids -> Sessions]
    nextId,    \* next_lck_session_id
    th,        \* [Threads -> ThreadRecs]
    aborted    \* "no", or the assertion or abort that ended the daemon

vars == <<sess, nextId, th, aborted, svcVars>>

Aborts == {"no", "unknown session", "not finalized", "no callback",
           "dispatch none", "blocking in main", "own dispatch thread",
           "unknown lock id", "unknown invocation"}

\* Type invariant: what a session, a thread and the library can hold, and that the
\* session counter stays within its bound (lck_driver.c:24-62, 144-153).
TypeOK ==
    /\ ServiceTypeOK
    /\ sess \in [Ids -> Sessions]
    /\ nextId \in 1 .. MaxSessions + 1
    /\ th \in [Threads -> ThreadRecs]
    /\ aborted \in Aborts

Init ==
    /\ ServiceInit
    /\ sess = [s \in Ids |-> NewSession]
    /\ nextId = 1
    /\ th = [t \in Threads |-> IdleThread]
    /\ aborted = "no"

-----------------------------------------------------------------------------
\* Lists and lookups.  A list is ordered by session id: ids grow and new
\* sessions are appended.

FirstOf(S) == CHOOSE s \in S : \A u \in S : s <= u

\* A request finds the sessions of every thread.
Visible_AllLists(t) == {s \in Ids : sess[s].home # "none"}

Visible(t) == {s \in Ids : sess[s].home \in {"global", t}}

\* A lookup that forgets the global list.
FirstSeen_OwnList(t, S) ==
    LET own == {s \in S : sess[s].home = t} IN IF own # {} THEN FirstOf(own) ELSE 0

\* The session a thread finds in S: the first on the global list, else on its
\* own; 0 if there is none.
FirstSeen(t, S) ==
    LET on(list) == {s \in S : sess[s].home = list}
    IN IF on("global") # {} THEN FirstOf(on("global"))
       ELSE IF on(t) # {} THEN FirstOf(on(t)) ELSE 0

\* The lookups are copies of each other; one compares the wrong field.
Matching_WrongField(cb) ==
    CASE cb.kind = "waiter" -> {s \in Ids : sess[s].lockId = cb.lock}
      [] cb.kind \in {"grant", "release"} -> {s \in Ids : sess[s].lockInv = cb.inv}
      [] cb.kind = "open"   -> {s \in Ids : sess[s].openInv = cb.inv}

\* The four lookups of the callbacks: by lock id, and by the invocation of the
\* session's last request of that kind.
Matching(cb) ==
    CASE cb.kind = "waiter"  -> {s \in Ids : sess[s].lockId = cb.lock}
      [] cb.kind = "grant"   -> {s \in Ids : sess[s].lockInv = cb.inv}
      [] cb.kind = "release" -> {s \in Ids : sess[s].unlockInv = cb.inv}
      [] cb.kind = "open"    -> {s \in Ids : sess[s].openInv = cb.inv}

SessionOf(t, cb) == FirstSeen(t, Matching(cb))

Abort(why) == aborted' = why /\ UNCHANGED <<sess, nextId, th, svcVars>>

-----------------------------------------------------------------------------
\* How the test cases behave.  They wait for what one operation on a session
\* causes before they start the next, take an invocation number no other
\* session of the daemon has used, and initialise a session once
\* (initializeTwice excepted).  lockExclusiveWithPRLockWait unlocks without
\* waiting for the waiter's notification, but never dispatches that session.
\* Careful = FALSE lifts all of it.

InCall(s) == {t \in Threads : th[t].pc \in {"lock", "lockasync", "unlock"}
                              /\ th[t].s = s}
InCallback(h) == {t \in Threads : th[t].pc = "callback" /\ th[t].h = h}

Quiet(s) ==
    LET h == sess[s].handle
    IN /\ InCall(s) = {}
       /\ InCallback(h) = {}
       /\ Waiting(h) = {}
       /\ \A l \in LocksOf(h) : svcLock[l].st = "granted"

\* SAFTestDriver.rb and initializeResources(): the main thread creates every
\* session; a daemon with more threads has one global session, created first,
\* and its dispatch threads get no request but the blocking dispatch of it.
MayCreate(where, t) ==
    Careful => /\ t = MainThread
               /\ where = "global" => Threads # {t} /\ nextId = 1
MayInitialize(s, f) ==
    Careful => /\ sess[s].handle = 0 /\ InCall(s) = {}
               /\ (f = "BLOCKING") = (sess[s].home = "global")
MayDispatch(s, f, t) ==
    Careful => /\ (f = "BLOCKING") = (sess[s].flags = "BLOCKING")
               /\ f # "NONE" /\ (f = "BLOCKING" => t # MainThread)
MayEnd(s) ==
    Careful => InCall(s) = {} /\ InCallback(sess[s].handle) = {}
MayOpen(s) == Careful => Quiet(s) /\ sess[s].handle \notin svcOpen
MayLock(s) == Careful => Quiet(s) /\ LocksOf(sess[s].handle) = {}
MayUnlock(s) == Careful => Quiet(s) /\ sess[s].lockId \in LocksOf(sess[s].handle)
Unused(i, s, field) ==
    Careful => \A u \in Ids \ {s} : sess[u][field] # i
\* Whoever waits for a lock does so after its holder was told that it has it.
MayWait(l) == Careful => \A t \in Threads : th[t].l # l

-----------------------------------------------------------------------------
\* Request handlers.  "left" counts the ready clients, one request each.
\* Careful clients ask the main thread for everything but a dispatch.

Serving(t, op) == /\ th[t].pc = "serve" /\ th[t].left > 0 /\ op \in Ops
                  /\ Careful /\ t # MainThread => op = "DISPATCH"
Served(t) == th' = [th EXCEPT ![t].left = @ - 1]
\* The thread enters a call that returns to it later.
Enter(t, pc, s, l) ==
    th' = [th EXCEPT ![t].left = @ - 1, ![t].pc = pc, ![t].s = s, ![t].l = l]
\* ... and comes back to the clients that are left.
Resume(t) == th' = [th EXCEPT ![t].pc = "serve", ![t].s = 0, ![t].l = 0]
\* The library call returns an error and has no effect.
Refused == MayRefuse /\ UNCHANGED svcVars

CreateSession(t) ==
    /\ Serving(t, "CREATE")
    /\ nextId \in Ids
    /\ \E where \in {"global", t} :
        /\ MayCreate(where, t)
        /\ sess' = [sess EXCEPT ![nextId] = [NewSession EXCEPT !.home = where]]
    /\ nextId' = nextId + 1
    /\ Served(t)
    /\ UNCHANGED <<aborted, svcVars>>

DeleteSession(t, s) ==
    /\ Serving(t, "DELETE")
    /\ Careful => sess[s].handle = 0
    /\ IF sess[s].handle # 0 THEN Abort("not finalized")
       ELSE /\ sess' = [sess EXCEPT ![s] = NewSession]
            /\ Served(t)
            /\ UNCHANGED <<nextId, aborted, svcVars>>

\* A request names a session that is on neither list.
UnknownSession(t) ==
    /\ ~Careful
    /\ Serving(t, "DELETE")
    /\ \E s \in Ids : s \notin Visible(t)
    /\ Abort("unknown session")

Initialize(t, s) ==
    /\ Serving(t, "INITIALIZE")
    /\ \E f \in DispatchFlags, cbs \in BOOLEAN :
        /\ MayInitialize(s, f)
        /\ \/ \E h \in Handles :
                /\ saLckInitialize(h, cbs)
                /\ sess' = [sess EXCEPT ![s].handle = h, ![s].flags = f,
                                        ![s].cbs = cbs]
           \/ /\ Refused
              /\ sess' = [sess EXCEPT ![s].flags = f, ![s].cbs = cbs]
    /\ Served(t)
    /\ UNCHANGED <<nextId, aborted>>

SelectionObjectGet(t, s) ==
    /\ Serving(t, "SELECTION_OBJECT_GET")
    /\ sess' = IF Live(sess[s].handle)
               THEN [sess EXCEPT ![s].selobj = sess[s].handle] ELSE sess
    /\ Served(t)
    /\ UNCHANGED <<nextId, aborted, svcVars>>

\* In the blocking case no reply is sent and the thread stays in the library.
Dispatch(t, s) ==
    /\ Serving(t, "DISPATCH")
    /\ \E f \in DispatchFlags :
        /\ MayDispatch(s, f, t)
        /\ IF f = "NONE" THEN Abort("dispatch none")
           ELSE IF f = "BLOCKING" /\ t = MainThread THEN Abort("blocking in main")
           ELSE /\ th' = [th EXCEPT ![t].left = @ - 1, ![t].pc = "dispatch",
                                    ![t].s = s, ![t].h = sess[s].handle,
                                    ![t].how = f, ![t].back = "serve"]
                /\ UNCHANGED <<sess, nextId, aborted, svcVars>>

\* The handle is zeroed before it is passed to the library.
Finalize_ZeroFirst(t, s) ==
    /\ Serving(t, "FINALIZE")
    /\ MayEnd(s)
    /\ sess' = [sess EXCEPT ![s].handle = 0, ![s].selobj = 0]
    /\ Served(t)
    /\ UNCHANGED <<nextId, aborted, svcVars>>

\* The handle is forgotten whether or not the library let it go.
Finalize(t, s) ==
    /\ Serving(t, "FINALIZE")
    /\ MayEnd(s)
    /\ \/ saLckFinalize(sess[s].handle)
       \/ ~Live(sess[s].handle) /\ UNCHANGED svcVars
       \/ ~Careful /\ Refused
    /\ sess' = [sess EXCEPT ![s].handle = 0, ![s].selobj = 0]
    /\ Served(t)
    /\ UNCHANGED <<nextId, aborted>>

ResourceOpen(t, s) ==
    /\ Serving(t, "OPEN")
    /\ MayOpen(s)
    /\ \/ /\ saLckResourceOpen(sess[s].handle)
          /\ sess' = [sess EXCEPT ![s].res = sess[s].handle]
       \/ Refused /\ UNCHANGED sess
    /\ Served(t)
    /\ UNCHANGED <<nextId, aborted>>

ResourceOpenAsync(t, s) ==
    /\ Serving(t, "OPEN_ASYNC")
    /\ MayOpen(s)
    /\ \E i \in Invocations :
        /\ Unused(i, s, "openInv")
        /\ sess' = [sess EXCEPT ![s].openInv = i, ![s].openErr = "NONE"]
        /\ saLckResourceOpenAsync(sess[s].handle, i) \/ Refused
    /\ Served(t)
    /\ UNCHANGED <<nextId, aborted>>

ResourceClose(t, s) ==
    /\ Serving(t, "CLOSE")
    /\ MayEnd(s)
    /\ saLckResourceClose(sess[s].res) \/ Refused
    /\ Served(t)
    /\ UNCHANGED <<sess, nextId, aborted>>

\* The thread serves nobody until the library has answered.
LockSync(t, s) ==
    /\ Serving(t, "LOCK_SYNC")
    /\ MayLock(s)
    /\ \/ \E l \in LockIds : QueueLock(l, sess[s].res, 0) /\ Enter(t, "lock", s, l)
       \/ Refused /\ Served(t)
    /\ UNCHANGED <<sess, nextId, aborted>>

\* The status is stored even if the call failed.
LockSyncReturn_StoresAll(t) ==
    LET r == svcLock[th[t].l].res
    IN /\ th[t].pc = "lock"
       /\ r # "NONE"
       /\ sess' = [sess EXCEPT ![th[t].s].lockId = th[t].l, ![th[t].s].lockStatus = r]
       /\ Resume(t)
       /\ UNCHANGED <<nextId, aborted, svcVars>>

\* The library has stored the lock id and the status through the pointers it
\* was given, unless it failed.
LockSyncReturn(t) ==
    LET s == th[t].s
        r == svcLock[th[t].l].res
    IN /\ th[t].pc = "lock"
       /\ r # "NONE"
       /\ sess' = IF r = "ERR" THEN sess
                  ELSE [sess EXCEPT ![s].lockId = th[t].l, ![s].lockStatus = r]
       /\ Resume(t)
       /\ UNCHANGED <<nextId, aborted, svcVars>>

\* The status of the last request stays until the new one is answered.
LockAsync_KeepsStatus(t, s) ==
    /\ Serving(t, "LOCK_ASYNC")
    /\ MayLock(s)
    /\ \E i \in Invocations, l \in LockIds :
        /\ Unused(i, s, "lockInv")
        /\ sess' = [sess EXCEPT ![s].lockInv = i]
        /\ QueueLock(l, sess[s].res, i)
        /\ Enter(t, "lockasync", s, l)
    /\ UNCHANGED <<nextId, aborted>>

LockAsync(t, s) ==
    /\ Serving(t, "LOCK_ASYNC")
    /\ MayLock(s)
    /\ \E i \in Invocations :
        /\ Unused(i, s, "lockInv")
        /\ sess' = [sess EXCEPT ![s].lockInv = i, ![s].lockStatus = "NONE"]
        /\ \/ \E l \in LockIds : /\ QueueLock(l, sess[s].res, i)
                                 /\ Enter(t, "lockasync", s, l)
           \/ Refused /\ Served(t)
    /\ UNCHANGED <<nextId, aborted>>

LockAsyncReturn(t) ==
    /\ th[t].pc = "lockasync"
    /\ sess' = [sess EXCEPT ![th[t].s].lockId = th[t].l]
    /\ Resume(t)
    /\ UNCHANGED <<nextId, aborted, svcVars>>

UnlockSync(t, s) ==
    /\ Serving(t, "UNLOCK_SYNC")
    /\ MayUnlock(s)
    /\ \/ /\ saLckResourceUnlock(sess[s].lockId)
          /\ Enter(t, "unlock", s, sess[s].lockId)
       \/ Refused /\ Served(t)
    /\ UNCHANGED <<sess, nextId, aborted>>

UnlockSyncReturn(t) ==
    /\ th[t].pc = "unlock"
    /\ sess' = [sess EXCEPT ![th[t].s].lockId = 0, ![th[t].s].waits = 0,
                            ![th[t].s].lockStatus = "NO_MORE"]
    /\ Resume(t)
    /\ UNCHANGED <<nextId, aborted, svcVars>>

\* The request does not wait for the release callback to forget the lock ...
UnlockAsync_ForgetsLock(t, s) ==
    /\ Serving(t, "UNLOCK_ASYNC")
    /\ MayUnlock(s)
    /\ \E i \in Invocations :
        /\ Unused(i, s, "unlockInv")
        /\ sess' = [sess EXCEPT ![s].unlockInv = i, ![s].lockId = 0,
                                ![s].lockStatus = "NO_MORE"]
        /\ saLckResourceUnlockAsync(i, sess[s].lockId)
    /\ Served(t)
    /\ UNCHANGED <<nextId, aborted>>

\* ... or does not note the invocation.
UnlockAsync_KeepsInvocation(t, s) ==
    /\ Serving(t, "UNLOCK_ASYNC")
    /\ MayUnlock(s)
    /\ \E i \in Invocations : saLckResourceUnlockAsync(i, sess[s].lockId)
    /\ Served(t)
    /\ UNCHANGED <<sess, nextId, aborted>>

UnlockAsync(t, s) ==
    /\ Serving(t, "UNLOCK_ASYNC")
    /\ MayUnlock(s)
    /\ \E i \in Invocations :
        /\ Unused(i, s, "unlockInv")
        /\ sess' = [sess EXCEPT ![s].unlockInv = i]
        /\ saLckResourceUnlockAsync(i, sess[s].lockId) \/ Refused
    /\ Served(t)
    /\ UNCHANGED <<nextId, aborted>>

GetWaitCount(t, s) ==
    /\ Serving(t, "WAIT_COUNT")
    /\ Careful => sess[s].cbs
    /\ IF sess[s].cbs THEN Served(t) /\ UNCHANGED <<sess, nextId, aborted, svcVars>>
       ELSE Abort("no callback")

\* STATUS and the three requests that read an asynchronous status.
GetStatus(t) ==
    /\ Serving(t, "STATUS")
    /\ Served(t)
    /\ UNCHANGED <<sess, nextId, aborted, svcVars>>

Request(t) ==
    \/ CreateSession(t) \/ UnknownSession(t) \/ GetStatus(t)
    \/ \E s \in Visible(t) :
        \/ DeleteSession(t, s) \/ Initialize(t, s) \/ SelectionObjectGet(t, s)
        \/ Dispatch(t, s) \/ Finalize(t, s)
        \/ ResourceOpen(t, s) \/ ResourceOpenAsync(t, s) \/ ResourceClose(t, s)
        \/ LockSync(t, s) \/ LockAsync(t, s)
        \/ UnlockSync(t, s) \/ UnlockAsync(t, s) \/ GetWaitCount(t, s)

Return(t) == LockSyncReturn(t) \/ LockAsyncReturn(t) \/ UnlockSyncReturn(t)

-----------------------------------------------------------------------------
\* The select loop.

\* Selection objects are looked at only when no client is ready.
Select_ClientsFirst(t) ==
    LET ready == {h \in Handles :
                    /\ svcOut[h] # {}
                    /\ \E s \in Ids : /\ sess[s].home = t
                                      /\ sess[s].flags # "BLOCKING"
                                      /\ sess[s].selobj = h}
    IN /\ th[t].pc = "select"
       /\ \E n \in 0 .. MaxServed :
            /\ n > 0 \/ ready # {}
            /\ th' = [th EXCEPT ![t].pc = "serve", ![t].left = n,
                                ![t].mask = IF n > 0 THEN {} ELSE ready]
       /\ UNCHANGED <<sess, nextId, aborted, svcVars>>

\* Sessions of the blocking kind are not watched: a thread of their own waits
\* in saLckDispatch.  Global sessions are never watched.
Select(t) ==
    LET ready == {h \in Handles :
                    /\ svcOut[h] # {}
                    /\ \E s \in Ids : /\ sess[s].home = t
                                      /\ sess[s].flags # "BLOCKING"
                                      /\ sess[s].selobj = h}
    IN /\ th[t].pc = "select"
       /\ \E n \in 0 .. MaxServed :
            /\ n > 0 \/ ready # {}
            /\ th' = [th EXCEPT ![t].pc = "serve", ![t].mask = ready, ![t].left = n]
       /\ UNCHANGED <<sess, nextId, aborted, svcVars>>

EndServe(t) ==
    /\ th[t].pc = "serve"
    /\ th[t].left = 0
    /\ th' = [th EXCEPT ![t].pc = "check",
                        ![t].todo = {s \in Ids : sess[s].home = t}]
    /\ UNCHANGED <<sess, nextId, aborted, svcVars>>

\* The flags are not looked at again.
Check_NoAssert(t) ==
    LET due == {s \in th[t].todo : sess[s].selobj \in th[t].mask}
        s   == FirstOf(due)
    IN /\ th[t].pc = "check"
       /\ th' = IF due = {} THEN [th EXCEPT ![t] = IdleThread]
                ELSE [th EXCEPT ![t].pc = "dispatch", ![t].todo = @ \ {s},
                                ![t].s = s, ![t].h = sess[s].handle,
                                ![t].how = sess[s].flags, ![t].back = "check"]
       /\ UNCHANGED <<sess, nextId, aborted, svcVars>>

\* The next of the thread's sessions whose selection object select() found
\* readable is dispatched with the flags and the handle it has now.
Check(t) ==
    LET due == {s \in th[t].todo : sess[s].selobj \in th[t].mask}
        s   == FirstOf(due)
    IN /\ th[t].pc = "check"
       /\ IF due = {} THEN /\ th' = [th EXCEPT ![t] = IdleThread]
                           /\ UNCHANGED <<sess, nextId, aborted, svcVars>>
          ELSE IF sess[s].flags = "BLOCKING" THEN Abort("own dispatch thread")
          ELSE /\ th' = [th EXCEPT ![t].pc = "dispatch", ![t].todo = @ \ {s},
                                   ![t].s = s, ![t].h = sess[s].handle,
                                   ![t].how = sess[s].flags, ![t].back = "check"]
               /\ UNCHANGED <<sess, nextId, aborted, svcVars>>

-----------------------------------------------------------------------------
\* saLckDispatch and the callbacks it runs.

TakeOne(t) ==
    /\ th[t].pc = "dispatch"
    /\ Live(th[t].h)
    /\ th[t].how # "NONE"
    /\ \E cb \in svcOut[th[t].h] :
        /\ TakeCallback(th[t].h, cb)
        /\ th' = [th EXCEPT ![t].pc = "callback", ![t].cb = cb]
    /\ UNCHANGED <<sess, nextId, aborted>>

DispatchReturn(t) ==
    LET h == th[t].h
    IN /\ th[t].pc = "dispatch"
       /\ \/ ~Live(h)
          \/ th[t].how = "NONE"
          \/ th[t].how # "BLOCKING" /\ Waiting(h) = {}
       /\ th' = [th EXCEPT ![t].pc = th[t].back, ![t].s = 0, ![t].h = 0,
                           ![t].how = "NONE", ![t].back = "serve"]
       /\ UNCHANGED <<sess, nextId, aborted, svcVars>>

WaiterCallback(cb, u) == [sess EXCEPT ![u].waits = @ + 1]
GrantCallback(cb, u) == [sess EXCEPT ![u].lockStatus = cb.status]
OpenCallback(cb, u) ==
    [sess EXCEPT ![u].res = cb.res, ![u].openErr = cb.err]
ReleaseCallback(cb, u) ==
    [sess EXCEPT ![u].lockStatus = "NO_MORE", ![u].lockId = 0, ![u].waits = 0]

RunCallback(t) ==
    LET cb == th[t].cb
        u  == SessionOf(t, cb)
    IN /\ th[t].pc = "callback"
       /\ IF u = 0
          THEN Abort(IF cb.kind = "waiter" THEN "unknown lock id"
                     ELSE "unknown invocation")
          ELSE /\ sess' = CASE cb.kind = "waiter"  -> WaiterCallback(cb, u)
                            [] cb.kind = "grant"   -> GrantCallback(cb, u)
                            [] cb.kind = "open"    -> OpenCallback(cb, u)
                            [] cb.kind = "release" -> ReleaseCallback(cb, u)
               /\ th' = [th EXCEPT ![t].pc = "dispatch", ![t].cb = NoCb,
                                   ![t].how = IF @ = "ONE" THEN "NONE" ELSE @]
               /\ UNCHANGED <<nextId, aborted, svcVars>>

Loop(t) ==
    \/ Select(t) \/ EndServe(t) \/ Check(t)
    \/ TakeOne(t) \/ DispatchReturn(t) \/ RunCallback(t)

-----------------------------------------------------------------------------
Service(l) ==
    /\ Answer(l) \/ Release(l) \/ (Waiter(l) /\ MayWait(l))
    /\ UNCHANGED <<sess, nextId, th, aborted>>

Next ==
    /\ aborted = "no"
    /\ \/ \E t \in Threads : Request(t) \/ Return(t) \/ Loop(t)
       \/ \E l \in LockIds : Service(l)

Spec == Init /\ [][Next]_vars

\* A thread that can take a step does: a client found ready sends its request,
\* and a call that was answered returns.  The library answers a synchronous
\* request in the end: LCKTestDriver.rb:473-476 waits for ever by default, but a
\* test that does has another driver give the lock back.  An asynchronous
\* request may stay queued for ever.
Fairness ==
    /\ \A t \in Threads : WF_vars(aborted = "no" /\ (Request(t) \/ Return(t) \/ Loop(t)))
    /\ \A l \in LockIds : WF_vars(/\ aborted = "no" /\ svcLock[l].inv = 0
                                  /\ Answer(l)
                                  /\ UNCHANGED <<sess, nextId, th, aborted>>)

FairSpec == Spec /\ Fairness

-----------------------------------------------------------------------------
(***************************************************************************)
(* Properties.                                                             *)
(***************************************************************************)

\* Callbacks of handle h that are queued or in a thread's hands.
InFlight(h) == svcOut[h] \cup {th[t].cb : t \in InCallback(h)}

\* Clients that behave as the test cases do never drive the daemon into one of
\* its assertions or aborts (lck_driver.c:350, 368, 385, 406, 473, 661, 1072).
NoAbort == aborted = "no"

\* Whatever a callback's lookup by lock id or invocation goes through, it ends
\* at the session whose handle the callback was queued for, on every thread
\* that can dispatch it (lck_driver.c:219-324).
CallbackFindsItsSession ==
    \A s \in Ids, t \in Threads :
        LET h == sess[s].handle
        IN h # 0 /\ s \in Visible(t) =>
               \A cb \in InFlight(h) : SessionOf(t, cb) = s

\* A lock the library holds for a session is the one the session would unlock
\* (lck_driver.c:936-941: the lock id is forgotten only when the unlock is OK).
HeldLockIsKnown ==
    \A s \in Ids, l \in Held :
        svcLock[l].h = sess[s].handle /\ InCall(s) = {} => sess[s].lockId = l

\* A poll cannot report the answer of an earlier request while the present one
\* has none: no open error code before the open callback, no lock status before
\* the grant callback, no NO_MORE before the release callback
\* (LCKTestDriver.rb:127-188 stops polling at the first match).
PollIsNotEarly ==
    \A s \in Ids :
        LET h == sess[s].handle
            owed(kind) == \E cb \in InFlight(h) : cb.kind = kind
            asked == {l \in LockIds : svcLock[l].h = h}
        IN h # 0 =>
            /\ owed("open") => sess[s].openErr = "NONE"
            /\ owed("grant") \/ (\E l \in asked : svcLock[l].inv # 0)
                  => sess[s].lockStatus = "NONE"
            /\ owed("release") \/ (\E l \in asked : svcLock[l].st = "releasing")
                  => sess[s].lockStatus # "NO_MORE"

\* Every handle the daemon has open is held by exactly one session, so that
\* finalizing and deleting the sessions gives all of them back
\* (lck_driver.c:473 "Resource must be finalized before deletion").
HandleIsHeldOnce ==
    \A h \in Handles : Live(h) =>
        \E s \in Ids : \A u \in Ids : (sess[u].handle = h) <=> (u = s)

\* The daemon's first thread, which serves the clients that name no thread, never
\* stays in the lock library's dispatch loop (lck_driver.c:663-665, 1072-1073).
MainNeverBlocksInDispatch == th[MainThread].how # "BLOCKING"

\* Only a session on the global list can be dispatched by two threads at once:
\* a thread in saLckDispatch, or in one of its callbacks, has no company on a
\* handle that belongs to a list without a lock (lck_driver.c:53-60, 643-670).
Dispatching(t) == th[t].pc \in {"dispatch", "callback"}
LocalHandleHasOneDispatcher ==
    \A t, u \in Threads :
        t # u /\ Dispatching(t) /\ Dispatching(u) /\ th[t].h = th[u].h /\ th[t].h # 0
            => sess[th[t].s].home \notin Threads

\* When all sessions are deleted, every handle has been given back
\* (lck_driver.c:473 "Resource must be finalized before deletion").
DeletedIsFinalized ==
    (\A s \in Ids : sess[s].home = "none") => \A h \in Handles : ~Live(h)

\* A waiter callback's lock id is always known (lck_driver.c:349-350).
WaiterLockIsKnown == aborted # "unknown lock id"

\* A session on a thread's own list changes only in a step of that thread
\* (lck_driver.c:53-57: the list has no lock).
LocalSessionsStayLocal ==
    [][\A s \in Ids : sess[s].home \in Threads /\ sess'[s] # sess[s]
          => th'[sess[s].home] # th[sess[s].home]]_vars

\* A callback about lock l that the library has queued reaches its session, when
\* the session is dispatched automatically or a thread waits in saLckDispatch for
\* it, unless the handle is given up first (lck_driver.c:643-670, 1055-1136).
Watched(s) ==
    LET h == sess[s].handle
    IN \/ sess[s].home \in Threads /\ sess[s].selobj = h /\ sess[s].flags \in {"ONE", "ALL"}
       \/ \E t \in Threads : Dispatching(t) /\ th[t].h = h /\ th[t].how = "BLOCKING"
Owed(l) ==
    LET h == svcLock[l].h
    IN /\ \E s \in Ids : sess[s].handle = h /\ h # 0 /\ Watched(s)
       /\ \E cb \in InFlight(h) : cb.kind # "open" /\ cb.lock = l
CallbacksArrive == \A l \in LockIds : Owed(l) ~> ~Owed(l)
=============================================================================
