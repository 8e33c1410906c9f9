------------------------------ MODULE LckService ------------------------------
(***************************************************************************)
(* The AIS lock library as the LCK driver sees it (external: saftest tests *)
(* it, src/trunk/cases/lck/driver/lck_driver.c calls it).  One resource is *)
(* enough: the driver never relates two resources.  Every lock is EX, so a *)
(* lock is granted only while no other local one is held; holders on other *)
(* nodes are invisible, which is why a request may stay queued although no *)
(* local lock is held, and why a holder can be signalled at any time.      *)
(*                                                                         *)
(* Handles and lock ids are never handed out twice.  A resource handle is  *)
(* named by the library handle under which it was opened, and so is the    *)
(* selection object of a handle.                                           *)
(***************************************************************************)
EXTENDS Naturals

CONSTANTS
    MaxHandles,   \* bound: handles the library hands out in a run
    MaxLocks,     \* bound: lock requests made in a run
    MaxWaits,     \* bound: waiter notifications per lock
    Invocations,  \* the invocation numbers clients choose from
    UnlockFails   \* TRUE: an asynchronous unlock may fail after it was accepted

ASSUME ServiceAssumption ==
    /\ MaxHandles \in Nat /\ MaxLocks \in Nat /\ MaxWaits \in Nat
    /\ 0 \notin Invocations    \* tests use their pid
    /\ UnlockFails \in BOOLEAN

Handles == 1 .. MaxHandles
LockIds == 1 .. MaxLocks
Errors  == {"OK", "ERR"}
Results == {"GRANTED", "NOT_QUEUED"}

\* What a handle's callbacks are told.  "lock" in a grant, release or waiter
\* callback is the lock the library means; the driver is passed it in the
\* waiter callback only.
GrantCb   == [kind : {"grant"}, lock : LockIds, inv : Invocations,
              status : Results, err : Errors]
ReleaseCb == [kind : {"release"}, lock : LockIds, inv : Invocations, err : Errors]
WaiterCb  == [kind : {"waiter"}, lock : LockIds, n : 1 .. MaxWaits]
OpenCb    == [kind : {"open"}, inv : Invocations, res : Handles \cup {0}, err : Errors]
Callbacks == GrantCb \cup ReleaseCb \cup WaiterCb \cup OpenCb

LockStates == {"unused", "pending", "granted", "releasing", "gone"}
LockRecs == [st    : LockStates,
             h     : Handles \cup {0},            \* owning handle
             inv   : Invocations \cup {0},        \* of the lock request; 0: sync
             uinv  : Invocations \cup {0},        \* of the unlock in progress
             res   : Results \cup {"NONE", "ERR"}, \* the answer to a sync request
             waits : 0 .. MaxWaits]
UnusedLock == [st |-> "unused", h |-> 0, inv |-> 0, uinv |-> 0,
               res |-> "NONE", waits |-> 0]

\* A handle initialised without callbacks is "mute".
HandleStates == {"unused", "live", "mute", "dead"}

VARIABLES
    svcHandle,    \* [Handles -> HandleStates]
    svcOpen,      \* handles under which the resource is open
    svcLock,      \* [LockIds -> LockRecs]
    svcOut        \* [Handles -> callbacks waiting for saLckDispatch]

svcVars == <<svcHandle, svcOpen, svcLock, svcOut>>

ServiceTypeOK ==
    /\ svcHandle \in [Handles -> HandleStates]
    /\ svcOpen \subseteq Handles
    /\ svcLock \in [LockIds -> LockRecs]
    /\ svcOut \in [Handles -> SUBSET Callbacks]

ServiceInit ==
    /\ svcHandle = [h \in Handles |-> "unused"]
    /\ svcOpen = {}
    /\ svcLock = [l \in LockIds |-> UnusedLock]
    /\ svcOut = [h \in Handles |-> {}]

-----------------------------------------------------------------------------
\* Queries.

Live(h) == h \in Handles /\ svcHandle[h] \in {"live", "mute"}

CallsBack(h) == h \in Handles /\ svcHandle[h] = "live"

\* The callbacks saLckDispatch(h) would find.
Waiting(h) == IF h \in Handles THEN svcOut[h] ELSE {}

FreshHandle(h) ==
    /\ svcHandle[h] = "unused"
    /\ \A g \in Handles : g < h => svcHandle[g] # "unused"

FreshLock(l) ==
    /\ svcLock[l].st = "unused"
    /\ \A k \in LockIds : k < l => svcLock[k].st # "unused"

Held == {l \in LockIds : svcLock[l].st \in {"granted", "releasing"}}

\* Requests made through h that still owe an answer, or hold a lock.
LocksOf(h) == {l \in LockIds : /\ svcLock[l].h = h
                               /\ svcLock[l].st \in {"pending", "granted", "releasing"}}

-----------------------------------------------------------------------------
\* The calls, each the effect of a successful one.  A call that returns an
\* error changes none of the library's state.

saLckInitialize(h, cbs) ==
    /\ FreshHandle(h)
    /\ svcHandle' = [svcHandle EXCEPT ![h] = IF cbs THEN "live" ELSE "mute"]
    /\ UNCHANGED <<svcOpen, svcLock, svcOut>>

\* Locks and queued requests of the handles in H end with them.
EndLocks(H) ==
    svcLock' = [l \in LockIds |->
        IF svcLock[l].h \in H /\ svcLock[l].st # "unused"
        THEN [svcLock[l] EXCEPT !.st = "gone", !.inv = 0, !.uinv = 0,
                                !.res = IF svcLock[l].st = "pending" /\ svcLock[l].inv = 0
                                        THEN "ERR" ELSE @]
        ELSE svcLock[l]]

saLckFinalize(h) ==
    /\ Live(h)
    /\ svcHandle' = [svcHandle EXCEPT ![h] = "dead"]
    /\ svcOpen' = svcOpen \ {h}
    /\ EndLocks({h})
    /\ svcOut' = [svcOut EXCEPT ![h] = {}]

saLckResourceOpen(h) ==
    /\ Live(h)
    /\ svcOpen' = svcOpen \cup {h}
    /\ UNCHANGED <<svcHandle, svcLock, svcOut>>

saLckResourceOpenAsync(h, i) ==
    /\ CallsBack(h)
    /\ \E e \in Errors :
        /\ svcOpen' = IF e = "OK" THEN svcOpen \cup {h} ELSE svcOpen
        /\ svcOut' = [svcOut EXCEPT ![h] = @ \cup
                         {[kind |-> "open", inv |-> i, err |-> e,
                           res |-> IF e = "OK" THEN h ELSE 0]}]
    /\ UNCHANGED <<svcHandle, svcLock>>

saLckResourceClose(r) ==
    /\ r \in svcOpen
    /\ svcOpen' = svcOpen \ {r}
    /\ EndLocks({r})
    /\ UNCHANGED <<svcHandle, svcOut>>

\* saLckResourceLock (i = 0) and saLckResourceLockAsync: the request is queued.
QueueLock(l, r, i) ==
    /\ r \in svcOpen
    /\ i # 0 => CallsBack(r)
    /\ FreshLock(l)
    /\ svcLock' = [svcLock EXCEPT ![l] = [UnusedLock EXCEPT !.st = "pending",
                                                            !.h = r, !.inv = i]]
    /\ UNCHANGED <<svcHandle, svcOpen, svcOut>>

saLckResourceUnlock(l) ==
    /\ l \in LockIds /\ svcLock[l].st = "granted"
    /\ svcLock' = [svcLock EXCEPT ![l].st = "gone"]
    /\ UNCHANGED <<svcHandle, svcOpen, svcOut>>

saLckResourceUnlockAsync(i, l) ==
    /\ l \in LockIds /\ svcLock[l].st = "granted"
    /\ CallsBack(svcLock[l].h)
    /\ svcLock' = [svcLock EXCEPT ![l].st = "releasing", ![l].uinv = i]
    /\ UNCHANGED <<svcHandle, svcOpen, svcOut>>

\* saLckDispatch takes one callback out of the handle's queue.
TakeCallback(h, cb) ==
    /\ cb \in svcOut[h]
    /\ svcOut' = [svcOut EXCEPT ![h] = @ \ {cb}]
    /\ UNCHANGED <<svcHandle, svcOpen, svcLock>>

-----------------------------------------------------------------------------
\* What the library does by itself.

\* A queued request is answered.  A synchronous one is answered to the thread
\* that waits in saLckResourceLock, and may time out ("ERR").
Answer(l) ==
    \E r \in Results, e \in Errors :
        LET won == r = "GRANTED" /\ e = "OK"
            k   == svcLock[l]
        IN /\ k.st = "pending"
           /\ won => Held = {}
           /\ e = "ERR" => r = "NOT_QUEUED"    \* the status says nothing then
           /\ svcLock' = [svcLock EXCEPT
                            ![l].st = IF won THEN "granted" ELSE "gone",
                            ![l].inv = 0,
                            ![l].res = IF k.inv # 0 THEN "NONE"
                                       ELSE IF e = "OK" THEN r ELSE "ERR"]
           /\ svcOut' = IF k.inv = 0 THEN svcOut
                        ELSE [svcOut EXCEPT ![k.h] = @ \cup
                               {[kind |-> "grant", lock |-> l, inv |-> k.inv,
                                 status |-> r, err |-> e]}]
           /\ UNCHANGED <<svcHandle, svcOpen>>

\* An asynchronous unlock completes, or fails and leaves the lock held.
Release(l) ==
    \E e \in IF UnlockFails THEN Errors ELSE {"OK"} :
        LET k == svcLock[l]
        IN /\ k.st = "releasing"
           /\ svcLock' = [svcLock EXCEPT ![l].st = IF e = "OK" THEN "gone"
                                                   ELSE "granted",
                                         ![l].uinv = 0]
           /\ svcOut' = [svcOut EXCEPT ![k.h] = @ \cup
                            {[kind |-> "release", lock |-> l, inv |-> k.uinv,
                              err |-> e]}]
           /\ UNCHANGED <<svcHandle, svcOpen>>

\* Somebody, here or on another node, waits for a lock that is held.
Waiter(l) ==
    LET k == svcLock[l]
    IN /\ k.st = "granted"
       /\ CallsBack(k.h)
       /\ k.waits < MaxWaits
       /\ svcLock' = [svcLock EXCEPT ![l].waits = @ + 1]
       /\ svcOut' = [svcOut EXCEPT ![k.h] = @ \cup
                        {[kind |-> "waiter", lock |-> l, n |-> k.waits + 1]}]
       /\ UNCHANGED <<svcHandle, svcOpen>>
=============================================================================
