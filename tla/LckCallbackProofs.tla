--------------------------- MODULE LckCallbackProofs ---------------------------
(***************************************************************************)
(* Theorems about LckDriver with clients that behave as the test cases do, *)
(* for any number of threads, sessions, handles, locks and invocations:    *)
(* the daemon lives, every callback of the lock library is looked up to    *)
(* the session it was queued for, a session knows the lock that is held    *)
(* for it, and no poll reads the answer of an earlier request.             *)
(*                                                                         *)
(* CInv, inductive together with the IInv of LckDriverProofs, relates the  *)
(* three places that tell how far an operation on a session has come: the  *)
(* session's fields (lck_session_t), the library's lock, and the callbacks *)
(* queued for the handle or in a thread's hands.  LockFits and             *)
(* CallbackFits say which combinations there are, NamesTell that what a    *)
(* lookup compares is of one session only, RunsOnce that an answer is      *)
(* delivered once, and CallFits what is under way while the main thread is *)
(* in a call.  The lemmas of the first part say which steps leave another  *)
(* session's part of CInv alone (StillFits, OthersFit, MoveStep); then     *)
(* comes one lemma per action, and the theorems.                           *)
(***************************************************************************)
EXTENDS LckDriverProofs

\* What the theorems assume of the clients and of the library: clients keep to the
\* conventions of the test cases, and an asynchronous unlock that was accepted succeeds
\* (the lck_unlock_fails run shows what happens when it does not).
TestCases == Careful /\ ~UnlockFails

\* Sessions that hold a handle are on a list, the global one or the main thread's.
HomesOfHolders ==
    \A s \in Ids : /\ sess[s].home \in {"none", "global", MainThread}
                   /\ sess[s].home = "none" => sess[s].handle = 0

\* A session's handle is open, and an open handle is a session's.  What is not open
\* has nothing waiting.
HandlesAreHeld ==
    /\ \A s \in Ids : sess[s].handle # 0 => Live(sess[s].handle)
    /\ \A h \in Handles : Live(h) => \E s \in Ids : sess[s].handle = h
    /\ \A h \in Handles : ~Live(h) => svcOut[h] = {}

\* A session is watched only under its handle; the global one is never.
WatchedAsHeld ==
    \A s \in Ids :
        /\ sess[s].selobj # 0 => sess[s].selobj = sess[s].handle
        /\ sess[s].handle # 0 => (sess[s].flags = "BLOCKING") = (sess[s].home = "global")

\* Only the main thread calls for locks, and only for a session that has a handle; and
\* no handle is finalized while one of its callbacks runs.
ThreadsAtWork ==
    \A t \in Threads :
        /\ th[t].pc \in {"lock", "lockasync", "unlock"} =>
              t = MainThread /\ sess[th[t].s].handle # 0
        /\ th[t].l # 0 => th[t].pc \in {"lock", "lockasync", "unlock"}
        /\ th[t].pc = "callback" => Live(th[t].h)

\* The resource is open, and locks are asked for, under open handles; a session that
\* has the resource open has it open under its handle.
OpenUnderHandle ==
    /\ \A h \in svcOpen : Live(h)
    /\ \A s \in Ids : sess[s].res # 0 =>
          sess[s].res = sess[s].handle \/ svcHandle[sess[s].res] = "dead"
    /\ \A l \in LockIds :
          /\ svcLock[l].st \in {"pending", "granted", "releasing"} => svcLock[l].h \in svcOpen
          /\ svcLock[l].inv # 0 => svcLock[l].st = "pending"

\* What a callback is looked up by is of one session only.
NamesTell ==
    /\ \A s, u \in Ids : s # u =>
          /\ sess[s].openInv # 0 => sess[u].openInv # sess[s].openInv
          /\ sess[s].lockInv # 0 => sess[u].lockInv # sess[s].lockInv
          /\ sess[s].unlockInv # 0 => sess[u].unlockInv # sess[s].unlockInv
          /\ sess[s].lockId # 0 => sess[u].lockId # sess[s].lockId
    /\ \A s \in Ids : sess[s].lockId # 0 => svcLock[sess[s].lockId].st # "unused"
    /\ \A t \in Threads : th[t].pc \in {"lock", "lockasync"} =>
          \A s \in Ids : sess[s].lockId # th[t].l

\* The main thread is waiting for lock l to be given to session s.
Taking(s, l) ==
    /\ th[MainThread].pc \in {"lock", "lockasync"}
    /\ th[MainThread].s = s /\ th[MainThread].l = l

\* A session has one lock at a time, which is the one it knows or is about to know.
\* While the lock is asked for or given back no callback is under way.
LockFits(s, l) ==
    LET h == sess[s].handle
        k == svcLock[l]
    IN /\ LocksOf(h) = {l}
       /\ sess[s].lockId = l \/ Taking(s, l)
       /\ sess[s].lockStatus # "NO_MORE" \/ (Taking(s, l) /\ th[MainThread].pc = "lock")
       /\ k.st \in {"pending", "releasing"} => InFlight(h) = {}
       /\ k.st = "pending" /\ k.inv # 0 =>
             k.inv = sess[s].lockInv /\ sess[s].lockStatus = "NONE"
       /\ k.st = "releasing" => k.uinv = sess[s].unlockInv

\* A callback under way names what its session is waiting for.
CallbackFits(s, cb) ==
    LET h == sess[s].handle
    IN /\ cb.kind = "open" => /\ sess[s].openInv = cb.inv /\ sess[s].openErr = "NONE"
                              /\ cb.res \in {0, h}
       /\ cb.kind = "grant" => sess[s].lockInv = cb.inv /\ sess[s].lockStatus = "NONE"
       /\ cb.kind = "waiter" => sess[s].lockId = cb.lock
       /\ cb.kind = "release" => /\ sess[s].unlockInv = cb.inv
                                 /\ sess[s].lockStatus # "NO_MORE"
       /\ cb.kind \in {"open", "release"} => LocksOf(h) = {} /\ InFlight(h) = {cb}
       /\ cb.kind = "grant" => \A b \in InFlight(h) : b.kind = "grant" => b = cb

SessionFits(s) ==
    /\ \A l \in LocksOf(sess[s].handle) : LockFits(s, l)
    /\ \A cb \in InFlight(sess[s].handle) : CallbackFits(s, cb)
AllFits == \A s \in Ids : sess[s].handle # 0 => SessionFits(s)

\* A callback that is not about waiters runs once.
RunsOnce ==
    \A t \in Threads : th[t].pc = "callback" /\ th[t].cb.kind # "waiter" =>
        /\ th[t].cb \notin svcOut[th[t].h]
        /\ \A u \in Threads : u # t /\ th[u].pc = "callback" /\ th[u].h = th[t].h
                                 => th[u].cb # th[t].cb

\* What is under way while the main thread is in a call.
CallFits ==
    LET m == th[MainThread]
        h == sess[m.s].handle
        k == svcLock[m.l]
    IN /\ m.pc \in {"lock", "lockasync"} =>
             /\ m.l # 0 /\ k.h = h /\ k.st \in {"pending", "granted", "gone"}
             /\ LocksOf(h) \subseteq {m.l}
       /\ m.pc = "lock" =>
             /\ InFlight(h) = {} /\ k.inv = 0
             /\ k.st \in {"pending", "granted"} => k.res \in {"NONE", "GRANTED"}
       /\ m.pc = "lockasync" => \A cb \in InFlight(h) : cb.kind = "grant"
       /\ m.pc = "unlock" => InFlight(h) = {} /\ LocksOf(h) = {}

CInv ==
    /\ HomesOfHolders /\ HandlesAreHeld /\ WatchedAsHeld /\ ThreadsAtWork
    /\ OpenUnderHandle /\ NamesTell /\ AllFits /\ RunsOnce /\ CallFits /\ NoAbort

-----------------------------------------------------------------------------
\* What the types say of each part of the state.
LEMMA Fields ==
    ASSUME TypeInv
    PROVE  /\ \A s \in Ids :
                 /\ sess[s] \in Sessions
                 /\ sess[s].home \in Threads \cup {"none", "global"}
                 /\ sess[s].handle \in Handles \cup {0}
                 /\ sess[s].selobj \in Handles \cup {0}
                 /\ sess[s].flags \in Flags
                 /\ sess[s].res \in Handles \cup {0}
                 /\ sess[s].lockId \in LockIds \cup {0}
                 /\ sess[s].openInv \in Invocations \cup {0}
                 /\ sess[s].lockInv \in Invocations \cup {0}
                 /\ sess[s].unlockInv \in Invocations \cup {0}
           /\ \A h \in Handles : /\ svcHandle[h] \in HandleStates
                                 /\ svcOut[h] \subseteq Callbacks
           /\ \A l \in LockIds :
                 /\ svcLock[l] \in LockRecs
                 /\ svcLock[l].h \in Handles \cup {0}
                 /\ svcLock[l].inv \in Invocations \cup {0}
                 /\ svcLock[l].uinv \in Invocations \cup {0}
           /\ \A t \in Threads : /\ th[t] \in ThreadRecs
                                 /\ th[t].h \in Handles \cup {0}
                                 /\ th[t].l \in LockIds \cup {0}
<1>1. \A s \in Ids : sess[s] \in Sessions
  BY DEF TypeInv, TypeOK
<1>2. \A h \in Handles : svcHandle[h] \in HandleStates /\ svcOut[h] \subseteq Callbacks
  BY DEF TypeInv, TypeOK, ServiceTypeOK
<1>3. \A l \in LockIds : svcLock[l] \in LockRecs
  BY DEF TypeInv, TypeOK, ServiceTypeOK
<1>4. \A t \in Threads : th[t] \in ThreadRecs
  BY DEF TypeInv, TypeOK
<1> QED BY <1>1, <1>2, <1>3, <1>4 DEF Sessions, LockRecs, ThreadRecs

LEMMA ZeroIsNone == 0 \notin Handles /\ 0 \notin LockIds /\ 0 \notin Ids
BY DEF Handles, LockIds, Ids

\* What the sets the invariant speaks of contain.
LEMMA IsInFlight ==
    ASSUME NEW h \in Handles, NEW cb
    PROVE  cb \in InFlight(h) <=>
              \/ cb \in svcOut[h]
              \/ \E t \in Threads : th[t].pc = "callback" /\ th[t].h = h /\ th[t].cb = cb
BY DEF InFlight, InCallback

LEMMA InFlightAreCallbacks ==
    ASSUME TypeInv, NEW h \in Handles
    PROVE  InFlight(h) \subseteq Callbacks
BY Fields DEF InFlight, InCallback, TypeInv, InHand

LEMMA IsLockOf ==
    ASSUME NEW h, NEW l
    PROVE  l \in LocksOf(h) <=>
              /\ l \in LockIds /\ svcLock[l].h = h
              /\ svcLock[l].st \in {"pending", "granted", "releasing"}
BY DEF LocksOf

\* A session whose handle's locks and callbacks stay what they are.
View(s) ==
    /\ sess'[s].handle = sess[s].handle
    /\ sess'[s].openInv = sess[s].openInv /\ sess'[s].openErr = sess[s].openErr
    /\ sess'[s].lockId = sess[s].lockId /\ sess'[s].lockStatus = sess[s].lockStatus
    /\ sess'[s].lockInv = sess[s].lockInv /\ sess'[s].unlockInv = sess[s].unlockInv
SameLocks(h) ==
    /\ LocksOf(h)' = LocksOf(h)
    /\ \A l \in LocksOf(h) : /\ svcLock'[l].st = svcLock[l].st
                             /\ svcLock'[l].inv = svcLock[l].inv
                             /\ svcLock'[l].uinv = svcLock[l].uinv
SameCall(s) ==
    /\ \A l : Taking(s, l)' <=> Taking(s, l)
    /\ \A l : Taking(s, l) => th'[MainThread].pc = th[MainThread].pc

LEMMA StillFits ==
    ASSUME NEW s \in Ids, NEW h, h = sess[s].handle, SessionFits(s), View(s), SameLocks(h),
           InFlight(h)' = InFlight(h), SameCall(s)
    PROVE  SessionFits(s)'
<1>1. ASSUME NEW l \in LocksOf(h) PROVE LockFits(s, l)'
  <2>1. LockFits(s, l)
    BY DEF SessionFits
  <2>2. \A x : Taking(s, x)' <=> Taking(s, x)
    BY DEF SameCall
  <2>3. Taking(s, l) => th'[MainThread].pc = th[MainThread].pc
    BY DEF SameCall
  <2> QED BY <1>1, <2>1, <2>2, <2>3 DEF LockFits, View, SameLocks
<1>2. ASSUME NEW cb \in InFlight(h) PROVE CallbackFits(s, cb)'
  <2>1. CallbackFits(s, cb)
    BY DEF SessionFits
  <2> QED BY <1>2, <2>1 DEF CallbackFits, View, SameLocks
<1> QED BY <1>1, <1>2 DEF SessionFits, View, SameLocks

-----------------------------------------------------------------------------
\* The owner of a handle.
LEMMA OwnerOf ==
    ASSUME IInv, CInv, NEW h, Live(h)
    PROVE  /\ h \in Handles
           /\ \E s \in Ids : /\ sess[s].handle = h /\ SessionFits(s)
                             /\ \A u \in Ids : sess[u].handle = h => u = s
<1>1. h \in Handles /\ h # 0
  BY ZeroIsNone DEF Live
<1>2. PICK s \in Ids : sess[s].handle = h
  BY <1>1 DEF CInv, HandlesAreHeld
<1>3. \A u \in Ids : sess[u].handle = h => u = s
  BY <1>1, <1>2 DEF IInv, OwnInv, HandlesAreOwned
<1>4. SessionFits(s)
  BY <1>1, <1>2 DEF CInv, AllFits
<1> QED BY <1>1, <1>2, <1>3, <1>4

\* A held handle is one of the library's, and open.
LEMMA HeldIsLive ==
    ASSUME IInv, CInv, NEW s \in Ids, sess[s].handle # 0
    PROVE  sess[s].handle \in Handles /\ Live(sess[s].handle) /\ SessionFits(s)
BY Fields DEF IInv, CInv, HandlesAreHeld, AllFits

\* The resource is used under the handle it was opened under.
LEMMA OpenResIsHandle ==
    ASSUME IInv, CInv, NEW s \in Ids, sess[s].res \in svcOpen
    PROVE  sess[s].res = sess[s].handle /\ sess[s].handle # 0 /\ Live(sess[s].handle)
<1>1. Live(sess[s].res)
  BY DEF CInv, OpenUnderHandle
<1>2. sess[s].res # 0 /\ svcHandle[sess[s].res] # "dead"
  BY <1>1, ZeroIsNone DEF Live
<1> QED BY <1>1, <1>2 DEF CInv, OpenUnderHandle

LEMMA NotOpenNoLocks ==
    ASSUME CInv, NEW h, h \notin svcOpen
    PROVE  LocksOf(h) = {}
BY IsLockOf DEF CInv, OpenUnderHandle

LEMMA NotLiveNothing ==
    ASSUME CInv, NEW h \in Handles, ~Live(h)
    PROVE  LocksOf(h) = {} /\ InFlight(h) = {}
<1>1. LocksOf(h) = {}
  BY NotOpenNoLocks DEF CInv, OpenUnderHandle
<1>2. InFlight(h) = {}
  BY IsInFlight DEF CInv, HandlesAreHeld, ThreadsAtWork
<1> QED BY <1>1, <1>2

\* Nothing is under way for a quiet session.
LEMMA QuietIsEmpty ==
    ASSUME NEW s, Quiet(s), sess[s].handle \in Handles
    PROVE  InFlight(sess[s].handle) = {}
BY DEF Quiet, InFlight, Waiting

\* Each kind of steps, from what it leaves alone.
Holds(s) == /\ sess'[s].home = sess[s].home /\ sess'[s].handle = sess[s].handle
            /\ sess'[s].selobj = sess[s].selobj /\ sess'[s].flags = sess[s].flags

LEMMA HoldsKeep ==
    ASSUME IInv, CInv, \A s \in Ids : Holds(s), svcHandle' = svcHandle,
           \A h \in Handles : svcOut'[h] = svcOut[h] \/ Live(h) \/ svcOut'[h] = {}
    PROVE  HomesOfHolders' /\ HandlesAreHeld' /\ WatchedAsHeld'
<1>1. \A h : Live(h)' <=> Live(h)
  BY DEF Live
<1>2. HomesOfHolders'
  BY DEF CInv, HomesOfHolders, Holds
<1>3. HandlesAreHeld'
  BY <1>1 DEF CInv, HandlesAreHeld, Holds
<1>4. WatchedAsHeld'
  BY DEF CInv, WatchedAsHeld, Holds
<1> QED BY <1>2, <1>3, <1>4

\* Threads that stay in the call or the callback they are in, or in their loops.
LoopPcs == {"select", "serve", "check", "dispatch"}
SameWork ==
    \A t \in Threads :
        \/ /\ th'[t].pc = th[t].pc /\ th'[t].s = th[t].s /\ th'[t].l = th[t].l
           /\ th'[t].h = th[t].h /\ th'[t].cb = th[t].cb
        \/ th[t].pc \in LoopPcs /\ th'[t].pc \in LoopPcs /\ th'[t].l = 0
Running(h) == {th[t].cb : t \in InCallback(h)}

LEMMA SameWorkKeeps ==
    ASSUME SameWork
    PROVE  /\ \A s : SameCall(s)
           /\ \A h : InCallback(h)' = InCallback(h)
           /\ \A h : /\ InFlight(h) = svcOut[h] \cup Running(h)
                     /\ InFlight(h)' = svcOut'[h] \cup Running(h)
<1>1. \A s : SameCall(s)
  <2>1. MainThread \in Threads
    BY DriverAssumption
  <2> QED BY <2>1 DEF SameCall, Taking, SameWork, LoopPcs
<1>2. \A h : InCallback(h)' = InCallback(h)
  BY DEF InCallback, SameWork, LoopPcs
<1>3. ASSUME NEW h
      PROVE  /\ InFlight(h) = svcOut[h] \cup Running(h)
             /\ InFlight(h)' = svcOut'[h] \cup Running(h)
  <2>1. \A t \in InCallback(h) : th'[t].cb = th[t].cb
    BY DEF InCallback, SameWork, LoopPcs
  <2>2. {th'[t].cb : t \in InCallback(h)} = Running(h)
    BY <2>1 DEF Running
  <2> QED BY <1>2, <2>2 DEF InFlight, Running
<1> QED BY <1>1, <1>2, <1>3

LEMMA SameWorkThreads ==
    ASSUME CInv, SameWork,
           \A t \in Threads : \A h :
              th[t].pc = "callback" /\ th[t].h = h /\ Live(h) => Live(h)',
           \A t \in Threads : th[t].pc \in {"lock", "lockasync", "unlock"} =>
              sess'[th[t].s].handle = sess[th[t].s].handle
    PROVE  ThreadsAtWork'
<1> SUFFICES ASSUME NEW t \in Threads
             PROVE  /\ th'[t].pc \in {"lock", "lockasync", "unlock"} =>
                          t = MainThread /\ sess'[th'[t].s].handle # 0
                    /\ th'[t].l # 0 => th'[t].pc \in {"lock", "lockasync", "unlock"}
                    /\ th'[t].pc = "callback" => Live(th[t].h)'
  BY DEF ThreadsAtWork
<1>1. CASE th[t].pc \in LoopPcs /\ th'[t].pc \in LoopPcs /\ th'[t].l = 0
  BY <1>1 DEF LoopPcs
<1>2. CASE /\ th'[t].pc = th[t].pc /\ th'[t].s = th[t].s /\ th'[t].l = th[t].l
           /\ th'[t].h = th[t].h
  <2>1. th[t].pc = "callback" => Live(th[t].h)'
    BY <1>2 DEF CInv, ThreadsAtWork
  <2> QED BY <1>2, <2>1 DEF CInv, ThreadsAtWork
<1> QED BY <1>1, <1>2 DEF SameWork

LEMMA SameWorkRunsOnce ==
    ASSUME CInv, SameWork,
           \A t \in Threads :
              th[t].pc = "callback" /\ th[t].cb.kind # "waiter" /\ th[t].cb \notin svcOut[th[t].h]
                 => th[t].cb \notin svcOut'[th[t].h]
    PROVE  RunsOnce'
<1>1. \A t \in Threads : th'[t].pc = "callback" =>
         th[t].pc = "callback" /\ th'[t].h = th[t].h /\ th'[t].cb = th[t].cb
  BY DEF SameWork, LoopPcs
<1> QED BY <1>1 DEF CInv, RunsOnce

LEMMA SameWorkInCalls ==
    ASSUME IInv, CInv, SameWork, th[MainThread].pc \in {"lock", "lockasync", "unlock"}
    PROVE  LET m == th[MainThread]
           IN  /\ th'[MainThread].pc = m.pc /\ th'[MainThread].s = m.s
               /\ th'[MainThread].l = m.l
               /\ m.s \in Ids /\ m.l \in LockIds \cup {0}
               /\ sess[m.s].handle \in Handles /\ Live(sess[m.s].handle)
<1>1. MainThread \in Threads
  BY DriverAssumption
<1>2. th[MainThread].s \in Ids /\ th[MainThread].l \in LockIds \cup {0}
  BY <1>1, Fields DEF IInv, TypeInv, InHand
<1>3. sess[th[MainThread].s].handle # 0
  BY <1>1 DEF CInv, ThreadsAtWork
<1> QED BY <1>1, <1>2, <1>3, HeldIsLive DEF SameWork, LoopPcs

\* While the main thread is elsewhere nothing is said of calls.
LEMMA NoCall ==
    ASSUME SameWork, th[MainThread].pc \notin {"lock", "lockasync", "unlock"}
    PROVE  /\ th'[MainThread].pc \notin {"lock", "lockasync", "unlock"} /\ CallFits'
           /\ \A s, l : ~Taking(s, l) /\ ~Taking(s, l)'
<1>1. MainThread \in Threads
  BY DriverAssumption
<1>2. th'[MainThread].pc \notin {"lock", "lockasync", "unlock"}
  BY <1>1 DEF SameWork, LoopPcs
<1> QED BY <1>2 DEF CallFits, Taking

LEMMA SameCallFits ==
    ASSUME IInv, CInv, SameWork,
           \A s, h, l :
              /\ th[MainThread].pc \in {"lock", "lockasync", "unlock"}
              /\ s = th[MainThread].s /\ l = th[MainThread].l /\ h = sess[s].handle
              => /\ sess'[s].handle = h /\ svcLock'[l] = svcLock[l]
                 /\ LocksOf(h)' \subseteq LocksOf(h) /\ InFlight(h)' \subseteq InFlight(h)
    PROVE  CallFits'
<1>1. CASE th[MainThread].pc \notin {"lock", "lockasync", "unlock"}
  BY <1>1, NoCall
<1>2. CASE th[MainThread].pc \in {"lock", "lockasync", "unlock"}
  <2> DEFINE m == th[MainThread]
             h == sess[m.s].handle
  <2>1. th'[MainThread].pc = m.pc /\ th'[MainThread].s = m.s /\ th'[MainThread].l = m.l
    BY <1>2, SameWorkInCalls
  <2>2. CallFits
    BY DEF CInv
  <2>3. /\ sess'[m.s].handle = h /\ svcLock'[m.l] = svcLock[m.l]
        /\ \A x : x = h => LocksOf(x)' \subseteq LocksOf(h) /\ InFlight(x)' \subseteq InFlight(h)
    BY <1>2
  <2> QED BY <1>2, <2>1, <2>2, <2>3 DEF CallFits
<1> QED BY <1>1, <1>2

LEMMA SameOpen ==
    ASSUME CInv, UNCHANGED svcVars,
           \A s \in Ids : sess'[s].res = sess[s].res /\ sess'[s].handle = sess[s].handle
    PROVE  OpenUnderHandle'
BY DEF CInv, OpenUnderHandle, Live, svcVars

\* Steps in which threads only move in their loops, or not at all.
LEMMA MoveStep ==
    ASSUME IInv, CInv, SameWork, UNCHANGED <<sess, aborted, svcVars>>
    PROVE  CInv'
<1> USE DEF svcVars
<1>1. HomesOfHolders' /\ HandlesAreHeld' /\ WatchedAsHeld'
  BY HoldsKeep DEF Holds
<1>2. \A h : (Live(h)' <=> Live(h)) /\ InFlight(h)' = InFlight(h) /\ SameLocks(h)
  BY SameWorkKeeps DEF Live, SameLocks, LocksOf
<1>3. ThreadsAtWork'
  BY <1>2, SameWorkThreads
<1>4. OpenUnderHandle'
  BY SameOpen
<1>5. NamesTell'
  <2>1. \A t \in Threads : th'[t].pc \in {"lock", "lockasync"} =>
           th[t].pc \in {"lock", "lockasync"} /\ th'[t].l = th[t].l
    BY DEF SameWork, LoopPcs
  <2> QED BY <2>1 DEF CInv, NamesTell
<1>6. AllFits'
  <2> SUFFICES ASSUME NEW s \in Ids, sess[s].handle # 0 PROVE SessionFits(s)'
    BY DEF AllFits
  <2>1. SessionFits(s) /\ View(s) /\ SameCall(s)
    BY SameWorkKeeps DEF CInv, AllFits, View
  <2> QED BY <1>2, <2>1, StillFits
<1>7. RunsOnce'
  BY SameWorkRunsOnce
<1>8. CallFits'
  BY <1>2, SameCallFits DEF SameLocks
<1> QED BY <1>1, <1>3, <1>4, <1>5, <1>6, <1>7, <1>8 DEF CInv, NoAbort

-----------------------------------------------------------------------------
\* The requests that change nothing but threads, and the loop.
LEMMA ServedWork ==
    ASSUME IInv, NEW t \in Threads, Served(t)
    PROVE  SameWork
BY DEF IInv, TypeInv, TypeOK, ThreadRecs, Served, SameWork

LEMMA RefusedStep ==
    ASSUME IInv, CInv, NEW t \in Threads, Served(t), UNCHANGED <<sess, aborted, svcVars>>
    PROVE  CInv'
BY ServedWork, MoveStep

\* One thread goes round in its loop.
LEMMA LoopWork ==
    ASSUME NEW t \in Threads, \A u \in Threads \ {t} : th'[u] = th[u],
           th[t].pc \in LoopPcs, th'[t].pc \in LoopPcs, th'[t].l = 0
    PROVE  SameWork
BY DEF SameWork

LEMMA NoLockInHand ==
    ASSUME CInv, NEW t \in Threads, th[t].pc \in LoopPcs
    PROVE  th[t].l = 0
BY DEF CInv, ThreadsAtWork, LoopPcs

LEMMA GetWaitCountStep ==
    ASSUME TestCases, IInv, CInv, NEW t \in Threads, NEW s, GetWaitCount(t, s)
    PROVE  CInv'
BY RefusedStep DEF GetWaitCount, TestCases

LEMMA DispatchStep ==
    ASSUME TestCases, IInv, CInv, NEW t \in Threads, NEW s, Dispatch(t, s)
    PROVE  CInv'
<1>1. PICK f \in DispatchFlags :
         /\ MayDispatch(s, f, t)
         /\ IF f = "NONE" THEN Abort("dispatch none")
            ELSE IF f = "BLOCKING" /\ t = MainThread THEN Abort("blocking in main")
            ELSE /\ th' = [th EXCEPT ![t].left = @ - 1, ![t].pc = "dispatch",
                                     ![t].s = s, ![t].h = sess[s].handle,
                                     ![t].how = f, ![t].back = "serve"]
                 /\ UNCHANGED <<sess, nextId, aborted, svcVars>>
  BY DEF Dispatch
<1>2. /\ th' = [th EXCEPT ![t].left = @ - 1, ![t].pc = "dispatch",
                          ![t].s = s, ![t].h = sess[s].handle,
                          ![t].how = f, ![t].back = "serve"]
      /\ UNCHANGED <<sess, aborted, svcVars>>
  BY <1>1 DEF MayDispatch, TestCases
<1>3. th[t].pc \in LoopPcs
  BY DEF Dispatch, Serving, LoopPcs
<1>4. /\ \A u \in Threads \ {t} : th'[u] = th[u]
      /\ th'[t].pc = "dispatch" /\ th'[t].l = th[t].l
  BY <1>2 DEF IInv, TypeInv, TypeOK, ThreadRecs
<1>5. SameWork
  BY <1>3, <1>4, NoLockInHand, LoopWork DEF LoopPcs
<1> QED BY <1>2, <1>5, MoveStep

LEMMA SelectStep ==
    ASSUME IInv, CInv, NEW t \in Threads, Select(t) \/ EndServe(t) \/ DispatchReturn(t)
    PROVE  CInv'
<1>1. th[t].pc \in LoopPcs /\ UNCHANGED <<sess, aborted, svcVars>>
  BY DEF Select, EndServe, DispatchReturn, LoopPcs
<1>2. th[t].back \in {"serve", "check"}
  BY Fields DEF IInv, ThreadRecs
<1>3. /\ \A u \in Threads \ {t} : th'[u] = th[u]
      /\ th'[t].pc \in {"serve", "check"} /\ th'[t].l = th[t].l
  <2>1. CASE Select(t)
    <3>1. PICK n, ready :
            th' = [th EXCEPT ![t].pc = "serve", ![t].mask = ready, ![t].left = n]
      BY <2>1 DEF Select
    <3> QED BY <3>1 DEF IInv, TypeInv, TypeOK, ThreadRecs
  <2>2. CASE EndServe(t)
    BY <2>2 DEF EndServe, IInv, TypeInv, TypeOK, ThreadRecs
  <2>3. CASE DispatchReturn(t)
    BY <1>2, <2>3 DEF DispatchReturn, IInv, TypeInv, TypeOK, ThreadRecs
  <2> QED BY <2>1, <2>2, <2>3
<1>4. SameWork
  BY <1>1, <1>3, NoLockInHand, LoopWork DEF LoopPcs
<1> QED BY <1>1, <1>4, MoveStep

\* A session in the mask of a thread's own list is not of the blocking kind.
LEMMA CheckStep ==
    ASSUME IInv, CInv, NEW t \in Threads, Check(t)
    PROVE  CInv'
<1> DEFINE due == {s \in th[t].todo : sess[s].selobj \in th[t].mask}
           x   == FirstOf(due)
<1>1. th[t].pc = "check" /\ th[t].todo \subseteq Ids /\ th[t].mask \subseteq Handles
  BY Fields DEF Check, IInv, ThreadRecs
<1>2. CASE due = {}
  <2>1. th' = [th EXCEPT ![t] = IdleThread] /\ UNCHANGED <<sess, aborted, svcVars>>
    BY <1>2 DEF Check
  <2>2. /\ \A u \in Threads \ {t} : th'[u] = th[u]
        /\ th'[t].pc = "select" /\ th'[t].l = 0
    BY <2>1 DEF IInv, TypeInv, TypeOK, IdleThread
  <2>3. SameWork
    BY <1>1, <2>2, LoopWork DEF LoopPcs
  <2> QED BY <2>1, <2>3, MoveStep
<1>3. CASE due # {}
  <2>1. x \in due
    BY <1>1, <1>3, FirstOfIsIn
  <2>2. x \in Ids /\ x \in th[t].todo /\ sess[x].selobj # 0
    BY <1>1, <2>1, ZeroIsNone
  <2>3. sess[x].home = t
    BY <1>1, <2>2 DEF IInv, OwnInv, TodoIsLocal
  <2>4. sess[x].flags # "BLOCKING"
    BY <2>2, <2>3, DriverAssumption DEF CInv, WatchedAsHeld
  <2>5. /\ th' = [th EXCEPT ![t].pc = "dispatch", ![t].todo = @ \ {x},
                            ![t].s = x, ![t].h = sess[x].handle,
                            ![t].how = sess[x].flags, ![t].back = "check"]
        /\ UNCHANGED <<sess, aborted, svcVars>>
    BY <1>3, <2>4 DEF Check
  <2> HIDE DEF x, due
  <2>6. /\ \A u \in Threads \ {t} : th'[u] = th[u]
        /\ th'[t].pc = "dispatch" /\ th'[t].l = th[t].l
    BY <2>5 DEF IInv, TypeInv, TypeOK, ThreadRecs
  <2>7. SameWork
    BY <1>1, <2>6, NoLockInHand, LoopWork DEF LoopPcs
  <2> QED BY <2>5, <2>7, MoveStep
<1> QED BY <1>2, <1>3

-----------------------------------------------------------------------------
\* Requests to the main thread: no call is under way while it serves them.
LEMMA MainServes ==
    ASSUME TestCases, IInv, CInv, NEW t \in Threads, NEW op, Serving(t, op), op # "DISPATCH"
    PROVE  /\ t = MainThread /\ th[MainThread].pc = "serve"
           /\ \A x \in Threads : th[x].pc \notin {"lock", "lockasync", "unlock"} /\ th[x].l = 0
           /\ \A s : InCall(s) = {}
<1>1. t = MainThread /\ th[MainThread].pc = "serve"
  BY DEF Serving, TestCases
<1>2. \A x \in Threads : th[x].pc \notin {"lock", "lockasync", "unlock"}
  BY <1>1 DEF CInv, ThreadsAtWork
<1> QED BY <1>1, <1>2 DEF CInv, ThreadsAtWork, InCall

LEMMA ServedMain ==
    ASSUME TestCases, IInv, CInv, NEW t \in Threads, NEW op, Serving(t, op), op # "DISPATCH",
           Served(t)
    PROVE  /\ SameWork /\ CallFits'
           /\ \A s, l : ~Taking(s, l)
           /\ \A s : SameCall(s)
           /\ \A x \in Threads : th'[x].pc \notin {"lock", "lockasync", "unlock"}
<1>1. SameWork
  BY ServedWork
<1>2. th[MainThread].pc = "serve"
  BY MainServes
<1>3. \A x \in Threads : th[x].pc \notin {"lock", "lockasync", "unlock"}
  BY MainServes
<1>4. \A x \in Threads : th'[x].pc \notin {"lock", "lockasync", "unlock"}
  BY <1>1, <1>3 DEF SameWork, LoopPcs
<1> QED BY <1>1, <1>2, <1>4, NoCall, SameWorkKeeps

\* An invocation that no other session has still tells whose it is.
Fresh(i, s, field) == \A u \in Ids : u # s => sess[u][field] # i

LEMMA NamesKeep ==
    ASSUME IInv, CInv, NEW s \in Ids, \A u \in Ids : u # s => sess'[u] = sess[u],
           sess'[s].openInv \in {0, sess[s].openInv} \/ Fresh(sess'[s].openInv, s, "openInv"),
           sess'[s].lockInv \in {0, sess[s].lockInv} \/ Fresh(sess'[s].lockInv, s, "lockInv"),
           \/ sess'[s].unlockInv \in {0, sess[s].unlockInv}
           \/ Fresh(sess'[s].unlockInv, s, "unlockInv"),
           sess'[s].lockId \in {0, sess[s].lockId},
           \A l \in LockIds : svcLock[l].st # "unused" => svcLock'[l].st # "unused",
           \A t \in Threads, u \in Ids : th'[t].pc \in {"lock", "lockasync"} =>
              sess'[u].lockId # th'[t].l
    PROVE  NamesTell'
<1>1. ASSUME NEW u \in Ids, NEW v \in Ids, u # v
      PROVE  /\ sess'[u].openInv # 0 => sess'[v].openInv # sess'[u].openInv
             /\ sess'[u].lockInv # 0 => sess'[v].lockInv # sess'[u].lockInv
             /\ sess'[u].unlockInv # 0 => sess'[v].unlockInv # sess'[u].unlockInv
             /\ sess'[u].lockId # 0 => sess'[v].lockId # sess'[u].lockId
  <2> DEFINE Apart(a, b) == /\ sess[a].openInv # 0 => sess[b].openInv # sess[a].openInv
                            /\ sess[a].lockInv # 0 => sess[b].lockInv # sess[a].lockInv
                            /\ sess[a].unlockInv # 0 => sess[b].unlockInv # sess[a].unlockInv
                            /\ sess[a].lockId # 0 => sess[b].lockId # sess[a].lockId
  <2>1. Apart(u, v) /\ Apart(v, u)
    BY <1>1 DEF CInv, NamesTell
  <2>2. CASE u # s /\ v # s
    BY <2>1, <2>2
  <2>3. CASE u = s
    BY <1>1, <2>1, <2>3 DEF Fresh
  <2>4. CASE v = s
    BY <1>1, <2>1, <2>4 DEF Fresh
  <2> QED BY <2>2, <2>3, <2>4
<1>2. ASSUME NEW u \in Ids, sess'[u].lockId # 0
      PROVE  svcLock'[sess'[u].lockId].st # "unused"
  <2>1. sess'[u].lockId = sess[u].lockId /\ sess[u].lockId \in LockIds
    BY <1>2, Fields DEF IInv
  <2> QED BY <1>2, <2>1 DEF CInv, NamesTell
<1> QED BY <1>1, <1>2 DEF NamesTell

\* A session without a handle comes, goes, or is prepared.
LEMMA EmptySessionStep ==
    ASSUME TestCases, IInv, CInv, UNCHANGED <<aborted, svcVars>>,
           NEW t \in Threads, NEW op, Serving(t, op), op # "DISPATCH", Served(t),
           NEW s \in Ids, sess[s].handle = 0, \A u \in Ids : u # s => sess'[u] = sess[u],
           sess'[s].home \in {"none", "global", MainThread},
           sess'[s].handle = 0, sess'[s].selobj = 0, sess'[s].res \in {0, sess[s].res},
           sess'[s].openInv \in {0, sess[s].openInv},
           sess'[s].lockInv \in {0, sess[s].lockInv},
           sess'[s].unlockInv \in {0, sess[s].unlockInv},
           sess'[s].lockId \in {0, sess[s].lockId}
    PROVE  CInv'
<1> USE DEF svcVars
<1>1. /\ SameWork /\ CallFits' /\ \A u : SameCall(u)
      /\ \A x \in Threads : th'[x].pc \notin {"lock", "lockasync", "unlock"}
  BY ServedMain
<1>2. \A h : (Live(h)' <=> Live(h)) /\ InFlight(h)' = InFlight(h) /\ SameLocks(h)
  BY <1>1, SameWorkKeeps DEF Live, SameLocks, LocksOf
<1>3. \A u \in Ids : sess'[u].handle # 0 => u # s /\ sess'[u] = sess[u]
  BY DEF CInv
<1>4. HomesOfHolders'
  BY DEF CInv, HomesOfHolders
<1>5. HandlesAreHeld'
  <2>1. ASSUME NEW h \in Handles, Live(h) PROVE \E u \in Ids : sess'[u].handle = h
    <3>1. PICK u \in Ids : sess[u].handle = h
      BY <2>1 DEF CInv, HandlesAreHeld
    <3> QED BY <2>1, <3>1, ZeroIsNone
  <2> QED BY <1>2, <1>3, <2>1 DEF CInv, HandlesAreHeld
<1>6. WatchedAsHeld'
  BY <1>3 DEF CInv, WatchedAsHeld
<1>7. ThreadsAtWork'
  <2>1. \A x \in Threads : th[x].pc \notin {"lock", "lockasync", "unlock"}
    BY MainServes
  <2> QED BY <1>1, <1>2, <2>1, SameWorkThreads
<1>8. OpenUnderHandle'
  <2>1. \A u \in Ids : sess'[u].res # 0 => /\ sess'[u].res = sess[u].res
                                           /\ sess'[u].handle = sess[u].handle
    OBVIOUS
  <2> QED BY <1>2, <2>1 DEF CInv, OpenUnderHandle
<1>9. NamesTell'
  BY <1>1, NamesKeep
<1>10. AllFits'
  <2> SUFFICES ASSUME NEW u \in Ids, sess'[u].handle # 0 PROVE SessionFits(u)'
    BY DEF AllFits
  <2>1. View(u) /\ SessionFits(u)
    BY <1>3 DEF View, CInv, AllFits
  <2> QED BY <1>1, <1>2, <2>1, StillFits
<1>11. RunsOnce'
  BY <1>1, SameWorkRunsOnce
<1> QED BY <1>1, <1>4, <1>5, <1>6, <1>7, <1>8, <1>9, <1>10, <1>11 DEF CInv, NoAbort

LEMMA CreateSessionStep ==
    ASSUME TestCases, IInv, CInv, NEW t \in Threads, CreateSession(t)
    PROVE  CInv'
<1>1. /\ Serving(t, "CREATE") /\ Served(t) /\ UNCHANGED <<aborted, svcVars>>
      /\ nextId \in Ids
  BY DEF CreateSession
<1>2. PICK where \in {"global", t} :
         sess' = [sess EXCEPT ![nextId] = [NewSession EXCEPT !.home = where]]
  BY DEF CreateSession
<1> DEFINE r == [NewSession EXCEPT !.home = where]
<1>3. /\ r.home = where /\ r.handle = 0 /\ r.selobj = 0 /\ r.res = 0 /\ r.openInv = 0
      /\ r.lockInv = 0 /\ r.unlockInv = 0 /\ r.lockId = 0
  BY DEF NewSession
<1>4. sess' = [sess EXCEPT ![nextId] = r]
  BY <1>2
<1> HIDE DEF r
<1>5. sess'[nextId] = r /\ \A u \in Ids : u # nextId => sess'[u] = sess[u]
  BY <1>1, <1>4 DEF IInv, TypeInv, TypeOK
<1>6. sess[nextId].home = "none"
  BY <1>1 DEF IInv, OwnInv, IdsAreFresh, Ids
<1>7. sess[nextId].handle = 0
  BY <1>1, <1>6 DEF CInv, HomesOfHolders
<1>8. t = MainThread
  BY <1>1, MainServes
<1>9. sess'[nextId].home \in {"none", "global", MainThread}
  BY <1>3, <1>5, <1>8
<1> QED BY <1>1, <1>3, <1>5, <1>7, <1>9, EmptySessionStep

LEMMA DeleteSessionStep ==
    ASSUME TestCases, IInv, CInv, NEW t \in Threads, NEW s \in Ids, DeleteSession(t, s)
    PROVE  CInv'
<1>1. /\ Serving(t, "DELETE") /\ Served(t) /\ UNCHANGED <<aborted, svcVars>>
      /\ sess[s].handle = 0 /\ sess' = [sess EXCEPT ![s] = NewSession]
  BY DEF DeleteSession, TestCases
<1>2. sess'[s] = NewSession /\ \A u \in Ids : u # s => sess'[u] = sess[u]
  BY <1>1 DEF IInv, TypeInv, TypeOK
<1>3. /\ sess'[s].home = "none" /\ sess'[s].handle = 0 /\ sess'[s].selobj = 0
      /\ sess'[s].res = 0 /\ sess'[s].openInv = 0 /\ sess'[s].lockInv = 0
      /\ sess'[s].unlockInv = 0 /\ sess'[s].lockId = 0
  BY <1>2 DEF NewSession
<1> QED BY <1>1, <1>2, <1>3, EmptySessionStep

\* Steps about one session and one handle.
LEMMA OthersFit ==
    ASSUME IInv, CInv, NEW s \in Ids, NEW h,
           \A u \in Ids : u # s => View(u) /\ SameCall(u) /\ sess[u].handle # h,
           \A g \in Handles : g # h => InFlight(g)' = InFlight(g) /\ SameLocks(g),
           sess'[s].handle # 0 => SessionFits(s)'
    PROVE  AllFits'
<1> SUFFICES ASSUME NEW u \in Ids, u # s, sess'[u].handle # 0 PROVE SessionFits(u)'
  BY DEF AllFits
<1>1. View(u) /\ sess[u].handle # 0 /\ SameCall(u)
  BY DEF View
<1>2. sess[u].handle \in Handles /\ SessionFits(u)
  BY <1>1, HeldIsLive
<1> QED BY <1>1, <1>2, StillFits

LEMMA SelectionObjectGetStep ==
    ASSUME TestCases, IInv, CInv, NEW t \in Threads, NEW s \in Ids, SelectionObjectGet(t, s)
    PROVE  CInv'
<1> USE DEF svcVars
<1>1. /\ Serving(t, "SELECTION_OBJECT_GET") /\ Served(t) /\ UNCHANGED <<aborted, svcVars>>
  BY DEF SelectionObjectGet
<1>2. /\ SameWork /\ CallFits' /\ \A u : SameCall(u)
      /\ \A x \in Threads : th'[x].pc \notin {"lock", "lockasync", "unlock"}
  BY <1>1, ServedMain
<1>3. \A h : (Live(h)' <=> Live(h)) /\ InFlight(h)' = InFlight(h) /\ SameLocks(h)
  BY <1>1, <1>2, SameWorkKeeps DEF Live, SameLocks, LocksOf
<1>4. \A u \in Ids :
         /\ View(u) /\ sess'[u].home = sess[u].home /\ sess'[u].flags = sess[u].flags
         /\ sess'[u].res = sess[u].res
         /\ sess'[u].selobj \in {sess[u].selobj, sess[u].handle}
  BY DEF SelectionObjectGet, View, IInv, TypeInv, TypeOK, Sessions
<1>5. HomesOfHolders' /\ HandlesAreHeld'
  BY <1>1, <1>3, <1>4 DEF CInv, HomesOfHolders, HandlesAreHeld, View
<1>6. WatchedAsHeld'
  BY <1>4 DEF CInv, WatchedAsHeld, View
<1>7. ThreadsAtWork'
  <2>1. \A x \in Threads : th[x].pc \notin {"lock", "lockasync", "unlock"}
    BY <1>1, MainServes
  <2> QED BY <1>2, <1>3, <2>1, SameWorkThreads
<1>8. OpenUnderHandle'
  BY <1>1, <1>4, SameOpen DEF View
<1>9. NamesTell'
  BY <1>1, <1>2, <1>4 DEF CInv, NamesTell, View
<1>10. AllFits'
  <2> SUFFICES ASSUME NEW u \in Ids, sess'[u].handle # 0 PROVE SessionFits(u)'
    BY DEF AllFits
  <2>1. View(u) /\ SessionFits(u)
    BY <1>4 DEF View, CInv, AllFits
  <2> QED BY <1>2, <1>3, <2>1, StillFits
<1>11. RunsOnce'
  BY <1>1, <1>2, SameWorkRunsOnce
<1> QED BY <1>1, <1>2, <1>5, <1>6, <1>7, <1>8, <1>9, <1>10, <1>11 DEF CInv, NoAbort

\* A fresh handle is nobody's, and nothing is under way for it.
LEMMA FreshIsEmpty ==
    ASSUME IInv, CInv, NEW h \in Handles, FreshHandle(h)
    PROVE  /\ h # 0 /\ ~Live(h) /\ LocksOf(h) = {} /\ InFlight(h) = {} /\ svcOut[h] = {}
           /\ \A s \in Ids : sess[s].handle # h
           /\ \A t \in Threads : th[t].pc = "callback" => th[t].h # h
<1>1. h # 0 /\ ~Live(h)
  BY ZeroIsNone DEF FreshHandle, Live
<1>2. \A s \in Ids : sess[s].handle # h
  BY <1>1, HeldIsLive
<1>3. \A t \in Threads : th[t].pc = "callback" => th[t].h # h
  BY <1>1 DEF CInv, ThreadsAtWork
<1> QED BY <1>1, <1>2, <1>3, NotLiveNothing DEF CInv, HandlesAreHeld

LEMMA OpenedStep ==
    ASSUME TestCases, IInv, CInv, NEW t \in Threads, NEW s \in Visible(t), NEW f, NEW cbs,
           NEW h \in Handles,
           Serving(t, "INITIALIZE"), Served(t), aborted' = aborted,
           MayInitialize(s, f), saLckInitialize(h, cbs),
           sess' = [sess EXCEPT ![s].handle = h, ![s].flags = f, ![s].cbs = cbs]
    PROVE  CInv'
<1>1. s \in Ids /\ sess[s].home \in {t, "global"} /\ t = MainThread
  BY SeenIsOld, MainServes
<1>2. sess[s].handle = 0 /\ ((f = "BLOCKING") = (sess[s].home = "global"))
  BY DEF MayInitialize, TestCases
<1>3. /\ sess'[s].home = sess[s].home /\ sess'[s].handle = h /\ sess'[s].flags = f
      /\ sess'[s].selobj = sess[s].selobj /\ sess'[s].res = sess[s].res
      /\ sess'[s].openInv = sess[s].openInv /\ sess'[s].lockInv = sess[s].lockInv
      /\ sess'[s].unlockInv = sess[s].unlockInv /\ sess'[s].lockId = sess[s].lockId
      /\ \A u \in Ids : u # s => sess'[u] = sess[u]
  BY <1>1 DEF IInv, TypeInv, TypeOK, Sessions
<1>4. /\ FreshHandle(h) /\ svcHandle'[h] \in {"live", "mute"}
      /\ \A g \in Handles : g # h => svcHandle'[g] = svcHandle[g]
      /\ UNCHANGED <<svcOpen, svcLock, svcOut>>
  BY DEF saLckInitialize, IInv, TypeInv, TypeOK, ServiceTypeOK
<1>5. /\ h # 0 /\ ~Live(h) /\ LocksOf(h) = {} /\ InFlight(h) = {} /\ svcOut[h] = {}
      /\ \A u \in Ids : sess[u].handle # h
      /\ \A x \in Threads : th[x].pc = "callback" => th[x].h # h
  BY <1>4, FreshIsEmpty
<1>6. /\ SameWork /\ CallFits' /\ \A u : SameCall(u)
      /\ \A x \in Threads : th'[x].pc \notin {"lock", "lockasync", "unlock"}
  BY ServedMain
<1>7. /\ \A g : Live(g)' <=> Live(g) \/ g = h
      /\ \A g : InFlight(g)' = InFlight(g) /\ SameLocks(g)
  BY <1>4, <1>6, SameWorkKeeps DEF Live, SameLocks, LocksOf
<1>8. HomesOfHolders'
  <2>1. sess'[s].home \in {"global", MainThread} /\ "none" # MainThread
    BY <1>1, <1>3, DriverAssumption
  <2> QED BY <1>3, <2>1 DEF CInv, HomesOfHolders
<1>9. HandlesAreHeld'
  <2>1. ASSUME NEW g \in Handles, Live(g)' PROVE \E u \in Ids : sess'[u].handle = g
    <3>1. CASE g = h
      BY <1>1, <1>3, <3>1
    <3>2. CASE g # h
      <4>1. PICK u \in Ids : sess[u].handle = g
        BY <1>7, <2>1, <3>2 DEF CInv, HandlesAreHeld
      <4> QED BY <1>2, <1>3, <4>1, ZeroIsNone
    <3> QED BY <3>1, <3>2
  <2>2. \A u \in Ids : sess'[u].handle # 0 => Live(sess[u].handle)'
    <3>1. \A u \in Ids : u # s /\ sess[u].handle # 0 => Live(sess[u].handle)
      BY DEF CInv, HandlesAreHeld
    <3> QED BY <1>3, <1>7, <3>1
  <2>3. \A g \in Handles : ~Live(g)' => svcOut'[g] = {}
    BY <1>4, <1>7 DEF CInv, HandlesAreHeld
  <2> QED BY <2>1, <2>2, <2>3 DEF HandlesAreHeld
<1>10. WatchedAsHeld'
  <2>1. sess[s].selobj = 0
    BY <1>1, <1>2 DEF CInv, WatchedAsHeld
  <2>2. ASSUME NEW u \in Ids
        PROVE  /\ sess'[u].selobj # 0 => sess'[u].selobj = sess'[u].handle
               /\ sess'[u].handle # 0 =>
                     (sess'[u].flags = "BLOCKING") = (sess'[u].home = "global")
    <3>1. CASE u = s
      BY <1>2, <1>3, <2>1, <3>1
    <3>2. CASE u # s
      <4>1. sess'[u] = sess[u]
        BY <1>3, <3>2
      <4> QED BY <4>1 DEF CInv, WatchedAsHeld
    <3> QED BY <3>1, <3>2
  <2> QED BY <2>2 DEF WatchedAsHeld
<1>11. ThreadsAtWork'
  <2>1. \A x \in Threads : th[x].pc \notin {"lock", "lockasync", "unlock"}
    BY MainServes
  <2> QED BY <1>6, <1>7, <2>1, SameWorkThreads
<1>12. OpenUnderHandle'
  <2>1. \A u \in Ids : sess'[u].res # 0 =>
           sess'[u].res = sess'[u].handle \/ svcHandle'[sess'[u].res] = "dead"
    <3>1. \A u \in Ids : sess[u].res # 0 =>
             sess[u].res = sess[u].handle \/ svcHandle[sess[u].res] = "dead"
      BY DEF CInv, OpenUnderHandle
    <3>2. svcHandle[h] # "dead"
      BY <1>4 DEF FreshHandle
    <3>3. \A u \in Ids : sess[u].res \in Handles \cup {0}
      BY Fields DEF IInv
    <3>4. ASSUME NEW u \in Ids, svcHandle[sess[u].res] = "dead", sess[u].res # 0
          PROVE  svcHandle'[sess[u].res] = "dead"
      <4>1. sess[u].res \in Handles /\ sess[u].res # h
        BY <3>2, <3>3, <3>4
      <4>2. \A g \in Handles : g # h => svcHandle'[g] = svcHandle[g]
        BY <1>4
      <4> QED BY <3>4, <4>1, <4>2
    <3> QED BY ZenonT(60), <1>2, <1>3, <3>1, <3>4
  <2> QED BY <1>4, <1>7, <2>1 DEF CInv, OpenUnderHandle
<1>13. NamesTell'
  BY <1>1, <1>3, <1>4, <1>6, NamesKeep
<1>14. AllFits'
  <2>1. SessionFits(s)'
    <3>1. sess'[s].handle = h /\ LocksOf(h)' = {} /\ InFlight(h)' = {}
      BY <1>3, <1>5, <1>7 DEF SameLocks
    <3> QED BY <3>1 DEF SessionFits
  <2>2. \A u \in Ids : u # s => View(u)
    BY <1>3 DEF View
  <2> QED BY <1>1, <1>5, <1>6, <1>7, <2>1, <2>2, OthersFit
<1>15. RunsOnce'
  BY <1>4, <1>6, SameWorkRunsOnce
<1> QED BY <1>6, <1>8, <1>9, <1>10, <1>11, <1>12, <1>13, <1>14, <1>15 DEF CInv, NoAbort

LEMMA InitializeStep ==
    ASSUME TestCases, IInv, CInv, NEW t \in Threads, NEW s \in Visible(t), Initialize(t, s)
    PROVE  CInv'
<1>1. PICK f \in DispatchFlags, cbs \in BOOLEAN :
         /\ MayInitialize(s, f)
         /\ \/ \E h \in Handles :
                 /\ saLckInitialize(h, cbs)
                 /\ sess' = [sess EXCEPT ![s].handle = h, ![s].flags = f,
                                         ![s].cbs = cbs]
            \/ /\ Refused
               /\ sess' = [sess EXCEPT ![s].flags = f, ![s].cbs = cbs]
  BY DEF Initialize
<1>2. Serving(t, "INITIALIZE") /\ Served(t) /\ aborted' = aborted
  BY DEF Initialize
<1>3. ASSUME NEW h \in Handles, saLckInitialize(h, cbs),
             sess' = [sess EXCEPT ![s].handle = h, ![s].flags = f, ![s].cbs = cbs]
      PROVE  CInv'
  BY <1>1, <1>2, <1>3, OpenedStep
<1>4. CASE Refused /\ sess' = [sess EXCEPT ![s].flags = f, ![s].cbs = cbs]
  <2>1. s \in Ids
    BY SeenIsOld
  <2>2. sess[s].handle = 0 /\ UNCHANGED svcVars
    BY <1>1, <1>4 DEF MayInitialize, TestCases, Refused
  <2>3. /\ sess'[s].home = sess[s].home /\ sess'[s].handle = 0
        /\ sess'[s].selobj = sess[s].selobj /\ sess'[s].res = sess[s].res
        /\ sess'[s].openInv = sess[s].openInv /\ sess'[s].lockInv = sess[s].lockInv
        /\ sess'[s].unlockInv = sess[s].unlockInv /\ sess'[s].lockId = sess[s].lockId
        /\ \A u \in Ids : u # s => sess'[u] = sess[u]
    BY <1>4, <2>1, <2>2 DEF IInv, TypeInv, TypeOK, Sessions
  <2>4. sess[s].selobj = 0 /\ sess[s].home \in {"none", "global", MainThread}
    BY <2>1, <2>2 DEF CInv, WatchedAsHeld, HomesOfHolders
  <2> QED BY <1>2, <2>1, <2>2, <2>3, <2>4, EmptySessionStep
<1> QED BY <1>1, <1>3, <1>4

\* What is left of the locks of a handle that is finalized, or a resource closed.
Ended(h) ==
    /\ LocksOf(h)' = {}
    /\ \A g : g # h => SameLocks(g)
    /\ \A l \in LockIds :
          /\ svcLock[l].st # "unused" => svcLock'[l].st # "unused"
          /\ svcLock'[l].st \in {"pending", "granted", "releasing"} =>
                svcLock'[l] = svcLock[l] /\ svcLock[l].h # h
          /\ svcLock'[l].inv # 0 => svcLock'[l].st = "pending"

LEMMA EndedLocks ==
    ASSUME IInv, CInv, NEW h, EndLocks({h})
    PROVE  Ended(h)
<1>1. ASSUME NEW l \in LockIds
      PROVE  /\ svcLock[l].h # h => svcLock'[l] = svcLock[l]
             /\ svcLock[l].h = h /\ svcLock[l].st # "unused" =>
                   svcLock'[l].st = "gone" /\ svcLock'[l].inv = 0
             /\ svcLock[l].h = h /\ svcLock[l].st = "unused" => svcLock'[l] = svcLock[l]
             /\ svcLock'[l].h = svcLock[l].h
  <2>1. svcLock[l] \in LockRecs
    BY Fields DEF IInv
  <2> QED BY <2>1 DEF EndLocks, LockRecs
<1>2. \A l \in LockIds : svcLock[l].inv # 0 => svcLock[l].st = "pending"
  BY DEF CInv, OpenUnderHandle
<1>3. LocksOf(h)' = {}
  BY <1>1 DEF LocksOf
<1>4. \A g : g # h => SameLocks(g)
  BY <1>1 DEF SameLocks, LocksOf
<1> QED BY <1>1, <1>2, <1>3, <1>4 DEF Ended

LEMMA FinalizedStep ==
    ASSUME TestCases, IInv, CInv, NEW t \in Threads, NEW s \in Ids, NEW h,
           Serving(t, "FINALIZE"), Served(t), aborted' = aborted,
           MayEnd(s), h = sess[s].handle, saLckFinalize(h),
           sess' = [sess EXCEPT ![s].handle = 0, ![s].selobj = 0]
    PROVE  CInv'
<1>1. /\ sess'[s].home = sess[s].home /\ sess'[s].handle = 0 /\ sess'[s].flags = sess[s].flags
      /\ sess'[s].selobj = 0 /\ sess'[s].res = sess[s].res
      /\ sess'[s].openInv = sess[s].openInv /\ sess'[s].lockInv = sess[s].lockInv
      /\ sess'[s].unlockInv = sess[s].unlockInv /\ sess'[s].lockId = sess[s].lockId
      /\ \A u \in Ids : u # s => sess'[u] = sess[u]
  BY DEF IInv, TypeInv, TypeOK, Sessions
<1>2. /\ Live(h) /\ h \in Handles /\ h # 0 /\ svcHandle'[h] = "dead" /\ svcOut'[h] = {}
      /\ \A g \in Handles : g # h => svcHandle'[g] = svcHandle[g] /\ svcOut'[g] = svcOut[g]
      /\ svcOpen' = svcOpen \ {h} /\ EndLocks({h})
  BY ZeroIsNone DEF saLckFinalize, Live, IInv, TypeInv, TypeOK, ServiceTypeOK
<1>3. \A x \in Threads : th[x].pc = "callback" => th[x].h # h
  BY DEF MayEnd, TestCases, InCallback
<1>4. \A u \in Ids : u # s => sess[u].handle # h
  BY <1>2 DEF IInv, OwnInv, HandlesAreOwned
<1>5. /\ LocksOf(h)' = {} /\ \A g : g # h => SameLocks(g)
      /\ \A l \in LockIds :
            /\ svcLock[l].st # "unused" => svcLock'[l].st # "unused"
            /\ svcLock'[l].st \in {"pending", "granted", "releasing"} =>
                  svcLock'[l] = svcLock[l] /\ svcLock[l].h # h
            /\ svcLock'[l].inv # 0 => svcLock'[l].st = "pending"
  <2>1. Ended(h)
    BY <1>2, EndedLocks
  <2> QED BY <2>1 DEF Ended
<1>6. /\ SameWork /\ CallFits' /\ \A u : SameCall(u)
      /\ \A x \in Threads : th'[x].pc \notin {"lock", "lockasync", "unlock"}
  BY ServedMain
<1>7. /\ \A g : g # h => (Live(g)' <=> Live(g))
      /\ ~Live(h)'
      /\ \A g \in Handles : g # h => InFlight(g)' = InFlight(g)
  BY <1>2, <1>6, SameWorkKeeps DEF Live
<1>8. HomesOfHolders'
  BY <1>1 DEF CInv, HomesOfHolders
<1>9. HandlesAreHeld'
  <2>1. ASSUME NEW g \in Handles, Live(g)' PROVE \E u \in Ids : sess'[u].handle = g
    <3>1. g # h
      BY <1>7, <2>1
    <3>2. PICK u \in Ids : sess[u].handle = g
      BY <1>7, <2>1, <3>1 DEF CInv, HandlesAreHeld
    <3> QED BY <1>1, <3>1, <3>2
  <2>2. \A u \in Ids : sess'[u].handle # 0 => Live(sess'[u].handle)
    BY <1>1 DEF CInv, HandlesAreHeld
  <2>3. ASSUME NEW u \in Ids, NEW g, g = sess'[u].handle, g # 0 PROVE Live(g)'
    BY <1>1, <1>4, <1>7, <2>2, <2>3
  <2>4. \A g \in Handles : ~Live(g)' => svcOut'[g] = {}
    BY <1>2, <1>7 DEF CInv, HandlesAreHeld
  <2> QED BY <2>1, <2>3, <2>4 DEF HandlesAreHeld
<1>10. WatchedAsHeld'
  <2>1. ASSUME NEW u \in Ids
        PROVE  /\ sess'[u].selobj # 0 => sess'[u].selobj = sess'[u].handle
               /\ sess'[u].handle # 0 =>
                     (sess'[u].flags = "BLOCKING") = (sess'[u].home = "global")
    <3>1. CASE u = s
      BY <1>1, <3>1
    <3>2. CASE u # s
      <4>1. sess'[u] = sess[u]
        BY <1>1, <3>2
      <4> QED BY <4>1 DEF CInv, WatchedAsHeld
    <3> QED BY <3>1, <3>2
  <2> QED BY <2>1 DEF WatchedAsHeld
<1>11. ThreadsAtWork'
  <2>1. \A x \in Threads : th[x].pc \notin {"lock", "lockasync", "unlock"}
    BY MainServes
  <2> QED BY <1>3, <1>6, <1>7, <2>1, SameWorkThreads
<1>12. OpenUnderHandle'
  <2>1. ASSUME NEW u \in Ids, sess'[u].res # 0
        PROVE  sess'[u].res = sess'[u].handle \/ svcHandle'[sess'[u].res] = "dead"
    <3>1. sess'[u].res = sess[u].res /\ sess[u].res \in Handles
      BY <1>1, <2>1, Fields DEF IInv
    <3>2. sess[u].res = sess[u].handle \/ svcHandle[sess[u].res] = "dead"
      BY <2>1, <3>1 DEF CInv, OpenUnderHandle
    <3>3. svcHandle[sess[u].res] = "dead" => svcHandle'[sess[u].res] = "dead"
      <4>1. /\ svcHandle'[h] = "dead"
            /\ \A g \in Handles : g # h => svcHandle'[g] = svcHandle[g]
        BY <1>2
      <4> QED BY <3>1, <4>1
    <3> QED BY <1>1, <1>2, <3>1, <3>2, <3>3
  <2>2. \A g \in svcOpen' : Live(g)'
    BY <1>2, <1>7 DEF CInv, OpenUnderHandle
  <2>3. ASSUME NEW l \in LockIds, svcLock'[l].st \in {"pending", "granted", "releasing"}
        PROVE  svcLock'[l].h \in svcOpen'
    BY <1>2, <1>5, <2>3 DEF CInv, OpenUnderHandle
  <2> QED BY <1>5, <2>1, <2>2, <2>3 DEF OpenUnderHandle
<1>13. NamesTell'
  BY <1>1, <1>5, <1>6, NamesKeep
<1>14. AllFits'
  <2>1. \A u \in Ids : u # s => View(u)
    BY <1>1 DEF View
  <2> QED BY <1>1, <1>4, <1>5, <1>6, <1>7, <2>1, OthersFit
<1>15. RunsOnce'
  <2>1. \A x \in Threads : th[x].pc = "callback" => th[x].h \in Handles
    BY DEF CInv, ThreadsAtWork, Live
  <2> QED BY <1>2, <1>3, <1>6, <2>1, SameWorkRunsOnce
<1> QED BY <1>6, <1>8, <1>9, <1>10, <1>11, <1>12, <1>13, <1>14, <1>15 DEF CInv, NoAbort

LEMMA FinalizeStep ==
    ASSUME TestCases, IInv, CInv, NEW t \in Threads, NEW s \in Ids, Finalize(t, s)
    PROVE  CInv'
<1>1. /\ Serving(t, "FINALIZE") /\ MayEnd(s) /\ Served(t) /\ aborted' = aborted
      /\ sess' = [sess EXCEPT ![s].handle = 0, ![s].selobj = 0]
  BY DEF Finalize
<1>2. CASE saLckFinalize(sess[s].handle)
  BY <1>1, <1>2, FinalizedStep
<1>3. CASE ~Live(sess[s].handle) /\ UNCHANGED svcVars
  <2>1. sess[s].handle = 0
    BY <1>3, HeldIsLive
  <2>2. /\ sess'[s].home = sess[s].home /\ sess'[s].handle = 0 /\ sess'[s].selobj = 0
        /\ sess'[s].res = sess[s].res
        /\ sess'[s].openInv = sess[s].openInv /\ sess'[s].lockInv = sess[s].lockInv
        /\ sess'[s].unlockInv = sess[s].unlockInv /\ sess'[s].lockId = sess[s].lockId
        /\ \A u \in Ids : u # s => sess'[u] = sess[u]
    BY <1>1 DEF IInv, TypeInv, TypeOK, Sessions
  <2>3. sess[s].home \in {"none", "global", MainThread}
    BY DEF CInv, HomesOfHolders
  <2> QED BY <1>1, <1>3, <2>1, <2>2, <2>3, EmptySessionStep
<1> QED BY <1>2, <1>3 DEF Finalize, TestCases

\* Requests that concern the locks and callbacks of one session, and return at once.
LEMMA ServedHandleStep ==
    ASSUME TestCases, IInv, CInv, NEW t \in Threads, NEW op, Serving(t, op), op # "DISPATCH",
           Served(t), aborted' = aborted, svcHandle' = svcHandle,
           NEW s \in Ids, NEW h, h = sess[s].handle, \A u \in Ids : Holds(u),
           \A u \in Ids : u # s => sess'[u] = sess[u],
           \A g \in Handles : g # h => svcOut'[g] = svcOut[g],
           \A g : g # h /\ g # 0 => SameLocks(g),
           h = 0 => svcOut' = svcOut /\ SameLocks(0),
           h # 0 => svcOut'[h] = svcOut[h] \/ InCallback(h) = {},
           OpenUnderHandle', NamesTell', h # 0 => SessionFits(s)'
    PROVE  CInv'
<1>1. /\ SameWork /\ CallFits' /\ \A u : SameCall(u)
      /\ \A x \in Threads : th'[x].pc \notin {"lock", "lockasync", "unlock"}
  BY ServedMain
<1>2. h # 0 => h \in Handles /\ Live(h)
  BY HeldIsLive
<1>3. \A g : Live(g)' <=> Live(g)
  BY DEF Live
<1>4. HomesOfHolders' /\ HandlesAreHeld' /\ WatchedAsHeld'
  BY <1>2, HoldsKeep
<1>5. ThreadsAtWork'
  <2>1. \A x \in Threads : th[x].pc \notin {"lock", "lockasync", "unlock"}
    BY MainServes
  <2> QED BY <1>1, <1>3, <2>1, SameWorkThreads
<1>6. AllFits'
  <2>1. \A u \in Ids : u # s => View(u) /\ SameCall(u)
    BY <1>1 DEF View
  <2>2. \A g \in Handles : g # h => InFlight(g)' = InFlight(g) /\ SameLocks(g)
    BY <1>1, SameWorkKeeps, ZeroIsNone
  <2>3. sess'[s].handle = h
    BY DEF Holds
  <2>4. CASE h # 0
    <3>1. \A u \in Ids : u # s => sess[u].handle # h
      BY <2>4 DEF IInv, OwnInv, HandlesAreOwned
    <3> QED BY <2>1, <2>2, <2>3, <2>4, <3>1, OthersFit
  <2>5. CASE h = 0
    <3> SUFFICES ASSUME NEW u \in Ids, u # s, sess'[u].handle # 0 PROVE SessionFits(u)'
      BY <2>3, <2>5 DEF AllFits
    <3>1. sess[u].handle \in Handles /\ SessionFits(u) /\ sess[u].handle # 0
      BY HeldIsLive
    <3> QED BY <2>1, <2>2, <2>5, <3>1, StillFits
  <2> QED BY <2>4, <2>5
<1>7. RunsOnce'
  <2>1. \A x \in Threads : th[x].pc = "callback" => th[x].h \in Handles
    BY DEF CInv, ThreadsAtWork, Live
  <2>2. ASSUME NEW x \in Threads, th[x].pc = "callback", th[x].cb \notin svcOut[th[x].h]
        PROVE  th[x].cb \notin svcOut'[th[x].h]
    <3>1. CASE th[x].h = h
      BY <2>1, <2>2, <3>1, ZeroIsNone DEF InCallback
    <3>2. CASE th[x].h # h
      BY <2>1, <2>2, <3>2
    <3> QED BY <3>1, <3>2
  <2> QED BY <1>1, <2>2, SameWorkRunsOnce
<1> QED BY <1>1, <1>4, <1>5, <1>6, <1>7 DEF CInv, NoAbort

LEMMA SameServiceLocks ==
    ASSUME svcLock' = svcLock
    PROVE  \A g : SameLocks(g)
BY DEF SameLocks, LocksOf

LEMMA ResourceOpenStep ==
    ASSUME TestCases, IInv, CInv, NEW t \in Threads, NEW s \in Ids, ResourceOpen(t, s)
    PROVE  CInv'
<1>1. Serving(t, "OPEN") /\ Served(t) /\ aborted' = aborted
  BY DEF ResourceOpen
<1>0. PICK h : h = sess[s].handle
  OBVIOUS
<1>2. CASE Refused /\ UNCHANGED sess
  BY <1>0, <1>1, <1>2, RefusedStep DEF Refused
<1>3. CASE saLckResourceOpen(h) /\ sess' = [sess EXCEPT ![s].res = h]
  <2>1. /\ Live(h) /\ h # 0 /\ svcOpen' = svcOpen \cup {h}
        /\ UNCHANGED <<svcHandle, svcLock, svcOut>>
    BY <1>3, ZeroIsNone DEF saLckResourceOpen, Live
  <2>2. /\ \A u \in Ids : Holds(u) /\ View(u)
        /\ sess'[s].res = h /\ \A u \in Ids : u # s => sess'[u] = sess[u]
    BY <1>3 DEF IInv, TypeInv, TypeOK, Sessions, Holds, View
  <2>3. \A g : (Live(g)' <=> Live(g)) /\ SameLocks(g)
    BY <1>0, <2>1, SameServiceLocks DEF Live
  <2>4. OpenUnderHandle'
    <3>1. \A u \in Ids : sess'[u].res # 0 =>
             sess'[u].res = sess'[u].handle \/ svcHandle'[sess'[u].res] = "dead"
      BY <1>0, <2>1, <2>2 DEF CInv, OpenUnderHandle, Holds
    <3> QED BY <1>0, <2>1, <2>3, <3>1 DEF CInv, OpenUnderHandle
  <2>5. /\ SameWork /\ \A u : SameCall(u)
        /\ \A x \in Threads : th'[x].pc \notin {"lock", "lockasync", "unlock"}
    BY <1>1, ServedMain
  <2>6. NamesTell'
    BY <1>0, <2>1, <2>2, <2>5 DEF CInv, NamesTell, View
  <2>7. SessionFits(s)'
    <3>1. InFlight(h)' = InFlight(h)
      BY <1>0, <2>1, <2>5, SameWorkKeeps
    <3>2. SessionFits(s)
      BY <1>0, <2>1 DEF CInv, AllFits
    <3> QED BY <1>0, <2>2, <2>3, <2>5, <3>1, <3>2, StillFits
  <2>8. \A u \in Ids : Holds(u)
    BY <2>2
  <2>9. UNCHANGED <<svcHandle, svcOut>> /\ \A u \in Ids : u # s => sess'[u] = sess[u]
    BY <2>1, <2>2
  <2> QED BY <1>0, <1>1, <2>3, <2>4, <2>6, <2>7, <2>8, <2>9, ServedHandleStep
<1> QED BY <1>0, <1>2, <1>3 DEF ResourceOpen

LEMMA ResourceCloseStep ==
    ASSUME TestCases, IInv, CInv, NEW t \in Threads, NEW s \in Ids, ResourceClose(t, s)
    PROVE  CInv'
<1>1. Serving(t, "CLOSE") /\ Served(t) /\ aborted' = aborted /\ sess' = sess /\ MayEnd(s)
  BY DEF ResourceClose
<1>0. PICK h : h = sess[s].handle
  OBVIOUS
<1>2. CASE Refused
  BY <1>0, <1>1, <1>2, RefusedStep DEF Refused
<1>3. CASE saLckResourceClose(sess[s].res)
  <2>1. sess[s].res = h /\ h # 0 /\ Live(h)
    BY <1>0, <1>3, OpenResIsHandle DEF saLckResourceClose
  <2>2. svcOpen' = svcOpen \ {h} /\ EndLocks({h}) /\ UNCHANGED <<svcHandle, svcOut>>
    BY <1>3, <2>1 DEF saLckResourceClose
  <2>3. /\ LocksOf(h)' = {} /\ \A g : g # h => SameLocks(g)
        /\ \A l \in LockIds :
              /\ svcLock[l].st # "unused" => svcLock'[l].st # "unused"
              /\ svcLock'[l].st \in {"pending", "granted", "releasing"} =>
                    svcLock'[l] = svcLock[l] /\ svcLock[l].h # h
              /\ svcLock'[l].inv # 0 => svcLock'[l].st = "pending"
    <3>1. Ended(h)
      BY <2>2, EndedLocks
    <3> QED BY <3>1 DEF Ended
  <2>4. \A u \in Ids : Holds(u)
    BY <1>1 DEF Holds
  <2>5. OpenUnderHandle'
    <3>1. \A g : Live(g)' <=> Live(g)
      BY <1>0, <2>2 DEF Live
    <3>2. ASSUME NEW l \in LockIds, svcLock'[l].st \in {"pending", "granted", "releasing"}
          PROVE  svcLock'[l].h \in svcOpen'
      BY <1>0, <2>2, <2>3, <3>2 DEF CInv, OpenUnderHandle
    <3> QED BY <1>0, <1>1, <2>2, <2>3, <3>1, <3>2 DEF CInv, OpenUnderHandle
  <2>6. /\ SameWork /\ \A u : SameCall(u)
        /\ \A x \in Threads : th'[x].pc \notin {"lock", "lockasync", "unlock"}
    BY <1>1, ServedMain
  <2>7. NamesTell'
    <3>1. \A u \in Ids : sess[u].lockId # 0 => sess[u].lockId \in LockIds
      BY Fields DEF IInv
    <3> QED BY <1>0, <1>1, <2>3, <2>6, <3>1 DEF CInv, NamesTell
  <2>8. SessionFits(s)'
    <3>1. InFlight(h)' = InFlight(h) /\ sess'[s].handle = h
      BY <1>0, <1>1, <2>2, <2>6, SameWorkKeeps
    <3>2. SessionFits(s)
      BY <1>0, <2>1 DEF CInv, AllFits
    <3>3. ASSUME NEW cb \in InFlight(h) PROVE CallbackFits(s, cb)'
      <4>1. CallbackFits(s, cb)
        BY <1>0, <3>2, <3>3 DEF SessionFits
      <4> QED BY <1>0, <1>1, <2>3, <3>1, <3>3, <4>1 DEF CallbackFits
    <3> QED BY <2>3, <3>1, <3>3 DEF SessionFits
  <2> QED BY <1>0, <1>1, <2>1, <2>2, <2>3, <2>4, <2>5, <2>7, <2>8, ServedHandleStep
<1> QED BY <1>2, <1>3 DEF ResourceClose

LEMMA ResourceOpenAsyncStep ==
    ASSUME TestCases, IInv, CInv, NEW t \in Threads, NEW s \in Ids, ResourceOpenAsync(t, s)
    PROVE  CInv'
<1>1. PICK h : h = sess[s].handle
  OBVIOUS
<1>2. Serving(t, "OPEN_ASYNC") /\ Served(t) /\ aborted' = aborted /\ MayOpen(s)
  BY DEF ResourceOpenAsync
<1>3. PICK i \in Invocations :
         /\ Unused(i, s, "openInv")
         /\ sess' = [sess EXCEPT ![s].openInv = i, ![s].openErr = "NONE"]
         /\ saLckResourceOpenAsync(h, i) \/ Refused
  BY <1>1 DEF ResourceOpenAsync
<1>4. Fresh(i, s, "openInv")
  BY <1>3 DEF Unused, Fresh, TestCases
<1>5. /\ \A u \in Ids : Holds(u)
      /\ \A u \in Ids : u # s => sess'[u] = sess[u]
  BY <1>3 DEF IInv, TypeInv, TypeOK, Sessions, Holds
<1>6. /\ sess'[s].openInv = i /\ sess'[s].openErr = "NONE" /\ sess'[s].handle = h
      /\ sess'[s].res = sess[s].res /\ sess'[s].lockInv = sess[s].lockInv
      /\ sess'[s].unlockInv = sess[s].unlockInv /\ sess'[s].lockId = sess[s].lockId
  BY <1>1, <1>3 DEF IInv, TypeInv, TypeOK, Sessions
<1>7. h # 0 => h \in Handles /\ Live(h) /\ InFlight(h) = {} /\ LocksOf(h) = {}
  <2>1. Quiet(s) /\ h \notin svcOpen
    BY <1>1, <1>2 DEF MayOpen, TestCases
  <2> QED BY <1>1, <2>1, HeldIsLive, QuietIsEmpty, NotOpenNoLocks
<1>8. /\ svcHandle' = svcHandle /\ svcLock' = svcLock
      /\ \A g \in svcOpen' : g \in svcOpen \/ g = h
      /\ svcOpen \subseteq svcOpen'
      /\ \A g \in Handles : g # h => svcOut'[g] = svcOut[g]
  BY <1>3 DEF saLckResourceOpenAsync, Refused, svcVars, IInv, TypeInv, TypeOK,
     ServiceTypeOK
<1>9. \A g : (Live(g)' <=> Live(g)) /\ SameLocks(g)
  BY <1>8, SameServiceLocks DEF Live
<1>10. \/ svcOut' = svcOut /\ svcOpen' = svcOpen
       \/ /\ h \in Handles
          /\ \E e \in Errors :
                svcOut'[h] = svcOut[h] \cup {[kind |-> "open", inv |-> i, err |-> e,
                                              res |-> IF e = "OK" THEN h ELSE 0]}
  BY <1>3 DEF saLckResourceOpenAsync, Refused, svcVars, CallsBack, IInv, TypeInv,
     TypeOK,
     ServiceTypeOK
<1>11. OpenUnderHandle'
  <2>1. \A u \in Ids : sess'[u].res = sess[u].res /\ sess'[u].handle = sess[u].handle
    BY <1>5, <1>6 DEF Holds
  <2>2. \A g \in svcOpen' : Live(g)'
    BY <1>3, <1>7, <1>8, <1>9, <1>10, ZeroIsNone
       DEF CInv, OpenUnderHandle, saLckResourceOpenAsync, Refused, svcVars
  <2> QED BY <1>8, <2>1, <2>2 DEF CInv, OpenUnderHandle
<1>12. /\ SameWork /\ \A u : SameCall(u)
       /\ \A x \in Threads : th'[x].pc \notin {"lock", "lockasync", "unlock"}
  BY <1>2, ServedMain
<1>13. NamesTell'
  BY <1>4, <1>5, <1>6, <1>8, <1>12, NamesKeep
<1>14. ASSUME h # 0 PROVE SessionFits(s)'
  <2>1. LocksOf(h)' = {}
    BY <1>7, <1>9, <1>14 DEF SameLocks
  <2>2. InFlight(h) = svcOut[h] \cup Running(h) /\ InFlight(h)' = svcOut'[h] \cup Running(h)
    BY <1>12, SameWorkKeeps
  <2>3. CASE svcOut' = svcOut
    <3>1. InFlight(h)' = {}
      BY <1>7, <1>14, <2>2, <2>3
    <3> QED BY <1>6, <2>1, <3>1 DEF SessionFits
  <2>4. CASE /\ h \in Handles
             /\ \E e \in Errors :
                   svcOut'[h] = svcOut[h] \cup {[kind |-> "open", inv |-> i, err |-> e,
                                                 res |-> IF e = "OK" THEN h ELSE 0]}
    <3>1. PICK e \in Errors :
             svcOut'[h] = svcOut[h] \cup {[kind |-> "open", inv |-> i, err |-> e,
                                           res |-> IF e = "OK" THEN h ELSE 0]}
      BY <2>4
    <3>2. PICK cb : cb = [kind |-> "open", inv |-> i, err |-> e,
                          res |-> IF e = "OK" THEN h ELSE 0]
      OBVIOUS
    <3>3. cb.kind = "open" /\ cb.inv = i /\ cb.res \in {0, h}
      BY <3>2
    <3>4. InFlight(h)' = {cb}
      BY <1>7, <1>14, <2>2, <3>1, <3>2
    <3>5. CallbackFits(s, cb)'
      BY <1>6, <2>1, <3>3, <3>4 DEF CallbackFits
    <3> QED BY <1>6, <2>1, <3>4, <3>5 DEF SessionFits
  <2> QED BY <1>10, <2>3, <2>4
<1>15. h = 0 => svcOut' = svcOut /\ SameLocks(0)
  BY <1>9, <1>10, ZeroIsNone
<1>16. h # 0 => InCallback(h) = {}
  BY <1>1, <1>2 DEF MayOpen, Quiet, TestCases
<1> QED BY <1>1, <1>2, <1>5, <1>8, <1>9, <1>11, <1>13, <1>14, <1>15, <1>16,
           ServedHandleStep

\* What an unlock starts from.
LEMMA UnlockedLock ==
    ASSUME TestCases, IInv, CInv, NEW t \in Threads, NEW op, Serving(t, op), op # "DISPATCH",
           NEW s \in Ids, NEW h, h = sess[s].handle, MayUnlock(s), sess[s].lockId \in LockIds
    PROVE  /\ h \in Handles /\ Live(h) /\ LocksOf(h) = {sess[s].lockId} /\ InFlight(h) = {}
           /\ svcLock[sess[s].lockId].st = "granted" /\ svcLock[sess[s].lockId].h = h
           /\ h \in svcOpen /\ sess[s].lockStatus # "NO_MORE"
           /\ svcLock[sess[s].lockId].inv = 0
<1>1. Quiet(s) /\ sess[s].lockId \in LocksOf(h)
  BY DEF MayUnlock, TestCases
<1>2. /\ svcLock[sess[s].lockId].h = h /\ svcLock[sess[s].lockId].st = "granted"
      /\ h \in svcOpen /\ Live(h) /\ svcLock[sess[s].lockId].inv = 0
  BY <1>1, IsLockOf DEF Quiet, CInv, OpenUnderHandle
<1>3. h \in Handles /\ h # 0
  BY <1>2, ZeroIsNone DEF Live
<1>4. LockFits(s, sess[s].lockId)
  BY <1>1, <1>3 DEF CInv, AllFits, SessionFits
<1>5. ~Taking(s, sess[s].lockId)
  BY MainServes, DriverAssumption DEF Taking
<1> QED BY <1>1, <1>2, <1>3, <1>4, <1>5, QuietIsEmpty DEF LockFits

LEMMA UnlockAsyncStep ==
    ASSUME TestCases, IInv, CInv, NEW t \in Threads, NEW s \in Ids, UnlockAsync(t, s)
    PROVE  CInv'
<1>1. PICK h, l : h = sess[s].handle /\ l = sess[s].lockId
  OBVIOUS
<1>2. Serving(t, "UNLOCK_ASYNC") /\ Served(t) /\ aborted' = aborted /\ MayUnlock(s)
  BY DEF UnlockAsync
<1>3. PICK i \in Invocations :
         /\ Unused(i, s, "unlockInv")
         /\ sess' = [sess EXCEPT ![s].unlockInv = i]
         /\ saLckResourceUnlockAsync(i, l) \/ Refused
  BY <1>1 DEF UnlockAsync
<1>4. Fresh(i, s, "unlockInv")
  BY <1>3 DEF Unused, Fresh, TestCases
<1>5. /\ \A u \in Ids : Holds(u)
      /\ \A u \in Ids : u # s => sess'[u] = sess[u]
  BY <1>3 DEF IInv, TypeInv, TypeOK, Sessions, Holds
<1>6. /\ sess'[s].unlockInv = i /\ sess'[s].handle = h /\ sess'[s].res = sess[s].res
      /\ sess'[s].lockInv = sess[s].lockInv /\ sess'[s].openInv = sess[s].openInv
      /\ sess'[s].lockId = l /\ sess'[s].lockStatus = sess[s].lockStatus
  BY <1>1, <1>3 DEF IInv, TypeInv, TypeOK, Sessions
<1>7. l \in LocksOf(h) /\ l \in LockIds
  BY <1>1, <1>2, IsLockOf DEF MayUnlock, TestCases
<1>8. /\ h \in Handles /\ Live(h) /\ LocksOf(h) = {l} /\ InFlight(h) = {}
      /\ svcLock[l].st = "granted" /\ svcLock[l].h = h
      /\ h \in svcOpen /\ sess[s].lockStatus # "NO_MORE" /\ svcLock[l].inv = 0
  BY <1>1, <1>2, <1>7, UnlockedLock
<1>9. /\ svcHandle' = svcHandle /\ svcOpen' = svcOpen /\ svcOut' = svcOut
      /\ \A k \in LockIds : k # l => svcLock'[k] = svcLock[k]
      /\ svcLock'[l].h = h /\ svcLock'[l].inv = 0
      /\ \/ svcLock'[l] = svcLock[l]
         \/ svcLock'[l].st = "releasing" /\ svcLock'[l].uinv = i
  BY <1>3, <1>7, <1>8
     DEF saLckResourceUnlockAsync, Refused, svcVars, IInv, TypeInv, TypeOK, ServiceTypeOK,
         LockRecs
<1>10. /\ LocksOf(h)' = {l} /\ \A g : g # h => SameLocks(g)
  BY <1>8, <1>9 DEF LocksOf, SameLocks
<1>11. OpenUnderHandle'
  <2>1. \A u \in Ids : sess'[u].res = sess[u].res /\ sess'[u].handle = sess[u].handle
    BY <1>5, <1>6 DEF Holds
  <2>2. \A g \in svcOpen' : Live(g)'
    BY <1>9 DEF CInv, OpenUnderHandle, Live
  <2>3. \A k \in LockIds :
           /\ svcLock'[k].st \in {"pending", "granted", "releasing"} =>
                 svcLock'[k].h \in svcOpen'
           /\ svcLock'[k].inv # 0 => svcLock'[k].st = "pending"
    BY <1>8, <1>9 DEF CInv, OpenUnderHandle
  <2> QED BY <1>9, <2>1, <2>2, <2>3 DEF CInv, OpenUnderHandle
<1>12. /\ SameWork /\ \A u : SameCall(u)
       /\ \A x \in Threads : th'[x].pc \notin {"lock", "lockasync", "unlock"}
  BY <1>2, ServedMain
<1>13. NamesTell'
  <2>1. \A k \in LockIds : svcLock[k].st # "unused" => svcLock'[k].st # "unused"
    BY <1>8, <1>9
  <2> QED BY <1>1, <1>4, <1>5, <1>6, <1>12, <2>1, NamesKeep
<1>14. SessionFits(s)'
  <2>1. InFlight(h)' = {}
    BY <1>8, <1>9, <1>12, SameWorkKeeps
  <2>2. LockFits(s, l)'
    BY <1>6, <1>8, <1>9, <1>10, <2>1 DEF LockFits
  <2> QED BY <1>6, <1>10, <2>1, <2>2 DEF SessionFits
<1> QED BY <1>1, <1>2, <1>5, <1>8, <1>9, <1>10, <1>11, <1>13, <1>14, ZeroIsNone,
       ServedHandleStep

-----------------------------------------------------------------------------
\* Calls that the main thread enters, and returns from.

\* Every other thread stays where it is, and the main thread is in no callback.
MainMoves ==
    /\ \A t \in Threads : t # MainThread => th'[t] = th[t]
    /\ th[MainThread].pc # "callback" /\ th'[MainThread].pc # "callback"

LEMMA MainMovesKeeps ==
    ASSUME MainMoves
    PROVE  /\ \A h : InCallback(h)' = InCallback(h)
           /\ \A h : /\ InFlight(h) = svcOut[h] \cup Running(h)
                     /\ InFlight(h)' = svcOut'[h] \cup Running(h)
<1>1. \A h : InCallback(h)' = InCallback(h)
  BY DEF InCallback, MainMoves
<1>2. ASSUME NEW h
      PROVE  /\ InFlight(h) = svcOut[h] \cup Running(h)
             /\ InFlight(h)' = svcOut'[h] \cup Running(h)
  <2>1. \A t \in InCallback(h) : th'[t].cb = th[t].cb
    BY DEF InCallback, MainMoves
  <2>2. {th'[t].cb : t \in InCallback(h)} = Running(h)
    BY <2>1 DEF Running
  <2> QED BY <1>1, <2>2 DEF InFlight, Running
<1> QED BY <1>1, <1>2

\* What is left to show of such a step is what it says about its own session.
LEMMA CallStep ==
    ASSUME IInv, CInv, MainMoves, aborted' = aborted, UNCHANGED <<svcHandle, svcOut>>,
           NEW s \in Ids, NEW h, h = sess[s].handle, h # 0, \A u \in Ids : Holds(u),
           \A u \in Ids : u # s => sess'[u] = sess[u],
           \A g : g # h => SameLocks(g),
           th[MainThread].pc \in LoopPcs \/ th[MainThread].s = s,
           /\ th'[MainThread].l # 0 => th'[MainThread].pc \in {"lock", "lockasync", "unlock"}
           /\ th'[MainThread].pc \in {"lock", "lockasync", "unlock"} => th'[MainThread].s = s,
           OpenUnderHandle', NamesTell', SessionFits(s)', CallFits'
    PROVE  CInv'
<1>1. h \in Handles /\ Live(h)
  BY HeldIsLive
<1>2. \A g : Live(g)' <=> Live(g)
  BY DEF Live
<1>3. HomesOfHolders' /\ HandlesAreHeld' /\ WatchedAsHeld'
  BY HoldsKeep
<1>4. ThreadsAtWork'
  <2>1. sess'[s].handle = h
    BY DEF Holds
  <2>2. ASSUME NEW t \in Threads
        PROVE  /\ th'[t].pc \in {"lock", "lockasync", "unlock"} =>
                     t = MainThread /\ sess'[th'[t].s].handle # 0
               /\ th'[t].l # 0 => th'[t].pc \in {"lock", "lockasync", "unlock"}
               /\ th'[t].pc = "callback" => svcHandle'[th'[t].h] \in {"live", "mute"}
                                            /\ th'[t].h \in Handles
    <3>1. CASE t = MainThread
      BY <2>1, <3>1 DEF MainMoves
    <3>2. CASE t # MainThread
      BY <3>2 DEF MainMoves, CInv, ThreadsAtWork, Live
    <3> QED BY <3>1, <3>2
  <2> QED BY <2>2 DEF ThreadsAtWork, Live
<1>5. AllFits'
  <2>1. \A u \in Ids : u # s => View(u) /\ sess[u].handle # h
    BY DEF View, IInv, OwnInv, HandlesAreOwned
  <2>2. \A u \in Ids : u # s => SameCall(u)
    BY DEF SameCall, Taking, LoopPcs
  <2>3. \A g \in Handles : g # h => InFlight(g)' = InFlight(g) /\ SameLocks(g)
    BY MainMovesKeeps
  <2> QED BY <2>1, <2>2, <2>3, OthersFit
<1>6. RunsOnce'
  BY DEF CInv, RunsOnce, MainMoves
<1> QED BY <1>3, <1>4, <1>5, <1>6 DEF CInv, NoAbort

LEMMA EnterMoves ==
    ASSUME TestCases, IInv, CInv, NEW t \in Threads, NEW op, Serving(t, op), op # "DISPATCH",
           NEW pc \in {"lock", "lockasync", "unlock"}, NEW s, NEW l, Enter(t, pc, s, l)
    PROVE  /\ MainMoves /\ th[MainThread].pc \in LoopPcs
           /\ th'[MainThread].pc = pc /\ th'[MainThread].s = s /\ th'[MainThread].l = l
           /\ \A x \in Threads : th'[x].pc \in {"lock", "lockasync", "unlock"} => th'[x].l = l
<1>1. t = MainThread /\ th[MainThread].pc = "serve"
  BY MainServes
<1>2. \A x \in Threads : th[x].pc \notin {"lock", "lockasync", "unlock"}
  BY MainServes
<1>3. /\ \A x \in Threads : x # MainThread => th'[x] = th[x]
      /\ th'[MainThread].pc = pc /\ th'[MainThread].s = s /\ th'[MainThread].l = l
  BY <1>1 DEF Enter, IInv, TypeInv, TypeOK, ThreadRecs
<1> QED BY <1>1, <1>2, <1>3 DEF MainMoves, LoopPcs

\* A request for a lock is queued under the handle of the session it is for.
Queued(h, l, i) ==
    /\ h # 0 /\ h \in Handles /\ Live(h) /\ InFlight(h) = {}
    /\ svcLock'[l].st = "pending" /\ svcLock'[l].h = h /\ svcLock'[l].inv = i
    /\ svcLock'[l].res = "NONE"
    /\ LocksOf(h)' = {l} /\ \A g : g # h => SameLocks(g)
    /\ \A u \in Ids : sess[u].lockId # l
    /\ UNCHANGED <<svcHandle, svcOpen, svcOut>>
    /\ \A k \in LockIds : svcLock[k].st # "unused" =>
          svcLock'[k] = svcLock[k] /\ svcLock'[k].st # "unused"
    /\ \A k \in LockIds : k # l => svcLock'[k] = svcLock[k]
    /\ h \in svcOpen

LEMMA QueuedLock ==
    ASSUME TestCases, IInv, CInv, NEW s \in Ids, NEW h, h = sess[s].handle, MayLock(s),
           NEW l \in LockIds, NEW i \in Invocations \cup {0}, QueueLock(l, sess[s].res, i)
    PROVE  Queued(h, l, i)
<1>1. sess[s].res \in svcOpen /\ FreshLock(l) /\ UNCHANGED <<svcHandle, svcOpen, svcOut>>
  BY DEF QueueLock
<1>2. sess[s].res = h /\ h # 0 /\ Live(h)
  BY <1>1, OpenResIsHandle
<1>3. h \in Handles
  BY <1>2 DEF Live
<1>4. Quiet(s) /\ LocksOf(h) = {}
  BY DEF MayLock, TestCases
<1>5. InFlight(h) = {}
  BY <1>3, <1>4, QuietIsEmpty
<1>6. /\ svcLock'[l] = [UnusedLock EXCEPT !.st = "pending", !.h = h, !.inv = i]
      /\ \A k \in LockIds : k # l => svcLock'[k] = svcLock[k]
  BY <1>2 DEF QueueLock, IInv, TypeInv, TypeOK, ServiceTypeOK
<1>7. /\ svcLock'[l].st = "pending" /\ svcLock'[l].h = h /\ svcLock'[l].inv = i
      /\ svcLock'[l].res = "NONE" /\ svcLock[l].st = "unused"
  BY <1>1, <1>6 DEF UnusedLock, FreshLock
<1>8. LocksOf(h)' = {l} /\ \A g : g # h => SameLocks(g)
  <2>1. \A k \in LockIds : k # l => svcLock'[k] = svcLock[k]
    BY <1>6
  <2>2. LocksOf(h)' = {l}
    BY <1>4, <1>7, <2>1 DEF LocksOf
  <2>3. \A g : g # h => SameLocks(g)
    BY <1>7, <2>1 DEF LocksOf, SameLocks
  <2> QED BY <2>2, <2>3
<1>9. \A u \in Ids : sess[u].lockId # l
  BY <1>7, ZeroIsNone DEF CInv, NamesTell
<1> QED BY <1>1, <1>2, <1>3, <1>5, <1>6, <1>7, <1>8, <1>9 DEF Queued

LEMMA QueuedOpen ==
    ASSUME IInv, CInv, NEW l \in LockIds, NEW h \in svcOpen, UNCHANGED <<svcHandle, svcOpen>>,
           \A k \in LockIds : k # l => svcLock'[k] = svcLock[k],
           svcLock'[l].h = h, svcLock'[l].inv # 0 => svcLock'[l].st = "pending",
           \A u \in Ids : sess'[u].res = sess[u].res /\ sess'[u].handle = sess[u].handle
    PROVE  OpenUnderHandle'
<1>1. \A g \in svcOpen' : Live(g)'
  BY DEF CInv, OpenUnderHandle, Live
<1>2. \A k \in LockIds :
         /\ svcLock'[k].st \in {"pending", "granted", "releasing"} => svcLock'[k].h \in svcOpen'
         /\ svcLock'[k].inv # 0 => svcLock'[k].st = "pending"
  BY DEF CInv, OpenUnderHandle
<1> QED BY <1>1, <1>2 DEF CInv, OpenUnderHandle

LEMMA LockSyncStep ==
    ASSUME TestCases, IInv, CInv, NEW t \in Threads, NEW s \in Ids, LockSync(t, s)
    PROVE  CInv'
<1>1. PICK h : h = sess[s].handle
  OBVIOUS
<1>2. /\ Serving(t, "LOCK_SYNC") /\ aborted' = aborted /\ sess' = sess /\ nextId' = nextId
      /\ MayLock(s)
  BY DEF LockSync
<1>3. CASE Refused /\ Served(t)
  BY <1>2, <1>3, RefusedStep DEF Refused
<1>4. ASSUME NEW l \in LockIds, QueueLock(l, sess[s].res, 0), Enter(t, "lock", s, l)
      PROVE  CInv'
  <2>1. /\ h # 0 /\ h \in Handles /\ Live(h) /\ InFlight(h) = {}
        /\ svcLock'[l].st = "pending" /\ svcLock'[l].h = h /\ svcLock'[l].inv = 0
        /\ svcLock'[l].res = "NONE"
        /\ LocksOf(h)' = {l} /\ \A g : g # h => SameLocks(g)
        /\ \A u \in Ids : sess[u].lockId # l
        /\ UNCHANGED <<svcHandle, svcOpen, svcOut>>
        /\ \A k \in LockIds : svcLock[k].st # "unused" =>
              svcLock'[k] = svcLock[k] /\ svcLock'[k].st # "unused"
        /\ \A k \in LockIds : k # l => svcLock'[k] = svcLock[k]
        /\ h \in svcOpen
    <3>1. Queued(h, l, 0)
      BY <1>1, <1>2, <1>4, QueuedLock
    <3> QED BY <3>1 DEF Queued
  <2>2. /\ MainMoves /\ th[MainThread].pc \in LoopPcs
        /\ th'[MainThread].pc = "lock" /\ th'[MainThread].s = s /\ th'[MainThread].l = l
        /\ \A x \in Threads : th'[x].pc \in {"lock", "lockasync", "unlock"} => th'[x].l = l
    BY <1>2, <1>4, EnterMoves
  <2>3. \A u \in Ids : Holds(u)
    BY <1>2 DEF Holds
  <2>4. OpenUnderHandle'
    BY <1>2, <2>1, QueuedOpen
  <2>5. NamesTell'
    BY <1>2, <2>1, <2>2, NamesKeep
  <2>6. InFlight(h)' = {}
    BY <2>1, <2>2, MainMovesKeeps
  <2>7. sess'[s].handle = h
    BY <1>1, <1>2
  <2>8. SessionFits(s)'
    <3>1. LockFits(s, l)'
      BY <2>1, <2>2, <2>6, <2>7 DEF LockFits, Taking
    <3> QED BY <2>1, <2>6, <2>7, <3>1 DEF SessionFits
  <2>9. CallFits'
    BY <2>1, <2>2, <2>6, <2>7, ZeroIsNone DEF CallFits
  <2> QED BY <1>1, <1>2, <2>1, <2>2, <2>3, <2>4, <2>5, <2>8, <2>9, CallStep
<1> QED BY <1>3, <1>4 DEF LockSync

LEMMA LockAsyncQueuedStep ==
    ASSUME TestCases, IInv, CInv, NEW t \in Threads, NEW s \in Ids, NEW h,
           h = sess[s].handle, NEW i \in Invocations, NEW l \in LockIds,
           Serving(t, "LOCK_ASYNC"), aborted' = aborted, MayLock(s), Unused(i, s, "lockInv"),
           sess' = [sess EXCEPT ![s].lockInv = i, ![s].lockStatus = "NONE"],
           QueueLock(l, sess[s].res, i), Enter(t, "lockasync", s, l)
    PROVE  CInv'
<1>1. Queued(h, l, i)
  BY QueuedLock
<1>2. /\ h # 0 /\ h \in Handles /\ Live(h) /\ InFlight(h) = {}
      /\ svcLock'[l].st = "pending" /\ svcLock'[l].h = h /\ svcLock'[l].inv = i
      /\ LocksOf(h)' = {l} /\ \A g : g # h => SameLocks(g)
      /\ \A u \in Ids : sess[u].lockId # l
      /\ UNCHANGED <<svcHandle, svcOpen, svcOut>>
      /\ \A k \in LockIds : svcLock[k].st # "unused" => svcLock'[k].st # "unused"
      /\ \A k \in LockIds : k # l => svcLock'[k] = svcLock[k]
      /\ h \in svcOpen
  BY <1>1 DEF Queued
<1>3. /\ MainMoves /\ th[MainThread].pc \in LoopPcs
      /\ th'[MainThread].pc = "lockasync" /\ th'[MainThread].s = s /\ th'[MainThread].l = l
      /\ \A x \in Threads : th'[x].pc \in {"lock", "lockasync", "unlock"} => th'[x].l = l
  BY EnterMoves
<1>4. /\ \A u \in Ids : Holds(u)
      /\ \A u \in Ids : sess'[u].res = sess[u].res /\ sess'[u].handle = sess[u].handle
                        /\ sess'[u].lockId = sess[u].lockId
      /\ \A u \in Ids : u # s => sess'[u] = sess[u]
  BY DEF IInv, TypeInv, TypeOK, Sessions, Holds
<1>5. /\ sess'[s].lockInv = i /\ sess'[s].lockStatus = "NONE" /\ sess'[s].handle = h
      /\ sess'[s].openInv = sess[s].openInv /\ sess'[s].unlockInv = sess[s].unlockInv
      /\ sess'[s].lockId = sess[s].lockId
  BY DEF IInv, TypeInv, TypeOK, Sessions
<1>6. OpenUnderHandle'
  BY <1>2, <1>4, QueuedOpen
<1>7. NamesTell'
  <2>1. Fresh(i, s, "lockInv")
    BY DEF Unused, Fresh, TestCases
  <2>2. \A x \in Threads, u \in Ids : th'[x].pc \in {"lock", "lockasync"} =>
           sess'[u].lockId # th'[x].l
    BY <1>2, <1>3, <1>4
  <2> QED BY <1>2, <1>4, <1>5, <2>1, <2>2, NamesKeep
<1>8. InFlight(h)' = {}
  BY <1>2, <1>3, MainMovesKeeps
<1>9. SessionFits(s)'
  <2>1. LockFits(s, l)'
    BY <1>2, <1>3, <1>5, <1>8 DEF LockFits, Taking
  <2> QED BY <1>2, <1>5, <1>8, <2>1 DEF SessionFits
<1>10. CallFits'
  BY <1>2, <1>3, <1>5, <1>8, ZeroIsNone DEF CallFits
<1> QED BY <1>2, <1>3, <1>4, <1>6, <1>7, <1>9, <1>10, CallStep

\* A session for which nothing is under way may change what it waits for.
LEMMA LockAsyncRefusedStep ==
    ASSUME TestCases, IInv, CInv, NEW t \in Threads, NEW s \in Ids, NEW i \in Invocations,
           Serving(t, "LOCK_ASYNC"), aborted' = aborted, MayLock(s), Unused(i, s, "lockInv"),
           sess' = [sess EXCEPT ![s].lockInv = i, ![s].lockStatus = "NONE"],
           UNCHANGED svcVars, Served(t)
    PROVE  CInv'
<1> USE DEF svcVars
<1>1. PICK h : h = sess[s].handle
  OBVIOUS
<1>2. /\ \A u \in Ids : Holds(u)
      /\ \A u \in Ids : sess'[u].res = sess[u].res /\ sess'[u].handle = sess[u].handle
      /\ \A u \in Ids : u # s => sess'[u] = sess[u]
      /\ sess'[s].lockInv = i /\ sess'[s].lockId = sess[s].lockId
      /\ sess'[s].openInv = sess[s].openInv /\ sess'[s].unlockInv = sess[s].unlockInv
  BY DEF IInv, TypeInv, TypeOK, Sessions, Holds
<1>3. \A g : SameLocks(g)
  BY SameServiceLocks
<1>4. OpenUnderHandle'
  BY <1>2, SameOpen
<1>5. /\ SameWork
      /\ \A x \in Threads : th'[x].pc \notin {"lock", "lockasync", "unlock"}
  BY ServedMain
<1>6. NamesTell'
  <2>1. Fresh(i, s, "lockInv")
    BY DEF Unused, Fresh, TestCases
  <2> QED BY <1>2, <1>5, <2>1, NamesKeep
<1>7. h # 0 => SessionFits(s)'
  <2> SUFFICES ASSUME h # 0 PROVE SessionFits(s)'
    OBVIOUS
  <2>1. Quiet(s) /\ LocksOf(h) = {}
    BY <1>1 DEF MayLock, TestCases
  <2>2. h \in Handles
    BY <1>1, HeldIsLive
  <2>3. InFlight(h) = {}
    BY <1>1, <2>1, <2>2, QuietIsEmpty
  <2>4. LocksOf(h)' = {} /\ InFlight(h)' = {} /\ sess'[s].handle = h
    BY <1>1, <1>2, <1>3, <1>5, <2>1, <2>3, SameWorkKeeps DEF SameLocks
  <2> QED BY <2>4 DEF SessionFits
<1> QED BY <1>1, <1>2, <1>3, <1>4, <1>6, <1>7, ServedHandleStep

LEMMA LockAsyncStep ==
    ASSUME TestCases, IInv, CInv, NEW t \in Threads, NEW s \in Ids, LockAsync(t, s)
    PROVE  CInv'
<1>1. PICK i \in Invocations :
         /\ Unused(i, s, "lockInv")
         /\ sess' = [sess EXCEPT ![s].lockInv = i, ![s].lockStatus = "NONE"]
         /\ \/ \E l \in LockIds : /\ QueueLock(l, sess[s].res, i)
                                  /\ Enter(t, "lockasync", s, l)
            \/ Refused /\ Served(t)
  BY DEF LockAsync
<1>2. Serving(t, "LOCK_ASYNC") /\ aborted' = aborted /\ MayLock(s)
  BY DEF LockAsync
<1>3. ASSUME NEW l \in LockIds, QueueLock(l, sess[s].res, i), Enter(t, "lockasync", s, l)
      PROVE  CInv'
  BY <1>1, <1>2, <1>3, LockAsyncQueuedStep
<1>4. CASE Refused /\ Served(t)
  BY <1>1, <1>2, <1>4, LockAsyncRefusedStep DEF Refused
<1> QED BY <1>1, <1>3, <1>4

LEMMA UnlockSyncStep ==
    ASSUME TestCases, IInv, CInv, NEW t \in Threads, NEW s \in Ids, UnlockSync(t, s)
    PROVE  CInv'
<1>1. PICK h, l : h = sess[s].handle /\ l = sess[s].lockId
  OBVIOUS
<1>2. Serving(t, "UNLOCK_SYNC") /\ aborted' = aborted /\ sess' = sess /\ MayUnlock(s)
  BY DEF UnlockSync
<1>3. CASE Refused /\ Served(t)
  BY <1>2, <1>3, RefusedStep DEF Refused
<1>4. CASE saLckResourceUnlock(l) /\ Enter(t, "unlock", s, l)
  <2>1. l \in LockIds
    BY <1>4 DEF saLckResourceUnlock
  <2>2. /\ h \in Handles /\ Live(h) /\ LocksOf(h) = {l} /\ InFlight(h) = {}
        /\ svcLock[l].h = h /\ svcLock[l].inv = 0
    BY <1>1, <1>2, <2>1, UnlockedLock
  <2>3. /\ svcLock'[l].st = "gone" /\ svcLock'[l].h = h /\ svcLock'[l].inv = 0
        /\ \A k \in LockIds : k # l => svcLock'[k] = svcLock[k]
        /\ UNCHANGED <<svcHandle, svcOpen, svcOut>>
    BY <1>4, <2>1, <2>2
       DEF saLckResourceUnlock, IInv, TypeInv, TypeOK, ServiceTypeOK, LockRecs
  <2>4. LocksOf(h)' = {} /\ \A g : g # h => SameLocks(g)
    <3>1. LocksOf(h)' = {}
      BY <2>2, <2>3 DEF LocksOf
    <3>2. \A g : g # h => SameLocks(g)
      BY <2>2, <2>3 DEF LocksOf, SameLocks
    <3> QED BY <3>1, <3>2
  <2>5. /\ MainMoves /\ th[MainThread].pc \in LoopPcs
        /\ th'[MainThread].pc = "unlock" /\ th'[MainThread].s = s /\ th'[MainThread].l = l
    BY <1>2, <1>4, EnterMoves
  <2>6. \A u \in Ids : Holds(u)
    BY <1>2 DEF Holds
  <2>7. OpenUnderHandle'
    <3>1. \A k \in LockIds :
             /\ svcLock'[k].st \in {"pending", "granted", "releasing"} =>
                   svcLock'[k].h \in svcOpen'
             /\ svcLock'[k].inv # 0 => svcLock'[k].st = "pending"
      BY <2>3 DEF CInv, OpenUnderHandle
    <3> QED BY <1>2, <2>3, <3>1 DEF CInv, OpenUnderHandle, Live
  <2>8. NamesTell'
    <3>1. \A x \in Threads : th'[x].pc \notin {"lock", "lockasync"}
      <4>1. \A x \in Threads : th[x].pc \notin {"lock", "lockasync", "unlock"}
        BY <1>2, MainServes
      <4> QED BY <2>5, <4>1 DEF MainMoves
    <3>2. \A k \in LockIds : svcLock[k].st # "unused" => svcLock'[k].st # "unused"
      BY <2>3
    <3> QED BY <1>2, <3>1, <3>2, NamesKeep
  <2>9. InFlight(h)' = {} /\ sess'[s].handle = h
    BY <1>1, <1>2, <2>2, <2>3, <2>5, MainMovesKeeps
  <2>10. SessionFits(s)'
    BY <2>4, <2>9 DEF SessionFits
  <2>11. CallFits'
    BY <2>4, <2>5, <2>9 DEF CallFits
  <2>12. h # 0 /\ UNCHANGED <<svcHandle, svcOut>>
    BY <2>2, <2>3, ZeroIsNone
  <2> QED BY <1>1, <1>2, <2>4, <2>5, <2>6, <2>7, <2>8, <2>10, <2>11, <2>12, CallStep
<1> QED BY <1>1, <1>3, <1>4 DEF UnlockSync

\* Back from a call.
LEMMA ResumeMoves ==
    ASSUME IInv, CInv, NEW t \in Threads, th[t].pc \in {"lock", "lockasync", "unlock"},
           Resume(t)
    PROVE  /\ t = MainThread /\ MainMoves /\ CallFits'
           /\ th[t].s \in Ids /\ sess[th[t].s].handle # 0 /\ th[t].l \in LockIds \cup {0}
           /\ th'[MainThread].pc = "serve" /\ th'[MainThread].l = 0
           /\ \A x \in Threads : th'[x].pc \notin {"lock", "lockasync", "unlock"}
<1>1. t = MainThread /\ sess[th[t].s].handle # 0
  BY DEF CInv, ThreadsAtWork
<1>2. th[t].s \in Ids /\ th[t].l \in LockIds \cup {0}
  BY Fields DEF IInv, TypeInv, InHand
<1>3. /\ \A x \in Threads : x # MainThread => th'[x] = th[x]
      /\ th'[MainThread].pc = "serve" /\ th'[MainThread].l = 0
  BY <1>1 DEF Resume, IInv, TypeInv, TypeOK, ThreadRecs
<1>4. \A x \in Threads : x # MainThread => th[x].pc \notin {"lock", "lockasync", "unlock"}
  BY DEF CInv, ThreadsAtWork
<1>5. CallFits'
  BY <1>3 DEF CallFits
<1> QED BY <1>1, <1>2, <1>3, <1>4, <1>5 DEF MainMoves

\* A session learns the id of the lock it has waited for.
LEMMA NamesOfLock ==
    ASSUME IInv, CInv, NEW s \in Ids, NEW l \in LockIds, svcLock' = svcLock,
           svcLock[l].st # "unused", \A u \in Ids : u # s => sess[u].lockId # l,
           \A u \in Ids : u # s => sess'[u] = sess[u],
           sess'[s].lockId = l, sess'[s].openInv = sess[s].openInv,
           sess'[s].lockInv = sess[s].lockInv, sess'[s].unlockInv = sess[s].unlockInv,
           \A x \in Threads : th'[x].pc \notin {"lock", "lockasync"}
    PROVE  NamesTell'
<1>1. ASSUME NEW u \in Ids, NEW v \in Ids, u # v
      PROVE  /\ sess'[u].openInv # 0 => sess'[v].openInv # sess'[u].openInv
             /\ sess'[u].lockInv # 0 => sess'[v].lockInv # sess'[u].lockInv
             /\ sess'[u].unlockInv # 0 => sess'[v].unlockInv # sess'[u].unlockInv
             /\ sess'[u].lockId # 0 => sess'[v].lockId # sess'[u].lockId
  <2>1. /\ sess[u].openInv # 0 => sess[v].openInv # sess[u].openInv
        /\ sess[u].lockInv # 0 => sess[v].lockInv # sess[u].lockInv
        /\ sess[u].unlockInv # 0 => sess[v].unlockInv # sess[u].unlockInv
        /\ sess[u].lockId # 0 => sess[v].lockId # sess[u].lockId
    BY <1>1 DEF CInv, NamesTell
  <2>2. \A w \in Ids : /\ sess'[w].openInv = sess[w].openInv
                       /\ sess'[w].lockInv = sess[w].lockInv
                       /\ sess'[w].unlockInv = sess[w].unlockInv
    OBVIOUS
  <2>3. sess'[u].lockId # 0 => sess'[v].lockId # sess'[u].lockId
    BY <1>1, <2>1
  <2> QED BY <2>1, <2>2, <2>3
<1>2. \A u \in Ids : sess'[u].lockId # 0 => svcLock'[sess'[u].lockId].st # "unused"
  BY DEF CInv, NamesTell
<1> QED BY <1>1, <1>2 DEF NamesTell

LEMMA LockSyncReturnStep ==
    ASSUME IInv, CInv, NEW t \in Threads, LockSyncReturn(t)
    PROVE  CInv'
<1> USE DEF svcVars
<1>1. PICK s, l, h : s = th[t].s /\ l = th[t].l /\ h = sess[s].handle
  OBVIOUS
<1>2. /\ th[t].pc = "lock" /\ Resume(t) /\ UNCHANGED <<aborted, svcVars>>
      /\ svcLock[l].res # "NONE"
      /\ sess' = IF svcLock[l].res = "ERR" THEN sess
                 ELSE [sess EXCEPT ![s].lockId = l, ![s].lockStatus = svcLock[l].res]
  BY <1>1 DEF LockSyncReturn
<1>3. /\ t = MainThread /\ MainMoves /\ CallFits'
      /\ s \in Ids /\ h # 0 /\ l \in LockIds \cup {0}
      /\ th'[MainThread].pc = "serve" /\ th'[MainThread].l = 0
      /\ \A x \in Threads : th'[x].pc \notin {"lock", "lockasync", "unlock"}
  BY <1>1, <1>2, ResumeMoves
<1>4. /\ l # 0 /\ svcLock[l].h = h /\ svcLock[l].st \in {"pending", "granted", "gone"}
      /\ LocksOf(h) \subseteq {l} /\ InFlight(h) = {} /\ svcLock[l].inv = 0
      /\ svcLock[l].st \in {"pending", "granted"} => svcLock[l].res \in {"NONE", "GRANTED"}
  BY <1>1, <1>2, <1>3 DEF CInv, CallFits
<1>5. l \in LockIds
  BY <1>3, <1>4
<1>6. svcLock[l].res \in Results \cup {"ERR"}
  BY <1>2, <1>5, Fields DEF IInv, LockRecs
<1>7. /\ \A u \in Ids : Holds(u) /\ sess'[u].res = sess[u].res
      /\ \A u \in Ids : u # s => sess'[u] = sess[u]
      /\ sess'[s].openInv = sess[s].openInv /\ sess'[s].lockInv = sess[s].lockInv
      /\ sess'[s].unlockInv = sess[s].unlockInv
      /\ svcLock[l].res = "ERR" => sess' = sess
      /\ svcLock[l].res # "ERR" =>
            sess'[s].lockId = l /\ sess'[s].lockStatus = svcLock[l].res
  BY <1>2, <1>3 DEF IInv, TypeInv, TypeOK, Sessions, Holds
<1>8. \A g : SameLocks(g)
  BY <1>2, SameServiceLocks
<1>9. h \in Handles
  BY <1>1, <1>3, HeldIsLive
<1>10. InFlight(h)' = {} /\ sess'[s].handle = h
  <2>1. sess'[s].handle = h
    BY <1>1, <1>3, <1>7 DEF Holds
  <2>2. InFlight(h) = svcOut[h] \cup Running(h) /\ InFlight(h)' = svcOut'[h] \cup Running(h)
    BY <1>3, MainMovesKeeps
  <2> QED BY <1>2, <1>4, <2>1, <2>2
<1>11. OpenUnderHandle'
  BY <1>2, <1>7, SameOpen DEF Holds
<1>12. NamesTell'
  <2>1. CASE svcLock[l].res = "ERR"
    BY <1>2, <1>3, <1>7, <2>1 DEF CInv, NamesTell
  <2>2. CASE svcLock[l].res # "ERR"
    <3>1. \A u \in Ids : sess[u].lockId # l
      BY <1>1, <1>2 DEF CInv, NamesTell
    <3> QED BY <1>2, <1>3, <1>4, <1>5, <1>7, <2>2, <3>1, NamesOfLock
  <2> QED BY <2>1, <2>2
<1>13. SessionFits(s)'
  <2>1. \A k \in LocksOf(h)' : LockFits(s, k)'
    <3>1. ASSUME NEW k \in LocksOf(h)' PROVE LockFits(s, k)'
      <4>1. k \in LocksOf(h) /\ LocksOf(h)' = LocksOf(h)
        BY <1>8, <3>1 DEF SameLocks
      <4>2. k = l /\ LocksOf(h)' = {l}
        BY <1>4, <4>1
      <4>3. svcLock[l].st \in {"pending", "granted"}
        BY <1>4, <4>1, <4>2, IsLockOf
      <4>4. svcLock[l].res = "GRANTED"
        BY <1>2, <1>4, <4>3
      <4>5. sess'[s].lockId = l /\ sess'[s].lockStatus = "GRANTED"
        BY <1>7, <4>4
      <4> QED BY <1>2, <1>4, <1>10, <4>2, <4>3, <4>5 DEF LockFits
    <3> QED BY <3>1
  <2>2. sess'[s].handle = h
    BY <1>10
  <2>3. \A cb \in InFlight(h)' : CallbackFits(s, cb)'
    BY <1>10
  <2> QED BY <2>1, <2>2, <2>3 DEF SessionFits
<1> QED BY ZenonT(60), <1>1, <1>2, <1>3, <1>7, <1>8, <1>11, <1>12, <1>13, CallStep

LEMMA LockAsyncReturnStep ==
    ASSUME IInv, CInv, NEW t \in Threads, LockAsyncReturn(t)
    PROVE  CInv'
<1> USE DEF svcVars
<1>1. PICK s, l, h : s = th[t].s /\ l = th[t].l /\ h = sess[s].handle
  OBVIOUS
<1>2. /\ th[t].pc = "lockasync" /\ Resume(t) /\ UNCHANGED <<aborted, svcVars>>
      /\ sess' = [sess EXCEPT ![s].lockId = l]
  BY <1>1 DEF LockAsyncReturn
<1>3. /\ t = MainThread /\ MainMoves /\ CallFits'
      /\ s \in Ids /\ h # 0 /\ l \in LockIds \cup {0}
      /\ th'[MainThread].pc = "serve" /\ th'[MainThread].l = 0
      /\ \A x \in Threads : th'[x].pc \notin {"lock", "lockasync", "unlock"}
  BY <1>1, <1>2, ResumeMoves
<1>4. /\ l # 0 /\ svcLock[l].h = h /\ svcLock[l].st \in {"pending", "granted", "gone"}
      /\ LocksOf(h) \subseteq {l} /\ \A cb \in InFlight(h) : cb.kind = "grant"
  BY <1>1, <1>2, <1>3 DEF CInv, CallFits
<1>5. l \in LockIds
  BY <1>3, <1>4
<1>6. /\ \A u \in Ids : Holds(u) /\ sess'[u].res = sess[u].res
      /\ \A u \in Ids : u # s => sess'[u] = sess[u]
      /\ sess'[s].openInv = sess[s].openInv /\ sess'[s].lockInv = sess[s].lockInv
      /\ sess'[s].unlockInv = sess[s].unlockInv /\ sess'[s].lockId = l
      /\ sess'[s].lockStatus = sess[s].lockStatus
  BY <1>2, <1>3 DEF IInv, TypeInv, TypeOK, Sessions, Holds
<1>7. \A g : SameLocks(g)
  BY <1>2, SameServiceLocks
<1>8. InFlight(h)' = InFlight(h) /\ sess'[s].handle = h
  <2>1. sess'[s].handle = h
    BY <1>1, <1>3, <1>6 DEF Holds
  <2>2. InFlight(h) = svcOut[h] \cup Running(h) /\ InFlight(h)' = svcOut'[h] \cup Running(h)
    BY <1>3, MainMovesKeeps
  <2> QED BY <1>2, <2>1, <2>2
<1>9. OpenUnderHandle'
  BY <1>2, <1>6, SameOpen DEF Holds
<1>10. NamesTell'
  <2>1. \A u \in Ids : sess[u].lockId # l
    BY <1>1, <1>2 DEF CInv, NamesTell
  <2> QED BY <1>2, <1>3, <1>4, <1>5, <1>6, <2>1, NamesOfLock
<1>11. SessionFits(s)'
  <2>1. SessionFits(s)
    BY <1>1, <1>3 DEF CInv, AllFits
  <2>2. ASSUME NEW k \in LocksOf(h)' PROVE LockFits(s, k)'
    <3>1. k \in LocksOf(h) /\ LocksOf(h)' = LocksOf(h)
      BY <1>7, <2>2 DEF SameLocks
    <3>2. k = l /\ LockFits(s, k)
      BY <1>1, <1>4, <2>1, <3>1 DEF SessionFits
    <3>3. sess[s].lockStatus # "NO_MORE"
      BY <1>2, <1>3, <3>2 DEF LockFits
    <3> QED BY <1>1, <1>2, <1>6, <1>8, <3>1, <3>2, <3>3 DEF LockFits
  <2>3. ASSUME NEW cb \in InFlight(h) PROVE CallbackFits(s, cb)'
    <3>1. CallbackFits(s, cb) /\ cb.kind = "grant"
      BY <1>1, <1>4, <2>1, <2>3 DEF SessionFits
    <3> QED BY <1>1, <1>6, <1>8, <3>1 DEF CallbackFits
  <2> QED BY <1>8, <2>2, <2>3 DEF SessionFits
<1> QED BY <1>1, <1>2, <1>3, <1>6, <1>7, <1>9, <1>10, <1>11, CallStep

LEMMA UnlockSyncReturnStep ==
    ASSUME IInv, CInv, NEW t \in Threads, UnlockSyncReturn(t)
    PROVE  CInv'
<1> USE DEF svcVars
<1>1. PICK s, h : s = th[t].s /\ h = sess[s].handle
  OBVIOUS
<1>2. /\ th[t].pc = "unlock" /\ Resume(t) /\ UNCHANGED <<aborted, svcVars>>
      /\ sess' = [sess EXCEPT ![s].lockId = 0, ![s].waits = 0, ![s].lockStatus = "NO_MORE"]
  BY <1>1 DEF UnlockSyncReturn
<1>3. /\ t = MainThread /\ MainMoves /\ CallFits' /\ s \in Ids /\ h # 0
      /\ th'[MainThread].pc = "serve" /\ th'[MainThread].l = 0
      /\ \A x \in Threads : th'[x].pc \notin {"lock", "lockasync", "unlock"}
  BY <1>1, <1>2, ResumeMoves
<1>4. LocksOf(h) = {} /\ InFlight(h) = {}
  BY <1>1, <1>2, <1>3 DEF CInv, CallFits
<1>5. /\ \A u \in Ids : Holds(u) /\ sess'[u].res = sess[u].res
      /\ \A u \in Ids : u # s => sess'[u] = sess[u]
      /\ sess'[s].openInv = sess[s].openInv /\ sess'[s].lockInv = sess[s].lockInv
      /\ sess'[s].unlockInv = sess[s].unlockInv /\ sess'[s].lockId = 0
  BY <1>2, <1>3 DEF IInv, TypeInv, TypeOK, Sessions, Holds
<1>6. \A g : SameLocks(g)
  BY <1>2, SameServiceLocks
<1>7. InFlight(h)' = {} /\ LocksOf(h)' = {} /\ sess'[s].handle = h
  BY <1>1, <1>2, <1>3, <1>4, <1>5, <1>6, MainMovesKeeps DEF Holds, SameLocks
<1>8. OpenUnderHandle'
  BY <1>2, <1>5, SameOpen DEF Holds
<1>9. NamesTell'
  BY <1>2, <1>3, <1>5, NamesKeep
<1>10. SessionFits(s)'
  BY <1>7 DEF SessionFits
<1> QED BY <1>1, <1>2, <1>3, <1>5, <1>6, <1>8, <1>9, <1>10, CallStep

-----------------------------------------------------------------------------
\* Callbacks.

\* A callback that is under way for a session's handle is looked up to that session.
LEMMA FoundIsOwner ==
    ASSUME IInv, CInv, NEW t \in Threads, NEW s \in Visible(t), NEW h,
           h = sess[s].handle, h # 0, NEW cb \in InFlight(h)
    PROVE  SessionOf(t, cb) = s
<1>1. s \in Ids /\ sess[s].home \in {t, "global"}
  BY SeenIsOld
<1>2. h \in Handles /\ CallbackFits(s, cb)
  BY <1>1, HeldIsLive DEF SessionFits
<1>3. cb \in Callbacks
  BY <1>2, InFlightAreCallbacks DEF IInv
<1>4. /\ cb.kind \in {"open", "grant", "waiter", "release"}
      /\ cb.kind = "waiter" => cb.lock # 0
      /\ cb.kind # "waiter" => cb.inv # 0
  BY <1>3, ServiceAssumption, ZeroIsNone DEF Callbacks, GrantCb, ReleaseCb, WaiterCb,
     OpenCb
<1>5. \A u \in Ids : u # s =>
         /\ sess[s].openInv # 0 => sess[u].openInv # sess[s].openInv
         /\ sess[s].lockInv # 0 => sess[u].lockInv # sess[s].lockInv
         /\ sess[s].unlockInv # 0 => sess[u].unlockInv # sess[s].unlockInv
         /\ sess[s].lockId # 0 => sess[u].lockId # sess[s].lockId
  BY <1>1 DEF CInv, NamesTell
<1>6. Matching(cb) = {s}
  <2>1. CASE cb.kind = "open"
    BY <1>1, <1>2, <1>4, <1>5, <2>1 DEF Matching, CallbackFits
  <2>2. CASE cb.kind = "grant"
    BY <1>1, <1>2, <1>4, <1>5, <2>2 DEF Matching, CallbackFits
  <2>3. CASE cb.kind = "waiter"
    BY <1>1, <1>2, <1>4, <1>5, <2>3 DEF Matching, CallbackFits
  <2>4. CASE cb.kind = "release"
    BY <1>1, <1>2, <1>4, <1>5, <2>4 DEF Matching, CallbackFits
  <2> QED BY <1>4, <2>1, <2>2, <2>3, <2>4
<1>7. FirstOf({s}) = s
  BY <1>1, FirstOfIsIn
<1>8. {x \in {s} : sess[x].home = sess[s].home} = {s}
  OBVIOUS
<1>9. CASE sess[s].home = "global"
  BY <1>6, <1>7, <1>8, <1>9 DEF SessionOf, FirstSeen
<1>10. CASE sess[s].home = t
  <2>1. {x \in {s} : sess[x].home = "global"} = {}
    BY <1>10, DriverAssumption
  <2>2. {x \in {s} : sess[x].home = t} = {s}
    BY <1>10
  <2> QED BY <1>6, <1>7, <2>1, <2>2 DEF SessionOf, FirstSeen
<1> QED BY <1>1, <1>9, <1>10

\* A thread goes into a callback, or comes back from it.
LEMMA CallbackMoves ==
    ASSUME IInv, CInv, NEW t \in Threads, th[t].pc \in {"dispatch", "callback"},
           th'[t].pc \in {"dispatch", "callback"}, th'[t].h = th[t].h, th'[t].l = th[t].l,
           Live(th[t].h), \A x \in Threads : x # t => th'[x] = th[x],
           UNCHANGED <<svcHandle, svcLock>>, \A u \in Ids : Holds(u),
           \A g \in Handles : InFlight(g)' \subseteq InFlight(g)
    PROVE  /\ ThreadsAtWork' /\ \A s : SameCall(s)
           /\ \A x \in Threads : th'[x].pc \in {"lock", "lockasync", "unlock"} => th'[x] = th[x]
           /\ CallFits'
<1>1. MainThread \in Threads
  BY DriverAssumption
<1>2. \A x \in Threads : th'[x].pc \in {"lock", "lockasync", "unlock"} => th'[x] = th[x]
  OBVIOUS
<1>3. \A s : SameCall(s)
  BY <1>1 DEF SameCall, Taking
<1>4. ThreadsAtWork'
  <2>1. ASSUME NEW x \in Threads
        PROVE  /\ th'[x].pc \in {"lock", "lockasync", "unlock"} =>
                     x = MainThread /\ sess'[th'[x].s].handle # 0
               /\ th'[x].l # 0 => th'[x].pc \in {"lock", "lockasync", "unlock"}
               /\ th'[x].pc = "callback" => svcHandle'[th'[x].h] \in {"live", "mute"}
                                            /\ th'[x].h \in Handles
    <3>1. CASE x = t
      BY <3>1 DEF CInv, ThreadsAtWork, Live
    <3>2. CASE x # t
      <4>1. th[x].pc \in {"lock", "lockasync", "unlock"} => th[x].s \in Ids
        BY DEF IInv, TypeInv, InHand
      <4> QED BY <3>2, <4>1 DEF CInv, ThreadsAtWork, Live, Holds
    <3> QED BY <3>1, <3>2
  <2> QED BY <2>1 DEF ThreadsAtWork, Live
<1>5. CallFits'
  <2>1. CASE th'[MainThread].pc \notin {"lock", "lockasync", "unlock"}
    BY <2>1 DEF CallFits
  <2>2. CASE th'[MainThread].pc \in {"lock", "lockasync", "unlock"}
    <3>1. th'[MainThread] = th[MainThread]
      BY <1>1, <1>2, <2>2
    <3>2. PICK s, h : s = th[MainThread].s /\ h = sess[s].handle
      OBVIOUS
    <3>3. s \in Ids /\ h # 0
      BY <1>1, <2>2, <3>1, <3>2 DEF IInv, TypeInv, InHand, CInv, ThreadsAtWork
    <3>4. h \in Handles /\ sess'[s].handle = h
      BY <3>2, <3>3, HeldIsLive DEF Holds
    <3>5. InFlight(h)' \subseteq InFlight(h) /\ LocksOf(h)' = LocksOf(h)
      BY <3>4 DEF LocksOf
    <3>6. CallFits
      BY DEF CInv
    <3> QED BY <3>1, <3>2, <3>4, <3>5, <3>6 DEF CallFits
  <2> QED BY <2>1, <2>2
<1> QED BY <1>2, <1>3, <1>4, <1>5

LEMMA TakeOneStep ==
    ASSUME IInv, CInv, NEW t \in Threads, TakeOne(t)
    PROVE  CInv'
<1>1. PICK h : h = th[t].h
  OBVIOUS
<1>2. PICK cb \in svcOut[h] :
         TakeCallback(h, cb) /\ th' = [th EXCEPT ![t].pc = "callback", ![t].cb = cb]
  BY <1>1 DEF TakeOne
<1>3. /\ th[t].pc = "dispatch" /\ Live(h) /\ h \in Handles
      /\ UNCHANGED <<sess, aborted, svcHandle, svcOpen, svcLock>>
  BY <1>1, <1>2 DEF TakeOne, TakeCallback, Live
<1>4. /\ th'[t].pc = "callback" /\ th'[t].cb = cb /\ th'[t].h = h /\ th'[t].l = th[t].l
      /\ \A x \in Threads : x # t => th'[x] = th[x]
  BY <1>1, <1>2 DEF IInv, TypeInv, TypeOK, ThreadRecs
<1>5. /\ svcOut'[h] = svcOut[h] \ {cb}
      /\ \A g \in Handles : g # h => svcOut'[g] = svcOut[g]
  BY <1>2, <1>3 DEF TakeCallback, IInv, TypeInv, TypeOK, ServiceTypeOK
<1>6. \A g \in Handles : InFlight(g)' = InFlight(g)
  <2> SUFFICES ASSUME NEW g \in Handles PROVE InFlight(g)' = InFlight(g)
    OBVIOUS
  <2>1. ASSUME NEW b
        PROVE  (\E x \in Threads : th'[x].pc = "callback" /\ th'[x].h = g /\ th'[x].cb = b)
               <=> \/ \E x \in Threads : th[x].pc = "callback" /\ th[x].h = g /\ th[x].cb = b
                   \/ g = h /\ b = cb
    BY <1>3, <1>4
  <2>2. ASSUME NEW b PROVE b \in InFlight(g)' <=> b \in InFlight(g)
    <3>1. b \in InFlight(g) <=>
             \/ b \in svcOut[g]
             \/ \E x \in Threads : th[x].pc = "callback" /\ th[x].h = g /\ th[x].cb = b
      BY DEF InFlight, InCallback
    <3>2. b \in InFlight(g)' <=>
             \/ b \in svcOut'[g]
             \/ \E x \in Threads : th'[x].pc = "callback" /\ th'[x].h = g /\ th'[x].cb = b
      BY DEF InFlight, InCallback
    <3>3. b \in svcOut'[g] <=> b \in svcOut[g] /\ ~(g = h /\ b = cb)
      BY <1>5
    <3>4. g = h /\ b = cb => b \in svcOut[g]
      BY <1>2
    <3> QED BY <2>1, <3>1, <3>2, <3>3, <3>4
  <2> QED BY <2>2
<1>7. \A u \in Ids : Holds(u) /\ View(u)
  BY <1>3 DEF Holds, View
<1>8. /\ ThreadsAtWork' /\ \A s : SameCall(s)
      /\ \A x \in Threads : th'[x].pc \in {"lock", "lockasync", "unlock"} => th'[x] = th[x]
      /\ CallFits'
  BY <1>1, <1>3, <1>4, <1>6, <1>7, CallbackMoves
<1>9. HomesOfHolders' /\ HandlesAreHeld' /\ WatchedAsHeld'
  BY <1>3, <1>5, <1>7, HoldsKeep
<1>10. OpenUnderHandle'
  BY <1>3 DEF CInv, OpenUnderHandle, Live
<1>11. NamesTell'
  BY <1>3, <1>8 DEF CInv, NamesTell
<1>12. AllFits'
  <2> SUFFICES ASSUME NEW u \in Ids, sess[u].handle # 0 PROVE SessionFits(u)'
    BY <1>3 DEF AllFits
  <2>1. sess[u].handle \in Handles /\ SessionFits(u)
    BY HeldIsLive
  <2> QED BY <1>3, <1>6, <1>7, <1>8, <2>1, StillFits, SameServiceLocks
<1>13. RunsOnce'
  <2>1. \A x \in Threads : th'[x].pc = "callback" => x = t \/ th'[x] = th[x]
    BY <1>4
  <2>2. ASSUME NEW x \in Threads, x # t, th[x].pc = "callback", th[x].cb.kind # "waiter"
        PROVE  /\ th[x].cb \notin svcOut'[th[x].h]
               /\ th[x].h = h => th[x].cb # cb
    <3>1. th[x].cb \notin svcOut[th[x].h] /\ th[x].h \in Handles
      BY <2>2 DEF CInv, RunsOnce, ThreadsAtWork, Live
    <3> QED BY <1>2, <1>5, <3>1
  <2>3. ASSUME NEW x \in Threads, x # t, th[x].pc = "callback", th[x].h = h,
               cb.kind # "waiter"
        PROVE  th[x].cb # cb
    BY <2>2, <2>3
  <2>4. ASSUME NEW x \in Threads, th'[x].pc = "callback", th'[x].cb.kind # "waiter"
        PROVE  /\ th'[x].cb \notin svcOut'[th'[x].h]
               /\ \A u \in Threads : u # x /\ th'[u].pc = "callback" /\ th'[u].h = th'[x].h
                                     => th'[u].cb # th'[x].cb
    <3>1. CASE x = t
      BY <1>4, <1>5, <2>3, <2>4, <3>1
    <3>2. CASE x # t
      BY <1>4, <2>2, <2>4, <3>2 DEF CInv, RunsOnce
    <3> QED BY <3>1, <3>2
  <2> QED BY <2>4 DEF RunsOnce
<1> QED BY <1>3, <1>8, <1>9, <1>10, <1>11, <1>12, <1>13 DEF CInv, NoAbort

\* What a callback leaves of its session.
Ran(s, cb) ==
    /\ sess'[s].home = sess[s].home /\ sess'[s].handle = sess[s].handle
    /\ sess'[s].selobj = sess[s].selobj /\ sess'[s].flags = sess[s].flags
    /\ sess'[s].openInv = sess[s].openInv /\ sess'[s].lockInv = sess[s].lockInv
    /\ sess'[s].unlockInv = sess[s].unlockInv
    /\ sess'[s].lockId \in {0, sess[s].lockId}
    /\ sess'[s].res = IF cb.kind = "open" THEN cb.res ELSE sess[s].res
    /\ cb.kind \in {"waiter", "grant"} => sess'[s].lockId = sess[s].lockId
    /\ cb.kind = "waiter" => sess'[s].lockStatus = sess[s].lockStatus
    /\ cb.kind = "grant" => sess'[s].lockStatus = cb.status

LEMMA CallbackRan ==
    ASSUME IInv, NEW s \in Ids, NEW cb \in Callbacks,
           sess' = CASE cb.kind = "waiter"  -> WaiterCallback(cb, s)
                     [] cb.kind = "grant"   -> GrantCallback(cb, s)
                     [] cb.kind = "open"    -> OpenCallback(cb, s)
                     [] cb.kind = "release" -> ReleaseCallback(cb, s)
    PROVE  /\ Ran(s, cb) /\ cb.kind \in {"waiter", "grant", "open", "release"}
           /\ \A u \in Ids : u # s => sess'[u] = sess[u]
<1>1. cb.kind \in {"waiter", "grant", "open", "release"}
  BY DEF Callbacks, GrantCb, ReleaseCb, WaiterCb, OpenCb
<1>2. sess \in [Ids -> Sessions] /\ sess[s] \in Sessions
  BY DEF IInv, TypeInv, TypeOK
<1>3. CASE cb.kind = "waiter"
  <2>1. sess' = [sess EXCEPT ![s].waits = @ + 1]
    BY <1>3 DEF WaiterCallback
  <2> QED BY <1>2, <1>3, <2>1 DEF Ran, Sessions
<1>4. CASE cb.kind = "grant"
  <2>1. sess' = [sess EXCEPT ![s].lockStatus = cb.status]
    BY <1>4 DEF GrantCallback
  <2> QED BY <1>2, <1>4, <2>1 DEF Ran, Sessions
<1>5. CASE cb.kind = "open"
  <2>1. sess' = [sess EXCEPT ![s].res = cb.res, ![s].openErr = cb.err]
    BY <1>5 DEF OpenCallback
  <2> QED BY <1>2, <1>5, <2>1 DEF Ran, Sessions
<1>6. CASE cb.kind = "release"
  <2>1. sess' = [sess EXCEPT ![s].lockStatus = "NO_MORE", ![s].lockId = 0, ![s].waits = 0]
    BY <1>6 DEF ReleaseCallback
  <2> QED BY <1>2, <1>6, <2>1 DEF Ran, Sessions
<1> QED BY <1>1, <1>3, <1>4, <1>5, <1>6

\* The thread in a callback finds the session that holds the handle it dispatches.
LEMMA CallbackOwner ==
    ASSUME IInv, CInv, NEW t \in Threads, th[t].pc = "callback"
    PROVE  LET h == th[t].h
               s == th[t].s
           IN  /\ Live(h) /\ h \in Handles /\ h # 0 /\ s \in Ids /\ sess[s].handle = h
               /\ th[t].cb \in InFlight(h) /\ th[t].cb \in Callbacks
               /\ SessionOf(t, th[t].cb) = s
<1>1. PICK h, s : h = th[t].h /\ s = th[t].s
  OBVIOUS
<1>2. Live(h) /\ h \in Handles /\ h # 0
  BY <1>1, ZeroIsNone DEF CInv, ThreadsAtWork, Live
<1>3. PICK u \in Ids : sess[u].handle = h
  BY <1>2, OwnerOf
<1>4. u = s
  BY <1>1, <1>2, <1>3 DEF IInv, OwnInv, HandleIsOfSession, Dispatching
<1>5. sess[s].home \in {t, "global"}
  BY <1>1, <1>2, <1>3, <1>4
     DEF IInv, OwnInv, SessionIsReachable, CInv, HomesOfHolders
<1>6. s \in Visible(t)
  BY <1>3, <1>4, <1>5 DEF Visible
<1>7. th[t].cb \in InFlight(h) /\ th[t].cb \in Callbacks
  BY <1>1 DEF InFlight, InCallback, IInv, TypeInv, InHand
<1> QED BY <1>1, <1>2, <1>3, <1>4, <1>6, <1>7, FoundIsOwner

LEMMA RunCallbackStep ==
    ASSUME IInv, CInv, NEW t \in Threads, RunCallback(t)
    PROVE  CInv'
<1>1. PICK h, s, cb : h = th[t].h /\ s = th[t].s /\ cb = th[t].cb
  OBVIOUS
<1>2. th[t].pc = "callback"
  BY DEF RunCallback
<1>3. /\ Live(h) /\ h \in Handles /\ h # 0 /\ s \in Ids /\ sess[s].handle = h
      /\ cb \in InFlight(h) /\ cb \in Callbacks /\ SessionOf(t, cb) = s
  BY <1>1, <1>2, CallbackOwner
<1>4. /\ sess' = CASE cb.kind = "waiter"  -> WaiterCallback(cb, s)
                   [] cb.kind = "grant"   -> GrantCallback(cb, s)
                   [] cb.kind = "open"    -> OpenCallback(cb, s)
                   [] cb.kind = "release" -> ReleaseCallback(cb, s)
      /\ th' = [th EXCEPT ![t].pc = "dispatch", ![t].cb = NoCb,
                          ![t].how = IF @ = "ONE" THEN "NONE" ELSE @]
      /\ UNCHANGED <<aborted, svcVars>>
  BY <1>1, <1>3, ZeroIsNone DEF RunCallback
<1>5. /\ Ran(s, cb) /\ cb.kind \in {"waiter", "grant", "open", "release"}
      /\ \A u \in Ids : u # s => sess'[u] = sess[u]
  BY <1>3, <1>4, CallbackRan
<1>6. /\ th'[t].pc = "dispatch" /\ th'[t].h = h /\ th'[t].l = th[t].l
      /\ \A x \in Threads : x # t => th'[x] = th[x]
  BY <1>1, <1>4 DEF IInv, TypeInv, TypeOK, ThreadRecs
<1>7. /\ svcHandle' = svcHandle /\ svcOpen' = svcOpen /\ svcLock' = svcLock
      /\ svcOut' = svcOut /\ aborted' = aborted
  BY <1>4 DEF svcVars
<1>8. /\ \A g \in Handles : InFlight(g)' \subseteq InFlight(g)
      /\ \A g \in Handles : g # h => InFlight(g)' = InFlight(g)
      /\ cb.kind # "waiter" => cb \notin InFlight(h)'
  <2>1. \A g, b : b \in InFlight(g) <=>
           \/ b \in svcOut[g]
           \/ \E x \in Threads : th[x].pc = "callback" /\ th[x].h = g /\ th[x].cb = b
    BY DEF InFlight, InCallback
  <2>2. ASSUME NEW g, NEW b
        PROVE  b \in InFlight(g)' <=>
                  \/ b \in svcOut[g]
                  \/ \E x \in Threads \ {t} :
                        th[x].pc = "callback" /\ th[x].h = g /\ th[x].cb = b
    <3>1. b \in InFlight(g)' <=>
             \/ b \in svcOut'[g]
             \/ \E x \in Threads : th'[x].pc = "callback" /\ th'[x].h = g /\ th'[x].cb = b
      BY DEF InFlight, InCallback
    <3>2. (\E x \in Threads : th'[x].pc = "callback" /\ th'[x].h = g /\ th'[x].cb = b)
          <=> \E x \in Threads \ {t} :
                 th[x].pc = "callback" /\ th[x].h = g /\ th[x].cb = b
      BY <1>6
    <3> QED BY <1>7, <3>1, <3>2
  <2>3. cb.kind # "waiter" =>
           /\ cb \notin svcOut[h]
           /\ \A x \in Threads \ {t} : th[x].pc = "callback" /\ th[x].h = h => th[x].cb # cb
    BY <1>1, <1>2 DEF CInv, RunsOnce
  <2>4. \A g \in Handles : InFlight(g)' \subseteq InFlight(g)
    BY <2>1, <2>2
  <2>5. \A g \in Handles : g # h => InFlight(g)' = InFlight(g)
    <3> SUFFICES ASSUME NEW g \in Handles, g # h, NEW b
                 PROVE  b \in InFlight(g)' <=> b \in InFlight(g)
      BY <2>4
    <3> QED BY <1>1, <2>1, <2>2
  <2>6. cb.kind # "waiter" => cb \notin InFlight(h)'
    BY <2>2, <2>3
  <2> QED BY <2>4, <2>5, <2>6
<1>9. \A u \in Ids : Holds(u)
  BY <1>5 DEF Holds, Ran
<1>10. /\ ThreadsAtWork' /\ \A u : SameCall(u)
       /\ \A x \in Threads : th'[x].pc \in {"lock", "lockasync", "unlock"} => th'[x] = th[x]
       /\ CallFits'
  BY <1>1, <1>2, <1>3, <1>6, <1>7, <1>8, <1>9, CallbackMoves
<1>11. HomesOfHolders' /\ HandlesAreHeld' /\ WatchedAsHeld'
  BY <1>7, <1>9, HoldsKeep
<1>12. SessionFits(s) /\ CallbackFits(s, cb)
  BY <1>3, HeldIsLive DEF SessionFits
<1>13. OpenUnderHandle'
  <2>1. sess'[s].res \in {0, h, sess[s].res}
    BY <1>3, <1>5, <1>12 DEF Ran, CallbackFits
  <2>2. \A u \in Ids : sess'[u].handle = sess[u].handle
    BY <1>9 DEF Holds
  <2>3. \A u \in Ids : sess'[u].res # 0 =>
           sess'[u].res = sess'[u].handle \/ svcHandle[sess'[u].res] = "dead"
    BY <1>3, <1>5, <2>1, <2>2 DEF CInv, OpenUnderHandle
  <2> QED BY <1>7, <2>3 DEF CInv, OpenUnderHandle, Live
<1>14. NamesTell'
  <2>1. \A x \in Threads : th[x].pc \in {"lock", "lockasync"} => th[x].l # 0
    BY DEF CInv, ThreadsAtWork, CallFits
  <2>2. \A x \in Threads, u \in Ids : th'[x].pc \in {"lock", "lockasync"} =>
           sess'[u].lockId # th'[x].l
    BY <1>5, <1>10, <2>1 DEF CInv, NamesTell, Ran
  <2> QED BY <1>3, <1>5, <1>7, <2>2, NamesKeep DEF Ran
<1>15. SessionFits(s)'
  <2>1. InFlight(h)' \subseteq InFlight(h)
    BY <1>3, <1>8
  <2>2. LocksOf(h)' = LocksOf(h) /\ sess'[s].handle = h
    BY <1>3, <1>5, <1>7 DEF LocksOf, Ran
  <2>3. CASE cb.kind \in {"open", "release"}
    <3>1. InFlight(h)' = {} /\ LocksOf(h)' = {}
      BY <1>3, <1>8, <1>12, <2>1, <2>2, <2>3 DEF CallbackFits
    <3> QED BY <2>2, <3>1 DEF SessionFits
  <2>4. CASE cb.kind \in {"waiter", "grant"}
    <3>1. ASSUME NEW l \in LocksOf(h) PROVE LockFits(s, l)'
      <4>1. LockFits(s, l)
        BY <1>3, <1>12, <3>1 DEF SessionFits
      <4>2. svcLock[l].st \notin {"pending", "releasing"}
        BY <1>3, <4>1 DEF LockFits
      <4>3. sess'[s].lockId = sess[s].lockId
        BY <1>5, <2>4 DEF Ran
      <4>4. sess'[s].lockStatus \in Results \/ sess'[s].lockStatus = sess[s].lockStatus
        BY <1>3, <1>5, <2>4 DEF Ran, Callbacks, GrantCb, WaiterCb, OpenCb, ReleaseCb
      <4>5. /\ Taking(s, l)' <=> Taking(s, l)
            /\ Taking(s, l) => th'[MainThread].pc = th[MainThread].pc
        BY <1>10 DEF SameCall
      <4> QED BY <1>3, <1>7, <2>2, <4>1, <4>2, <4>3, <4>4, <4>5 DEF LockFits, Results
    <3>2. ASSUME NEW b \in InFlight(h)' PROVE CallbackFits(s, b)'
      <4>1. b \in InFlight(h) /\ CallbackFits(s, b)
        BY <1>3, <1>12, <2>1, <3>2 DEF SessionFits
      <4>2. b.kind \notin {"open", "release"}
        BY <1>3, <2>4, <4>1 DEF CallbackFits
      <4>3. cb.kind = "grant" => b.kind # "grant"
        BY <1>8, <1>12, <3>2, <4>1, <1>3 DEF CallbackFits
      <4> QED BY <1>3, <1>5, <2>1, <2>2, <2>4, <4>1, <4>2, <4>3 DEF CallbackFits, Ran
    <3> QED BY <2>2, <3>1, <3>2 DEF SessionFits
  <2> QED BY <1>5, <2>3, <2>4
<1>16. AllFits'
  <2>1. \A u \in Ids : u # s => View(u) /\ SameCall(u) /\ sess[u].handle # h
    BY <1>3, <1>5, <1>10 DEF View, IInv, OwnInv, HandlesAreOwned
  <2>2. \A g \in Handles : g # h => InFlight(g)' = InFlight(g) /\ SameLocks(g)
    BY <1>7, <1>8, SameServiceLocks
  <2> QED BY <1>3, <1>15, <2>1, <2>2, OthersFit
<1>17. RunsOnce'
  BY <1>6, <1>7 DEF CInv, RunsOnce
<1> QED BY <1>7, <1>10, <1>11, <1>13, <1>14, <1>16, <1>17 DEF CInv, NoAbort

-----------------------------------------------------------------------------
\* What the library does by itself to a lock of an open handle.
Owner(s, h, l) ==
    /\ s \in Ids /\ h = sess[s].handle /\ h # 0 /\ h \in Handles /\ Live(h)
    /\ svcLock[l].h = h /\ h \in svcOpen /\ LocksOf(h) = {l} /\ LockFits(s, l)
    /\ \A u \in Ids : u # s => sess[u].handle # h
    /\ \A cb \in InFlight(h) : CallbackFits(s, cb)

LEMMA LockOwner ==
    ASSUME IInv, CInv, NEW l \in LockIds,
           svcLock[l].st \in {"pending", "granted", "releasing"}
    PROVE  \E s, h : Owner(s, h, l)
<1>1. PICK h : h = svcLock[l].h
  OBVIOUS
<1>2. h \in svcOpen /\ Live(h)
  BY <1>1 DEF CInv, OpenUnderHandle
<1>3. h \in Handles /\ h # 0
  BY <1>2, ZeroIsNone DEF Live
<1>4. PICK s \in Ids : /\ sess[s].handle = h /\ SessionFits(s)
                       /\ \A u \in Ids : sess[u].handle = h => u = s
  BY <1>2, OwnerOf
<1>5. l \in LocksOf(h)
  BY <1>1, IsLockOf
<1>6. LockFits(s, l) /\ \A cb \in InFlight(h) : CallbackFits(s, cb)
  BY <1>4, <1>5 DEF SessionFits
<1>7. LocksOf(h) = {l}
  BY <1>4, <1>6 DEF LockFits
<1> QED BY <1>1, <1>2, <1>3, <1>4, <1>6, <1>7 DEF Owner

\* A call for the lock's session is one that waits for this lock.
LEMMA CallForLock ==
    ASSUME IInv, CInv, NEW l \in LockIds, NEW s, NEW h, Owner(s, h, l),
           th[MainThread].pc \in {"lock", "lockasync", "unlock"}, th[MainThread].s = s
    PROVE  /\ th[MainThread].pc \in {"lock", "lockasync"} /\ th[MainThread].l = l
           /\ svcLock[l].st \in {"pending", "granted", "gone"}
           /\ th[MainThread].pc = "lock" => svcLock[l].inv = 0
<1>1. CallFits
  BY DEF CInv
<1> QED BY <1>1 DEF CallFits, Owner

LEMMA ServiceStep ==
    ASSUME IInv, CInv, UNCHANGED <<sess, th, aborted, svcHandle, svcOpen>>,
           NEW l \in LockIds, NEW s, NEW h, Owner(s, h, l), svcLock'[l].h = h,
           svcLock'[l].st # "unused", svcLock'[l].inv # 0 => svcLock'[l].st = "pending",
           \A k \in LockIds : k # l => svcLock'[k] = svcLock[k],
           \A g \in Handles : g # h => svcOut'[g] = svcOut[g],
           InFlight(h) = {} \/ \A cb \in svcOut'[h] : cb \in svcOut[h] \/ cb.kind = "waiter",
           SessionFits(s)',
           th[MainThread].pc \in {"lock", "lockasync", "unlock"} /\ th[MainThread].s = s
               => CallFits'
    PROVE  CInv'
<1>1. /\ s \in Ids /\ h = sess[s].handle /\ h # 0 /\ h \in Handles /\ Live(h)
      /\ svcLock[l].h = h /\ h \in svcOpen /\ LocksOf(h) = {l}
      /\ \A u \in Ids : u # s => sess[u].handle # h
  BY DEF Owner
<1>2. SameWork /\ \A u \in Ids : Holds(u) /\ View(u)
  BY DEF SameWork, Holds, View
<1>3. \A g : (Live(g)' <=> Live(g))
  BY DEF Live
<1>4. HomesOfHolders' /\ HandlesAreHeld' /\ WatchedAsHeld'
  BY <1>1, <1>2, HoldsKeep
<1>5. ThreadsAtWork'
  BY <1>2, <1>3, SameWorkThreads
<1>6. OpenUnderHandle'
  BY <1>1 DEF CInv, OpenUnderHandle, Live
<1>7. NamesTell'
  <2>1. \A u \in Ids : sess[u].lockId # 0 => svcLock'[sess[u].lockId].st # "unused"
    BY Fields DEF IInv, CInv, NamesTell
  <2> QED BY <2>1 DEF CInv, NamesTell
<1>8. \A g : g # h => SameLocks(g)
  BY <1>1 DEF LocksOf, SameLocks
<1>9. /\ \A u : SameCall(u)
      /\ \A g \in Handles : g # h => InFlight(g)' = InFlight(g)
  BY <1>2, SameWorkKeeps
<1>10. AllFits'
  <2>1. \A u \in Ids : u # s => View(u) /\ SameCall(u) /\ sess[u].handle # h
    BY <1>1, <1>2, <1>9
  <2>2. \A g \in Handles : g # h => InFlight(g)' = InFlight(g) /\ SameLocks(g)
    BY <1>8, <1>9
  <2> QED BY <1>1, <2>1, <2>2, OthersFit
<1>11. RunsOnce'
  <2>1. ASSUME NEW x \in Threads, th[x].pc = "callback", th[x].cb.kind # "waiter",
               th[x].cb \notin svcOut[th[x].h]
        PROVE  th[x].cb \notin svcOut'[th[x].h]
    <3>1. th[x].h \in Handles
      BY <2>1 DEF CInv, ThreadsAtWork, Live
    <3>2. th[x].h = h => th[x].cb \in InFlight(h)
      BY <2>1 DEF InFlight, InCallback
    <3> QED BY <2>1, <3>1, <3>2
  <2> QED BY <1>2, <2>1, SameWorkRunsOnce
<1>12. CallFits'
  <2>1. CASE th[MainThread].pc \notin {"lock", "lockasync", "unlock"}
    BY <1>2, <2>1, NoCall
  <2>2. CASE th[MainThread].pc \in {"lock", "lockasync", "unlock"} /\ th[MainThread].s # s
    <3>1. PICK u, g : u = th[MainThread].s /\ g = sess[u].handle
      OBVIOUS
    <3>2. u \in Ids /\ g \in Handles /\ g # h
      BY <1>1, <1>2, <2>2, <3>1, SameWorkInCalls
    <3>3. LocksOf(g)' = LocksOf(g) /\ InFlight(g)' = InFlight(g)
      BY <1>8, <1>9, <3>2 DEF SameLocks
    <3>4. CallFits
      BY DEF CInv
    <3>5. th[MainThread].pc \in {"lock", "lockasync"} =>
             svcLock'[th[MainThread].l] = svcLock[th[MainThread].l]
      <4>1. th[MainThread].l \in LockIds \cup {0}
        BY <1>2, <2>2, SameWorkInCalls
      <4> QED BY <1>1, <3>1, <3>2, <3>4, <4>1 DEF CallFits
    <3> QED BY <3>1, <3>3, <3>4, <3>5 DEF CallFits
  <2> QED BY <2>1, <2>2
<1> QED BY <1>4, <1>5, <1>6, <1>7, <1>10, <1>11, <1>12 DEF CInv, NoAbort

LEMMA AnswerStep ==
    ASSUME IInv, CInv, NEW l \in LockIds, Answer(l), UNCHANGED <<sess, th, aborted>>
    PROVE  CInv'
<1>1. PICK r \in Results, e \in Errors :
        LET won == r = "GRANTED" /\ e = "OK"
            k   == svcLock[l]
        IN /\ k.st = "pending"
           /\ won => Held = {}
           /\ e = "ERR" => r = "NOT_QUEUED"
           /\ svcLock' = [svcLock EXCEPT
                            ![l].st = IF won THEN "granted" ELSE "gone",
                            ![l].inv = 0,
                            ![l].res = IF k.inv # 0 THEN "NONE"
                                       ELSE IF e = "OK" THEN r ELSE "ERR"]
           /\ svcOut' = IF k.inv = 0 THEN svcOut
                        ELSE [svcOut EXCEPT ![k.h] = @ \cup
                               {[kind |-> "grant", lock |-> l, inv |-> k.inv,
                                 status |-> r, err |-> e]}]
           /\ UNCHANGED <<svcHandle, svcOpen>>
  BY DEF Answer
<1>2. PICK s, h : Owner(s, h, l)
  BY <1>1, LockOwner
<1>3. /\ s \in Ids /\ h = sess[s].handle /\ h \in Handles /\ svcLock[l].h = h
      /\ LocksOf(h) = {l} /\ LockFits(s, l)
  BY <1>2 DEF Owner
<1>4. PICK cb : cb = [kind |-> "grant", lock |-> l, inv |-> svcLock[l].inv,
                      status |-> r, err |-> e]
  OBVIOUS
<1>5. /\ svcLock[l].st = "pending" /\ InFlight(h) = {}
      /\ svcLock[l].inv # 0 => svcLock[l].inv = sess[s].lockInv /\ sess[s].lockStatus = "NONE"
  BY <1>1, <1>3 DEF LockFits
<1>6. /\ svcLock'[l].st \in {"granted", "gone"} /\ svcLock'[l].inv = 0
      /\ svcLock'[l].h = h
      /\ svcLock'[l].st = "granted" /\ svcLock[l].inv = 0 => svcLock'[l].res = "GRANTED"
      /\ \A k \in LockIds : k # l => svcLock'[k] = svcLock[k]
      /\ UNCHANGED <<svcHandle, svcOpen>>
  BY <1>1, <1>3 DEF IInv, TypeInv, TypeOK, ServiceTypeOK, LockRecs
<1>7. /\ svcLock[l].inv = 0 => svcOut' = svcOut
      /\ svcLock[l].inv # 0 => svcOut'[h] = svcOut[h] \cup {cb}
      /\ \A g \in Handles : g # h => svcOut'[g] = svcOut[g]
  BY <1>1, <1>3, <1>4 DEF IInv, TypeInv, TypeOK, ServiceTypeOK
<1>8. InFlight(h)' = IF svcLock[l].inv = 0 THEN {} ELSE {cb}
  <2>1. SameWork
    BY DEF SameWork
  <2>2. InFlight(h) = svcOut[h] \cup Running(h) /\ InFlight(h)' = svcOut'[h] \cup Running(h)
    BY <2>1, SameWorkKeeps
  <2> QED BY <1>5, <1>7, <2>2
<1>9. LocksOf(h)' = IF svcLock'[l].st = "granted" THEN {l} ELSE {}
  <2>1. \A k \in LockIds : k # l => k \notin LocksOf(h)
    BY <1>3
  <2> QED BY <1>6, <2>1 DEF LocksOf
<1>10. SessionFits(s)'
  <2>1. svcLock'[l].st = "granted" => LockFits(s, l)'
    BY <1>3, <1>6, <1>9 DEF LockFits, Taking
  <2>2. svcLock[l].inv # 0 => CallbackFits(s, cb)'
    BY <1>3, <1>4, <1>5, <1>8 DEF CallbackFits
  <2> QED BY <1>3, <1>8, <1>9, <2>1, <2>2 DEF SessionFits
<1>11. ASSUME th[MainThread].pc \in {"lock", "lockasync", "unlock"}, th[MainThread].s = s
       PROVE  CallFits'
  <2>1. /\ th[MainThread].pc \in {"lock", "lockasync"} /\ th[MainThread].l = l
        /\ th[MainThread].pc = "lock" => svcLock[l].inv = 0
    BY <1>2, <1>11, CallForLock
  <2>2. \A b \in InFlight(h)' : b.kind = "grant"
    BY <1>4, <1>8
  <2>3. LocksOf(h)' \subseteq {l} /\ l # 0
    BY <1>9, ZeroIsNone
  <2> QED BY <1>3, <1>6, <1>8, <1>11, <2>1, <2>2, <2>3 DEF CallFits
<1> QED BY <1>2, <1>5, <1>6, <1>7, <1>10, <1>11, ServiceStep

LEMMA ReleaseStep ==
    ASSUME TestCases, IInv, CInv, NEW l \in LockIds, Release(l),
           UNCHANGED <<sess, th, aborted>>
    PROVE  CInv'
<1>1. /\ svcLock[l].st = "releasing" /\ UNCHANGED <<svcHandle, svcOpen>>
      /\ svcLock' = [svcLock EXCEPT ![l].st = "gone", ![l].uinv = 0]
      /\ svcOut' = [svcOut EXCEPT ![svcLock[l].h] = @ \cup
                       {[kind |-> "release", lock |-> l, inv |-> svcLock[l].uinv,
                         err |-> "OK"]}]
  BY DEF Release, TestCases
<1>2. PICK s, h : Owner(s, h, l)
  BY <1>1, LockOwner
<1>3. /\ s \in Ids /\ h = sess[s].handle /\ h \in Handles /\ svcLock[l].h = h
      /\ LocksOf(h) = {l} /\ LockFits(s, l)
  BY <1>2 DEF Owner
<1>4. PICK cb : cb = [kind |-> "release", lock |-> l, inv |-> svcLock[l].uinv, err |-> "OK"]
  OBVIOUS
<1>5. svcLock[l].inv = 0
  BY <1>1 DEF CInv, OpenUnderHandle
<1>6. /\ svcLock'[l].st = "gone" /\ svcLock'[l].inv = 0 /\ svcLock'[l].h = h
      /\ \A k \in LockIds : k # l => svcLock'[k] = svcLock[k]
  BY <1>1, <1>3, <1>5 DEF IInv, TypeInv, TypeOK, ServiceTypeOK, LockRecs
<1>7. /\ svcOut'[h] = svcOut[h] \cup {cb}
      /\ \A g \in Handles : g # h => svcOut'[g] = svcOut[g]
  BY <1>1, <1>3, <1>4 DEF IInv, TypeInv, TypeOK, ServiceTypeOK
<1>8. ~(th[MainThread].pc \in {"lock", "lockasync", "unlock"} /\ th[MainThread].s = s)
  BY <1>1, <1>2, CallForLock
<1>9. /\ InFlight(h) = {} /\ svcLock[l].uinv = sess[s].unlockInv
      /\ sess[s].lockStatus # "NO_MORE"
  BY <1>1, <1>3, <1>8 DEF LockFits, Taking
<1>10. InFlight(h)' = {cb}
  <2>1. SameWork
    BY DEF SameWork
  <2>2. InFlight(h) = svcOut[h] \cup Running(h) /\ InFlight(h)' = svcOut'[h] \cup Running(h)
    BY <2>1, SameWorkKeeps
  <2> QED BY <1>7, <1>9, <2>2
<1>11. LocksOf(h)' = {}
  <2>1. \A k \in LockIds : k # l => k \notin LocksOf(h)
    BY <1>3
  <2> QED BY <1>6, <2>1 DEF LocksOf
<1>12. SessionFits(s)'
  <2>1. CallbackFits(s, cb)'
    BY <1>3, <1>4, <1>9, <1>10, <1>11 DEF CallbackFits
  <2>2. sess'[s].handle = h
    BY <1>3
  <2>3. \A c \in InFlight(h)' : CallbackFits(s, c)'
    BY <1>10, <2>1
  <2>4. \A k \in LocksOf(h)' : LockFits(s, k)'
    BY <1>11
  <2> QED BY <2>2, <2>3, <2>4 DEF SessionFits
<1> QED BY ZenonT(60), <1>1, <1>2, <1>6, <1>7, <1>8, <1>9, <1>12, ServiceStep

\* Nobody waits for a lock whose holder has yet to hear that it has it.
LEMMA WaiterStep ==
    ASSUME TestCases, IInv, CInv, NEW l \in LockIds, Waiter(l), MayWait(l),
           UNCHANGED <<sess, th, aborted>>
    PROVE  CInv'
<1>1. /\ svcLock[l].st = "granted" /\ UNCHANGED <<svcHandle, svcOpen>>
      /\ svcLock' = [svcLock EXCEPT ![l].waits = @ + 1]
      /\ svcOut' = [svcOut EXCEPT ![svcLock[l].h] = @ \cup
                       {[kind |-> "waiter", lock |-> l, n |-> svcLock[l].waits + 1]}]
  BY DEF Waiter
<1>2. PICK s, h : Owner(s, h, l)
  BY <1>1, LockOwner
<1>3. /\ s \in Ids /\ h = sess[s].handle /\ h \in Handles /\ svcLock[l].h = h
      /\ LocksOf(h) = {l} /\ LockFits(s, l) /\ \A b \in InFlight(h) : CallbackFits(s, b)
  BY <1>2 DEF Owner
<1>4. PICK cb : cb = [kind |-> "waiter", lock |-> l, n |-> svcLock[l].waits + 1]
  OBVIOUS
<1>5. svcLock[l].inv = 0
  BY <1>1 DEF CInv, OpenUnderHandle
<1>6. /\ svcLock'[l].st = "granted" /\ svcLock'[l].inv = 0 /\ svcLock'[l].h = h
      /\ \A k \in LockIds : k # l => svcLock'[k] = svcLock[k]
  BY <1>1, <1>3, <1>5 DEF IInv, TypeInv, TypeOK, ServiceTypeOK, LockRecs
<1>7. /\ svcOut'[h] = svcOut[h] \cup {cb}
      /\ \A g \in Handles : g # h => svcOut'[g] = svcOut[g]
  BY <1>1, <1>3, <1>4 DEF IInv, TypeInv, TypeOK, ServiceTypeOK
<1>8. th[MainThread].l # l
  BY DriverAssumption DEF MayWait, TestCases
<1>9. ~(th[MainThread].pc \in {"lock", "lockasync", "unlock"} /\ th[MainThread].s = s)
  BY <1>2, <1>8, CallForLock
<1>10. sess[s].lockId = l /\ sess[s].lockStatus # "NO_MORE"
  BY <1>3, <1>8 DEF LockFits, Taking
<1>11. InFlight(h)' = InFlight(h) \cup {cb}
  <2>1. SameWork
    BY DEF SameWork
  <2>2. InFlight(h) = svcOut[h] \cup Running(h) /\ InFlight(h)' = svcOut'[h] \cup Running(h)
    BY <2>1, SameWorkKeeps
  <2> QED BY <1>7, <2>2
<1>12. LocksOf(h)' = {l}
  <2>1. \A k \in LockIds : k # l => k \notin LocksOf(h)
    BY <1>3
  <2> QED BY <1>6, <2>1 DEF LocksOf
<1>13. SessionFits(s)'
  <2>1. LockFits(s, l)'
    BY <1>3, <1>6, <1>10, <1>12 DEF LockFits
  <2>2. CallbackFits(s, cb)'
    BY <1>4, <1>10 DEF CallbackFits
  <2>3. ASSUME NEW b \in InFlight(h) PROVE CallbackFits(s, b)'
    <3>1. CallbackFits(s, b) /\ b.kind \notin {"open", "release"}
      BY <1>3, <2>3 DEF CallbackFits
    <3> QED BY <1>3, <1>4, <1>11, <2>3, <3>1 DEF CallbackFits
  <2> QED BY <1>3, <1>11, <1>12, <2>1, <2>2, <2>3 DEF SessionFits
<1>14. \A b \in svcOut'[h] : b \in svcOut[h] \/ b.kind = "waiter"
  BY <1>4, <1>7
<1> QED BY <1>1, <1>2, <1>6, <1>7, <1>9, <1>13, <1>14, ServiceStep

-----------------------------------------------------------------------------
\* Every step, and what follows for the properties the runs check.
LEMMA RequestStep ==
    ASSUME TestCases, IInv, CInv, NEW t \in Threads, Request(t)
    PROVE  CInv'
<1>1. CASE CreateSession(t)
  BY <1>1, CreateSessionStep
<1>2. CASE UnknownSession(t)
  BY <1>2 DEF UnknownSession, TestCases
<1>3. CASE GetStatus(t)
  BY <1>3, RefusedStep DEF GetStatus
<1>4. ASSUME NEW s \in Visible(t),
             \/ DeleteSession(t, s) \/ Initialize(t, s) \/ SelectionObjectGet(t, s)
             \/ Dispatch(t, s) \/ Finalize(t, s)
      PROVE  CInv'
  BY <1>4, SeenIsOld, DeleteSessionStep, InitializeStep, SelectionObjectGetStep,
     DispatchStep, FinalizeStep
<1>5. ASSUME NEW s \in Visible(t),
             \/ ResourceOpen(t, s) \/ ResourceOpenAsync(t, s) \/ ResourceClose(t, s)
             \/ GetWaitCount(t, s)
      PROVE  CInv'
  BY <1>5, SeenIsOld, ResourceOpenStep, ResourceOpenAsyncStep, ResourceCloseStep,
     GetWaitCountStep
<1>6. ASSUME NEW s \in Visible(t),
             \/ LockSync(t, s) \/ LockAsync(t, s) \/ UnlockSync(t, s) \/ UnlockAsync(t, s)
      PROVE  CInv'
  BY <1>6, SeenIsOld, LockSyncStep, LockAsyncStep, UnlockSyncStep, UnlockAsyncStep
<1> QED BY <1>1, <1>2, <1>3, <1>4, <1>5, <1>6 DEF Request

LEMMA NextCInv == TestCases /\ IInv /\ CInv /\ [Next]_vars => CInv'
<1> SUFFICES ASSUME TestCases, IInv, CInv, [Next]_vars PROVE CInv'
  OBVIOUS
<1>1. CASE UNCHANGED vars
  <2>1. SameWork /\ UNCHANGED <<sess, aborted, svcVars>>
    BY <1>1 DEF vars, SameWork
  <2> QED BY <2>1, MoveStep
<1>2. ASSUME NEW t \in Threads, Request(t) PROVE CInv'
  BY <1>2, RequestStep
<1>3. ASSUME NEW t \in Threads, Return(t) PROVE CInv'
  BY <1>3, LockSyncReturnStep, LockAsyncReturnStep, UnlockSyncReturnStep DEF Return
<1>4. ASSUME NEW t \in Threads, Loop(t) PROVE CInv'
  BY <1>4, SelectStep, CheckStep, TakeOneStep, RunCallbackStep DEF Loop
<1>5. ASSUME NEW l \in LockIds, Service(l) PROVE CInv'
  BY <1>5, AnswerStep, ReleaseStep, WaiterStep DEF Service
<1> QED BY <1>1, <1>2, <1>3, <1>4, <1>5 DEF Next

LEMMA InitCInv == Init => CInv
<1> SUFFICES ASSUME Init PROVE CInv
  OBVIOUS
<1>1. /\ \A s \in Ids : /\ sess[s].home = "none" /\ sess[s].handle = 0
                        /\ sess[s].selobj = 0 /\ sess[s].res = 0 /\ sess[s].lockId = 0
                        /\ sess[s].openInv = 0 /\ sess[s].lockInv = 0
                        /\ sess[s].unlockInv = 0
      /\ aborted = "no"
  BY DEF Init, NewSession
<1>2. \A t \in Threads : th[t].pc = "select" /\ th[t].l = 0
  BY DEF Init, IdleThread
<1>3. /\ \A h \in Handles : svcHandle[h] = "unused" /\ svcOut[h] = {}
      /\ svcOpen = {}
      /\ \A l \in LockIds : svcLock[l].st = "unused" /\ svcLock[l].inv = 0
  BY DEF Init, ServiceInit, UnusedLock
<1>4. HomesOfHolders /\ HandlesAreHeld /\ WatchedAsHeld
  BY <1>1, <1>3 DEF HomesOfHolders, HandlesAreHeld, WatchedAsHeld, Live
<1>5. ThreadsAtWork /\ RunsOnce
  BY <1>2 DEF ThreadsAtWork, RunsOnce
<1>6. OpenUnderHandle
  BY <1>1, <1>3 DEF OpenUnderHandle
<1>7. NamesTell
  BY <1>1, <1>2 DEF NamesTell
<1>8. AllFits
  BY <1>1 DEF AllFits
<1>9. CallFits
  BY <1>2, DriverAssumption DEF CallFits
<1> QED BY <1>1, <1>4, <1>5, <1>6, <1>7, <1>8, <1>9 DEF CInv, NoAbort

LEMMA CInvHolds == ASSUME TestCases PROVE Spec => [](IInv /\ CInv)
<1>1. Init => IInv /\ CInv
  BY InitTypeInv, InitOwnInv, InitCInv DEF IInv
<1>2. IInv /\ CInv /\ [Next]_vars => (IInv /\ CInv)'
  BY NextOwnInv, NextCInv
<1> QED BY <1>1, <1>2, PTL DEF Spec

\* Clients that behave as the test cases do never drive the daemon into one of its
\* assertions or aborts: the session is finalized before it is deleted, the thread that
\* is asked to dispatch is one that may, and each callback's lookup finds a session
\* (lck_driver.c:350, 368, 385, 406, 473, 661, 1072).
THEOREM LckLives == ASSUME TestCases PROVE Spec => []NoAbort
<1>1. CInv => NoAbort
  BY DEF CInv
<1> QED BY <1>1, CInvHolds, PTL

\* The lookups by lock id and by invocation (lck_driver.c:219-324) end at the session
\* whose handle the callback was queued for, whichever thread dispatches it: no two
\* sessions wait under one name, and a session waits under the name until the callback
\* has run.
THEOREM CallbackFinds == ASSUME TestCases PROVE Spec => []CallbackFindsItsSession
<1>1. IInv /\ CInv => CallbackFindsItsSession
  <2> SUFFICES ASSUME IInv, CInv, NEW s \in Ids, NEW t \in Threads,
                      sess[s].handle # 0, s \in Visible(t),
                      NEW cb \in InFlight(sess[s].handle)
               PROVE  SessionOf(t, cb) = s
    BY DEF CallbackFindsItsSession
  <2> QED BY FoundIsOwner
<1> QED BY <1>1, CInvHolds, PTL

\* A lock the library holds for a session is the one the session would unlock, unless
\* the call that took it has yet to return (lck_driver.c:936-941).
THEOREM HeldLocksAreKnown == ASSUME TestCases PROVE Spec => []HeldLockIsKnown
<1>1. IInv /\ CInv => HeldLockIsKnown
  <2> SUFFICES ASSUME IInv, CInv, NEW s \in Ids, NEW l \in Held,
                      svcLock[l].h = sess[s].handle, InCall(s) = {}
               PROVE  sess[s].lockId = l
    BY DEF HeldLockIsKnown
  <2>1. l \in LockIds /\ svcLock[l].st \in {"granted", "releasing"}
    BY DEF Held
  <2>2. sess[s].handle # 0 /\ l \in LocksOf(sess[s].handle)
    BY <2>1, ZeroIsNone DEF CInv, OpenUnderHandle, Live, LocksOf
  <2>3. LockFits(s, l)
    BY <2>2 DEF CInv, AllFits, SessionFits
  <2>4. ~Taking(s, l)
    BY DriverAssumption DEF Taking, InCall
  <2> QED BY <2>3, <2>4 DEF LockFits
<1> QED BY <1>1, CInvHolds, PTL

\* What a poll reads of an asynchronous open, lock or unlock says nothing until the
\* callback of the latest one has run (LCKTestDriver.rb:127-188).
THEOREM PollsAreNotEarly == ASSUME TestCases PROVE Spec => []PollIsNotEarly
<1>1. IInv /\ CInv => PollIsNotEarly
  <2> SUFFICES ASSUME IInv, CInv, NEW s \in Ids, NEW h, h = sess[s].handle, h # 0
               PROVE  /\ (\E cb \in InFlight(h) : cb.kind = "open") =>
                            sess[s].openErr = "NONE"
                      /\ \/ \E cb \in InFlight(h) : cb.kind = "grant"
                         \/ \E l \in LockIds : svcLock[l].h = h /\ svcLock[l].inv # 0
                         => sess[s].lockStatus = "NONE"
                      /\ \/ \E cb \in InFlight(h) : cb.kind = "release"
                         \/ \E l \in LockIds : svcLock[l].h = h /\ svcLock[l].st = "releasing"
                         => sess[s].lockStatus # "NO_MORE"
    BY DEF PollIsNotEarly
  <2>1. SessionFits(s)
    BY DEF CInv, AllFits
  <2>2. \A cb \in InFlight(h) :
           /\ cb.kind = "open" => sess[s].openErr = "NONE"
           /\ cb.kind = "grant" => sess[s].lockStatus = "NONE"
           /\ cb.kind = "release" => sess[s].lockStatus # "NO_MORE"
    BY <2>1 DEF SessionFits, CallbackFits
  <2>3. ASSUME NEW l \in LockIds, svcLock[l].h = h
        PROVE  /\ svcLock[l].inv # 0 => sess[s].lockStatus = "NONE"
               /\ svcLock[l].st = "releasing" => sess[s].lockStatus # "NO_MORE"
    <3>1. svcLock[l].inv # 0 => svcLock[l].st = "pending"
      BY DEF CInv, OpenUnderHandle
    <3>2. svcLock[l].st \in {"pending", "releasing"} => LockFits(s, l)
      BY <2>1, <2>3 DEF SessionFits, LocksOf
    <3>3. CASE svcLock[l].inv # 0
      BY <3>1, <3>2, <3>3 DEF LockFits
    <3>4. CASE svcLock[l].st = "releasing"
      <4>1. ~(Taking(s, l) /\ th[MainThread].pc = "lock")
        BY <3>4 DEF CInv, CallFits, Taking
      <4> QED BY <3>1, <3>2, <3>4, <4>1 DEF LockFits
    <3> QED BY <3>3, <3>4
  <2> QED BY <2>2, <2>3
<1> QED BY <1>1, CInvHolds, PTL

\* Every handle the daemon has open is held by exactly one session, so that finalizing
\* and deleting the sessions gives all of them back (lck_driver.c:473).
THEOREM HandlesHeldOnce == ASSUME TestCases PROVE Spec => []HandleIsHeldOnce
<1>1. IInv /\ CInv => HandleIsHeldOnce
  <2> SUFFICES ASSUME IInv, CInv, NEW h \in Handles, Live(h)
               PROVE  \E s \in Ids : \A u \in Ids : (sess[u].handle = h) <=> (u = s)
    BY DEF HandleIsHeldOnce
  <2> QED BY OwnerOf
<1> QED BY <1>1, CInvHolds, PTL
=============================================================================
