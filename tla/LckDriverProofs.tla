--------------------------- MODULE LckDriverProofs ---------------------------
(***************************************************************************)
(* Theorems about LckDriver, for every number of threads, sessions,        *)
(* handles and locks, and without any assumption on the clients.           *)
(*                                                                         *)
(* TypeInv: the types, and what a thread has in hand at each place of its  *)
(* program.  OwnInv: which thread can reach which session and which        *)
(* handle; with TypeInv it is the inductive invariant IInv from which      *)
(* OneDispatcher follows.  MainThreadServes and ListsNeedNoLock need       *)
(* TypeInv only.                                                           *)
(***************************************************************************)
EXTENDS LckDriver, WellFoundedInduction, TLAPS

\* The choice of the first session of a list is one of them.
LEMMA FirstOfIsIn ==
    ASSUME NEW S, S \subseteq Ids, S # {}
    PROVE  FirstOf(S) \in S
<1> DEFINE R == {p \in Nat \X Nat : p[1] < p[2]}
<1>1. S \subseteq Nat
  BY DriverAssumption DEF Ids
<1>2. R = OpToRel(<, Nat)
  BY DEF OpToRel
<1>3. IsWellFoundedOn(R, Nat)
  BY <1>2, NatLessThanWellFounded
<1>4. PICK m \in S : \A y \in S : <<y, m>> \notin R
  <2> HIDE DEF R
  <2> QED BY <1>1, <1>3, WFMin
<1>5. \A u \in S : m <= u
  <2> SUFFICES ASSUME NEW u \in S, ~(m <= u) PROVE FALSE
    OBVIOUS
  <2>1. u \in Nat /\ m \in Nat /\ u < m
    BY <1>1
  <2>2. <<u, m>> \in R
    BY <2>1
  <2> QED BY <1>4, <2>2
<1> QED
  BY <1>5 DEF FirstOf

-----------------------------------------------------------------------------
\* The library's part of the type invariant.  An unlock in progress has an
\* invocation number, which its release callback will carry.
ServiceInv ==
    /\ ServiceTypeOK
    /\ \A l \in LockIds : svcLock[l].st = "releasing" => svcLock[l].uinv # 0

LEMMA ServiceInitInv == ServiceInit => ServiceInv
  BY ServiceAssumption
     DEF ServiceInit, ServiceInv, ServiceTypeOK, UnusedLock, LockRecs, LockStates,
         HandleStates

LEMMA EndLocksType ==
    ASSUME ServiceInv, NEW H, EndLocks(H)
    PROVE  /\ svcLock' \in [LockIds -> LockRecs]
           /\ \A l \in LockIds : svcLock'[l].st = "releasing" => svcLock'[l].uinv # 0
<1> SUFFICES ASSUME NEW l \in LockIds
             PROVE  /\ svcLock'[l] \in LockRecs
                    /\ svcLock'[l].st = "releasing" => svcLock'[l].uinv # 0
  BY DEF EndLocks
<1>1. svcLock[l] \in LockRecs
  BY DEF ServiceInv, ServiceTypeOK
<1>2. CASE svcLock[l].h \in H /\ svcLock[l].st # "unused"
  BY <1>1, <1>2 DEF EndLocks, LockRecs, LockStates, Results
<1>3. CASE ~(svcLock[l].h \in H /\ svcLock[l].st # "unused")
  BY <1>1, <1>3 DEF EndLocks, ServiceInv
<1> QED
  BY <1>2, <1>3

LEMMA QueuedLockType ==
    ASSUME NEW r \in Handles, NEW i \in Invocations \cup {0}
    PROVE  /\ [UnusedLock EXCEPT !.st = "pending", !.h = r, !.inv = i] \in LockRecs
           /\ [UnusedLock EXCEPT !.st = "pending", !.h = r, !.inv = i].st = "pending"
<1>1. UnusedLock \in LockRecs
  BY ServiceAssumption DEF UnusedLock, LockRecs, LockStates
<1> QED
  BY <1>1 DEF LockRecs, LockStates

\* Each call keeps the invariant; so does what the library does by itself.
LEMMA ServiceCallInv ==
    ASSUME ServiceInv,
           \/ \E h \in Handles, cbs \in BOOLEAN : saLckInitialize(h, cbs)
           \/ \E h : saLckFinalize(h)
           \/ \E h : saLckResourceOpen(h)
           \/ \E i \in Invocations : \E h : saLckResourceOpenAsync(h, i)
           \/ \E r : saLckResourceClose(r)
           \/ \E l \in LockIds, i \in Invocations \cup {0} : \E r : QueueLock(l, r, i)
           \/ \E l : saLckResourceUnlock(l)
           \/ \E i \in Invocations : \E l : saLckResourceUnlockAsync(i, l)
           \/ \E h, cb : TakeCallback(h, cb)
    PROVE  ServiceInv'
<1> USE DEF ServiceInv, ServiceTypeOK
<1>1. CASE \E h \in Handles, cbs \in BOOLEAN : saLckInitialize(h, cbs)
  BY <1>1 DEF saLckInitialize, HandleStates
<1>2. CASE \E h : saLckFinalize(h)
  <2>1. PICK h : saLckFinalize(h)
    BY <1>2
  <2>2. svcHandle' \in [Handles -> HandleStates] /\ svcOpen' \subseteq Handles
    BY <2>1 DEF saLckFinalize, HandleStates
  <2>3. svcOut' \in [Handles -> SUBSET Callbacks]
    BY <2>1 DEF saLckFinalize
  <2> QED
    BY <2>1, <2>2, <2>3, EndLocksType DEF saLckFinalize
<1>3. CASE \E h : saLckResourceOpen(h)
  BY <1>3 DEF saLckResourceOpen, Live
<1>4. CASE \E i \in Invocations : \E h : saLckResourceOpenAsync(h, i)
  <2>0. PICK i \in Invocations : \E h : saLckResourceOpenAsync(h, i)
    BY <1>4
  <2>1. PICK h : saLckResourceOpenAsync(h, i)
    BY <2>0
  <2>2. PICK e \in Errors :
          /\ svcOpen' = IF e = "OK" THEN svcOpen \cup {h} ELSE svcOpen
          /\ svcOut' = [svcOut EXCEPT ![h] = @ \cup
                           {[kind |-> "open", inv |-> i, err |-> e,
                             res |-> IF e = "OK" THEN h ELSE 0]}]
    BY <2>1 DEF saLckResourceOpenAsync
  <2>3. h \in Handles
    BY <2>1 DEF saLckResourceOpenAsync, CallsBack
  <2>4. [kind |-> "open", inv |-> i, err |-> e,
         res |-> IF e = "OK" THEN h ELSE 0] \in Callbacks
    BY <2>3 DEF Callbacks, OpenCb, Errors
  <2> QED
    BY <2>1, <2>2, <2>3, <2>4 DEF saLckResourceOpenAsync
<1>5. CASE \E r : saLckResourceClose(r)
  <2>1. PICK r : saLckResourceClose(r)
    BY <1>5
  <2> QED
    BY <2>1, EndLocksType DEF saLckResourceClose
<1>6. CASE \E l \in LockIds, i \in Invocations \cup {0} : \E r : QueueLock(l, r, i)
  <2>0. PICK l \in LockIds, i \in Invocations \cup {0} : \E r : QueueLock(l, r, i)
    BY <1>6
  <2>1. PICK r : QueueLock(l, r, i)
    BY <2>0
  <2> DEFINE k == [UnusedLock EXCEPT !.st = "pending", !.h = r, !.inv = i]
  <2>2. r \in Handles
    BY <2>1 DEF QueueLock
  <2>3. k \in LockRecs /\ k.st = "pending"
    BY <2>2, QueuedLockType
  <2>4. /\ svcLock' = [svcLock EXCEPT ![l] = k]
        /\ UNCHANGED <<svcHandle, svcOpen, svcOut>>
    BY <2>1 DEF QueueLock
  <2> HIDE DEF k
  <2> QED
    BY <2>3, <2>4
<1>7. CASE \E l : saLckResourceUnlock(l)
  BY <1>7 DEF saLckResourceUnlock, LockRecs, LockStates
<1>8. CASE \E i \in Invocations : \E l : saLckResourceUnlockAsync(i, l)
  BY <1>8, ServiceAssumption DEF saLckResourceUnlockAsync, LockRecs, LockStates
<1>9. CASE \E h, cb : TakeCallback(h, cb)
  BY <1>9 DEF TakeCallback
<1> QED
  BY <1>1, <1>2, <1>3, <1>4, <1>5, <1>6, <1>7, <1>8, <1>9

LEMMA ServiceStepInv ==
    ASSUME ServiceInv, NEW l \in LockIds, Answer(l) \/ Release(l) \/ Waiter(l)
    PROVE  ServiceInv'
<1> USE DEF ServiceInv, ServiceTypeOK
<1>1. svcLock[l] \in LockRecs
  OBVIOUS
<1>2. CASE Answer(l)
  <2>1. PICK r \in Results, e \in Errors :
          LET won == r = "GRANTED" /\ e = "OK"
              k   == svcLock[l]
          IN /\ k.st = "pending"
             /\ svcLock' = [svcLock EXCEPT
                              ![l].st = IF won THEN "granted" ELSE "gone",
                              ![l].inv = 0,
                              ![l].res = IF k.inv # 0 THEN "NONE"
                                         ELSE IF e = "OK" THEN r ELSE "ERR"]
             /\ svcOut' = IF k.inv = 0 THEN svcOut
                          ELSE [svcOut EXCEPT ![k.h] = @ \cup
                                 {[kind |-> "grant", lock |-> l, inv |-> k.inv,
                                   status |-> r, err |-> e]}]
             /\ UNCHANGED <<svcHandle, svcOpen>>
    BY <1>2 DEF Answer
  <2>2. svcLock'[l] \in LockRecs /\ svcLock'[l].st \in {"granted", "gone"}
    BY <1>1, <2>1 DEF LockRecs, LockStates, Results
  <2>3. svcLock' \in [LockIds -> LockRecs] /\ \A m \in LockIds \ {l} : svcLock'[m] = svcLock[m]
    BY <2>1, <2>2
  <2>4. svcLock[l].inv # 0 => [kind |-> "grant", lock |-> l, inv |-> svcLock[l].inv,
                               status |-> r, err |-> e] \in Callbacks
    BY <1>1 DEF LockRecs, Callbacks, GrantCb
  <2> QED
    BY <2>1, <2>2, <2>3, <2>4
<1>3. CASE Release(l)
  <2>1. PICK e \in Errors :
          /\ svcLock[l].st = "releasing"
          /\ svcLock' = [svcLock EXCEPT ![l].st = IF e = "OK" THEN "gone" ELSE "granted",
                                        ![l].uinv = 0]
          /\ svcOut' = [svcOut EXCEPT ![svcLock[l].h] = @ \cup
                           {[kind |-> "release", lock |-> l, inv |-> svcLock[l].uinv,
                             err |-> e]}]
          /\ UNCHANGED <<svcHandle, svcOpen>>
    BY <1>3 DEF Release, Errors
  <2>2. svcLock'[l] \in LockRecs /\ svcLock'[l].st \in {"granted", "gone"}
    BY <1>1, <2>1 DEF LockRecs, LockStates
  <2>3. svcLock' \in [LockIds -> LockRecs] /\ \A m \in LockIds \ {l} : svcLock'[m] = svcLock[m]
    BY <2>1, <2>2
  <2>4. [kind |-> "release", lock |-> l, inv |-> svcLock[l].uinv, err |-> e] \in Callbacks
    BY <1>1, <2>1 DEF LockRecs, Callbacks, ReleaseCb
  <2> QED
    BY <2>1, <2>2, <2>3, <2>4
<1>4. CASE Waiter(l)
  <2>1. svcLock'[l] \in LockRecs /\ svcLock'[l].st = "granted"
    BY <1>1, <1>4, ServiceAssumption DEF Waiter, LockRecs, LockStates
  <2>2. svcLock' \in [LockIds -> LockRecs] /\ \A m \in LockIds \ {l} : svcLock'[m] = svcLock[m]
    BY <1>4, <2>1 DEF Waiter
  <2>3. [kind |-> "waiter", lock |-> l, n |-> svcLock[l].waits + 1] \in Callbacks
    BY <1>1, <1>4, ServiceAssumption DEF Waiter, LockRecs, Callbacks, WaiterCb
  <2> QED
    BY <1>4, <2>1, <2>2, <2>3 DEF Waiter
<1> QED
  BY <1>2, <1>3, <1>4

-----------------------------------------------------------------------------
\* The driver's part: what a thread has in hand is what its place in the
\* program calls for.
InHand ==
    \A t \in Threads :
        /\ th[t].pc \notin {"select", "serve", "check"} => th[t].s \in Ids
        /\ th[t].pc = "lock" => th[t].l \in LockIds
        /\ th[t].pc = "callback" => th[t].cb \in Callbacks

TypeInv == TypeOK /\ ServiceInv /\ InHand

LEMMA InitTypeInv == Init => TypeInv
<1> SUFFICES ASSUME Init PROVE TypeInv
  OBVIOUS
<1>1. ServiceInv
  BY ServiceInitInv DEF Init
<1>2. sess \in [Ids -> Sessions]
  <2>1. NewSession \in Sessions
    BY DEF NewSession, Sessions, Flags, Errors, Results
  <2> QED
    BY <2>1 DEF Init
<1>3. th \in [Threads -> ThreadRecs] /\ InHand
  <2>1. IdleThread \in ThreadRecs /\ IdleThread.pc = "select"
    BY DriverAssumption DEF IdleThread, ThreadRecs, Pcs, Flags
  <2> QED
    BY <2>1 DEF Init, InHand
<1>4. nextId \in 1 .. MaxSessions + 1 /\ aborted \in Aborts
  BY DriverAssumption DEF Init, Aborts
<1> QED
  BY <1>1, <1>2, <1>3, <1>4 DEF TypeInv, TypeOK, ServiceInv

\* The three ways a request leaves its thread.
LEMMA ServedType ==
    ASSUME TypeInv, NEW t \in Threads, NEW op, Serving(t, op), Served(t)
    PROVE  th' \in [Threads -> ThreadRecs] /\ InHand'
<1>1. th[t] \in ThreadRecs /\ th[t].left \in 1 .. MaxServed /\ th[t].pc = "serve"
  BY DriverAssumption DEF TypeInv, TypeOK, Serving, ThreadRecs
<1>2. [th[t] EXCEPT !.left = @ - 1] \in ThreadRecs
  BY <1>1, DriverAssumption DEF ThreadRecs
<1>3. th' = [th EXCEPT ![t] = [th[t] EXCEPT !.left = @ - 1]]
  BY DEF TypeInv, TypeOK, Served
<1> QED
  BY <1>1, <1>2, <1>3 DEF TypeInv, TypeOK, InHand, ThreadRecs

LEMMA EnterType ==
    ASSUME TypeInv, NEW t \in Threads, NEW op, Serving(t, op),
           NEW pc \in {"lock", "lockasync", "unlock"}, NEW s \in Ids, NEW l \in LockIds,
           Enter(t, pc, s, l)
    PROVE  th' \in [Threads -> ThreadRecs] /\ InHand'
<1>1. th[t] \in ThreadRecs /\ th[t].left \in 1 .. MaxServed
  BY DriverAssumption DEF TypeInv, TypeOK, Serving, ThreadRecs
<1> DEFINE n == th[t].left - 1
           r == [th[t] EXCEPT !.left = n, !.pc = pc, !.s = s, !.l = l]
<1>2. n \in 0 .. MaxServed
  BY <1>1, DriverAssumption
<1>3. th' = [th EXCEPT ![t] = r]
  BY DEF TypeInv, TypeOK, Enter
<1> HIDE DEF n
<1>4. r \in ThreadRecs /\ r.pc = pc /\ r.s = s /\ r.l = l
  BY <1>1, <1>2 DEF ThreadRecs, Pcs
<1> HIDE DEF r
<1> QED
  BY <1>3, <1>4 DEF TypeInv, TypeOK, InHand

LEMMA ResumeType ==
    ASSUME TypeInv, NEW t \in Threads, Resume(t)
    PROVE  th' \in [Threads -> ThreadRecs] /\ InHand'
<1> DEFINE r == [th[t] EXCEPT !.pc = "serve", !.s = 0, !.l = 0]
<1>1. th[t] \in ThreadRecs
  BY DEF TypeInv, TypeOK
<1>2. r \in ThreadRecs /\ r.pc = "serve"
  BY <1>1 DEF ThreadRecs, Pcs
<1>3. th' = [th EXCEPT ![t] = r]
  BY DEF TypeInv, TypeOK, Resume
<1> HIDE DEF r
<1> QED
  BY <1>2, <1>3 DEF TypeInv, TypeOK, InHand

LEMMA AbortType ==
    ASSUME TypeInv, NEW why \in Aborts, Abort(why)
    PROVE  TypeInv'
  BY DEF TypeInv, TypeOK, ServiceInv, ServiceTypeOK, InHand, Abort, svcVars

\* The invariant is about five things, each with a lemma for how it changes.
LEMMA TypeInvFrom ==
    ASSUME ServiceInv', sess' \in [Ids -> Sessions], nextId' \in 1 .. MaxSessions + 1,
           th' \in [Threads -> ThreadRecs], InHand', aborted' \in Aborts
    PROVE  TypeInv'
  BY DEF TypeInv, TypeOK, ServiceInv

LEMMA UnchangedServiceInv == ServiceInv /\ UNCHANGED svcVars => ServiceInv'
  BY DEF ServiceInv, ServiceTypeOK, svcVars

\* What the handlers store in a session's handle fields fits them.
LEMMA SessionUpdateType ==
    ASSUME NEW r \in Sessions, NEW h \in Handles \cup {0}, NEW f \in Flags,
           NEW cbs \in BOOLEAN
    PROVE  /\ [r EXCEPT !.handle = h, !.flags = f, !.cbs = cbs] \in Sessions
           /\ [r EXCEPT !.flags = f, !.cbs = cbs] \in Sessions
           /\ [r EXCEPT !.selobj = h] \in Sessions
           /\ [r EXCEPT !.handle = 0, !.selobj = 0] \in Sessions
<1>1. [r EXCEPT !.handle = h, !.flags = f, !.cbs = cbs] \in Sessions
  BY DEF Sessions
<1>2. [r EXCEPT !.flags = f, !.cbs = cbs] \in Sessions
  BY DEF Sessions
<1>3. [r EXCEPT !.selobj = h] \in Sessions
  BY DEF Sessions
<1>4. [r EXCEPT !.handle = 0, !.selobj = 0] \in Sessions
  BY DEF Sessions
<1> QED
  BY <1>1, <1>2, <1>3, <1>4

LEMMA RequestTypeInv ==
    ASSUME TypeInv, NEW t \in Threads, Request(t)
    PROVE  TypeInv'
<1> USE DEF TypeInv, TypeOK
<1>0. \A s \in Visible(t) : s \in Ids /\ sess[s] \in Sessions
  BY DEF Visible
<1>1. ASSUME CreateSession(t) PROVE TypeInv'
  <2>1. nextId \in Ids /\ nextId' = nextId + 1
    BY <1>1 DEF CreateSession
  <2>2. nextId' \in 1 .. MaxSessions + 1
    BY <2>1, DriverAssumption DEF Ids
  <2>3. PICK where \in {"global", t} :
          sess' = [sess EXCEPT ![nextId] = [NewSession EXCEPT !.home = where]]
    BY <1>1 DEF CreateSession
  <2>4. NewSession \in Sessions
    BY DEF NewSession, Sessions, Flags, Errors, Results
  <2>5. [NewSession EXCEPT !.home = where] \in Sessions
    BY <2>4 DEF Sessions
  <2>6. sess' \in [Ids -> Sessions]
    BY <2>1, <2>3, <2>5
  <2> QED
    BY <1>1, <2>2, <2>6, ServedType, UnchangedServiceInv, TypeInvFrom DEF CreateSession
<1>2. ASSUME UnknownSession(t) PROVE TypeInv'
  BY <1>2, AbortType DEF UnknownSession, Aborts
<1>3. ASSUME GetStatus(t) PROVE TypeInv'
  BY <1>3, ServedType, UnchangedServiceInv, TypeInvFrom DEF GetStatus
<1>4. ASSUME NEW s \in Visible(t), DeleteSession(t, s) PROVE TypeInv'
  <2>1. CASE sess[s].handle # 0
    BY <1>4, <2>1, AbortType DEF DeleteSession, Aborts
  <2>2. CASE sess[s].handle = 0
    <3>1. NewSession \in Sessions
      BY DEF NewSession, Sessions, Flags, Errors, Results
    <3>2. sess' \in [Ids -> Sessions]
      BY <1>4, <2>2, <3>1 DEF DeleteSession
    <3> QED
      BY <1>4, <2>2, <3>2, ServedType, UnchangedServiceInv, TypeInvFrom DEF DeleteSession
  <2> QED
    BY <2>1, <2>2
<1>5. ASSUME NEW s \in Visible(t), Initialize(t, s) PROVE TypeInv'
  <2>1. PICK f \in DispatchFlags, cbs \in BOOLEAN :
          \/ \E h \in Handles :
               /\ saLckInitialize(h, cbs)
               /\ sess' = [sess EXCEPT ![s].handle = h, ![s].flags = f, ![s].cbs = cbs]
          \/ /\ Refused
             /\ sess' = [sess EXCEPT ![s].flags = f, ![s].cbs = cbs]
    BY <1>5 DEF Initialize
  <2>2. f \in Flags
    BY DriverAssumption DEF Flags
  <2>3. sess' \in [Ids -> Sessions]
    <3>1. CASE \E h \in Handles : sess' = [sess EXCEPT ![s] =
                 [sess[s] EXCEPT !.handle = h, !.flags = f, !.cbs = cbs]]
      <4>1. PICK h \in Handles : sess' = [sess EXCEPT ![s] =
                   [sess[s] EXCEPT !.handle = h, !.flags = f, !.cbs = cbs]]
        BY <3>1
      <4>2. [sess[s] EXCEPT !.handle = h, !.flags = f, !.cbs = cbs] \in Sessions
        BY <1>0, <2>2, SessionUpdateType
      <4> QED
        BY <1>0, <4>1, <4>2
    <3>2. CASE sess' = [sess EXCEPT ![s] = [sess[s] EXCEPT !.flags = f, !.cbs = cbs]]
      <4>1. [sess[s] EXCEPT !.flags = f, !.cbs = cbs] \in Sessions
        BY <1>0, <2>2, SessionUpdateType
      <4> QED
        BY <1>0, <3>2, <4>1
    <3> QED
      BY <2>1, <3>1, <3>2
  <2>4. ServiceInv'
    BY <2>1, ServiceCallInv, UnchangedServiceInv DEF Refused
  <2> QED
    BY <1>5, <2>3, <2>4, ServedType, TypeInvFrom DEF Initialize
<1>6. ASSUME NEW s \in Visible(t), SelectionObjectGet(t, s) PROVE TypeInv'
  <2>1. sess[s].handle \in Handles \cup {0}
    BY <1>0 DEF Sessions
  <2>2. [sess[s] EXCEPT !.selobj = sess[s].handle] \in Sessions
    BY <1>0, <2>1, SessionUpdateType DEF Flags
  <2>3. \/ sess' = [sess EXCEPT ![s] = [sess[s] EXCEPT !.selobj = sess[s].handle]]
        \/ sess' = sess
    BY <1>6 DEF SelectionObjectGet
  <2>4. sess' \in [Ids -> Sessions]
    BY <1>0, <2>2, <2>3
  <2> QED
    BY <1>6, <2>4, ServedType, UnchangedServiceInv, TypeInvFrom DEF SelectionObjectGet
<1>7. ASSUME NEW s \in Visible(t), Dispatch(t, s) PROVE TypeInv'
  <2>1. PICK f \in DispatchFlags :
          IF f = "NONE" THEN Abort("dispatch none")
          ELSE IF f = "BLOCKING" /\ t = MainThread THEN Abort("blocking in main")
          ELSE /\ th' = [th EXCEPT ![t].left = @ - 1, ![t].pc = "dispatch",
                                   ![t].s = s, ![t].h = sess[s].handle,
                                   ![t].how = f, ![t].back = "serve"]
               /\ UNCHANGED <<sess, nextId, aborted, svcVars>>
    BY <1>7 DEF Dispatch
  <2>2. CASE f = "NONE" \/ (f = "BLOCKING" /\ t = MainThread)
    BY <2>1, <2>2, AbortType DEF Aborts
  <2>3. CASE ~(f = "NONE" \/ (f = "BLOCKING" /\ t = MainThread))
    <3> DEFINE n == th[t].left - 1
               h == sess[s].handle
               r == [th[t] EXCEPT !.left = n, !.pc = "dispatch", !.s = s, !.h = h,
                                  !.how = f, !.back = "serve"]
    <3>0. th[t].left \in 0 .. MaxServed /\ th[t].left > 0
      BY <1>7 DEF Dispatch, Serving, ThreadRecs
    <3>1. th[t] \in ThreadRecs /\ n \in 0 .. MaxServed
      BY <3>0, DriverAssumption
    <3>2. s \in Ids /\ h \in Handles \cup {0} /\ f \in Flags
      BY DriverAssumption DEF Visible, Sessions, Flags
    <3>3. th' = [th EXCEPT ![t] = r] /\ UNCHANGED <<sess, nextId, aborted, svcVars>>
      BY <2>1, <2>3
    <3> HIDE DEF n, h
    <3>4. r \in ThreadRecs /\ r.pc = "dispatch" /\ r.s \in Ids
      BY <3>1, <3>2 DEF ThreadRecs, Pcs
    <3> HIDE DEF r
    <3>5. th' \in [Threads -> ThreadRecs] /\ InHand'
      BY <3>3, <3>4 DEF InHand
    <3> QED
      BY <3>3, <3>5, UnchangedServiceInv, TypeInvFrom
  <2> QED
    BY <2>2, <2>3
<1>8. ASSUME NEW s \in Visible(t), Finalize(t, s) PROVE TypeInv'
  <2>1. sess' \in [Ids -> Sessions]
    <3>1. sess' = [sess EXCEPT ![s] = [sess[s] EXCEPT !.handle = 0, !.selobj = 0]]
      BY <1>8 DEF Finalize
    <3>2. [sess[s] EXCEPT !.handle = 0, !.selobj = 0] \in Sessions
      BY <1>0, SessionUpdateType DEF Flags
    <3> QED
      BY <1>0, <3>1, <3>2
  <2>2. ServiceInv'
    BY <1>8, ServiceCallInv, UnchangedServiceInv DEF Finalize, Refused
  <2> QED
    BY <1>8, <2>1, <2>2, ServedType, TypeInvFrom DEF Finalize
<1>9. ASSUME NEW s \in Visible(t), ResourceOpen(t, s) PROVE TypeInv'
  <2>1. sess' \in [Ids -> Sessions]
    BY <1>9 DEF ResourceOpen, Sessions
  <2>2. ServiceInv'
    BY <1>9, ServiceCallInv, UnchangedServiceInv DEF ResourceOpen, Refused
  <2> QED
    BY <1>9, <2>1, <2>2, ServedType, TypeInvFrom DEF ResourceOpen
<1>10. ASSUME NEW s \in Visible(t), ResourceOpenAsync(t, s) PROVE TypeInv'
  <2>1. PICK i \in Invocations :
          /\ sess' = [sess EXCEPT ![s].openInv = i, ![s].openErr = "NONE"]
          /\ saLckResourceOpenAsync(sess[s].handle, i) \/ Refused
    BY <1>10 DEF ResourceOpenAsync
  <2>2. sess' \in [Ids -> Sessions]
    <3>1. sess' = [sess EXCEPT ![s] = [sess[s] EXCEPT !.openInv = i, !.openErr = "NONE"]]
      BY <2>1
    <3>2. [sess[s] EXCEPT !.openInv = i, !.openErr = "NONE"] \in Sessions
      BY <1>0 DEF Sessions
    <3> QED
      BY <1>0, <3>1, <3>2
  <2>3. ServiceInv'
    BY <2>1, ServiceCallInv, UnchangedServiceInv DEF Refused
  <2> QED
    BY <1>10, <2>2, <2>3, ServedType, TypeInvFrom DEF ResourceOpenAsync
<1>11. ASSUME NEW s \in Visible(t), ResourceClose(t, s) PROVE TypeInv'
  <2>1. ServiceInv'
    BY <1>11, ServiceCallInv, UnchangedServiceInv DEF ResourceClose, Refused
  <2> QED
    BY <1>11, <2>1, ServedType, TypeInvFrom DEF ResourceClose
<1>12. ASSUME NEW s \in Visible(t), LockSync(t, s) PROVE TypeInv'
  <2>1. CASE \E l \in LockIds : QueueLock(l, sess[s].res, 0) /\ Enter(t, "lock", s, l)
    <3>1. ServiceInv'
      BY <2>1, ServiceCallInv
    <3> QED
      BY <1>12, <2>1, <3>1, EnterType, TypeInvFrom DEF LockSync, Visible
  <2>2. CASE Refused /\ Served(t)
    BY <1>12, <2>2, ServedType, UnchangedServiceInv, TypeInvFrom DEF LockSync, Refused
  <2> QED
    BY <1>12, <2>1, <2>2 DEF LockSync
<1>13. ASSUME NEW s \in Visible(t), LockAsync(t, s) PROVE TypeInv'
  <2>1. PICK i \in Invocations :
          /\ sess' = [sess EXCEPT ![s].lockInv = i, ![s].lockStatus = "NONE"]
          /\ \/ \E l \in LockIds : /\ QueueLock(l, sess[s].res, i)
                                   /\ Enter(t, "lockasync", s, l)
             \/ Refused /\ Served(t)
    BY <1>13 DEF LockAsync
  <2>2. sess' \in [Ids -> Sessions]
    <3>1. sess' = [sess EXCEPT ![s] = [sess[s] EXCEPT !.lockInv = i, !.lockStatus = "NONE"]]
      BY <2>1
    <3>2. [sess[s] EXCEPT !.lockInv = i, !.lockStatus = "NONE"] \in Sessions
      BY <1>0 DEF Sessions
    <3> QED
      BY <1>0, <3>1, <3>2
  <2>3. CASE \E l \in LockIds : QueueLock(l, sess[s].res, i) /\ Enter(t, "lockasync", s, l)
    <3>1. ServiceInv'
      BY <2>3, ServiceCallInv
    <3> QED
      BY <1>13, <2>2, <2>3, <3>1, EnterType, TypeInvFrom DEF LockAsync, Visible
  <2>4. CASE Refused /\ Served(t)
    BY <1>13, <2>2, <2>4, ServedType, UnchangedServiceInv, TypeInvFrom DEF LockAsync, Refused
  <2> QED
    BY <2>1, <2>3, <2>4
<1>14. ASSUME NEW s \in Visible(t), UnlockSync(t, s) PROVE TypeInv'
  <2>1. CASE saLckResourceUnlock(sess[s].lockId) /\ Enter(t, "unlock", s, sess[s].lockId)
    <3>1. ServiceInv'
      BY <2>1, ServiceCallInv
    <3>2. sess[s].lockId \in LockIds
      BY <2>1 DEF saLckResourceUnlock
    <3> QED
      BY <1>14, <2>1, <3>1, <3>2, EnterType, TypeInvFrom DEF UnlockSync, Visible
  <2>2. CASE Refused /\ Served(t)
    BY <1>14, <2>2, ServedType, UnchangedServiceInv, TypeInvFrom DEF UnlockSync, Refused
  <2> QED
    BY <1>14, <2>1, <2>2 DEF UnlockSync
<1>15. ASSUME NEW s \in Visible(t), UnlockAsync(t, s) PROVE TypeInv'
  <2>1. PICK i \in Invocations :
          /\ sess' = [sess EXCEPT ![s].unlockInv = i]
          /\ saLckResourceUnlockAsync(i, sess[s].lockId) \/ Refused
    BY <1>15 DEF UnlockAsync
  <2>2. sess' \in [Ids -> Sessions]
    <3>1. sess' = [sess EXCEPT ![s] = [sess[s] EXCEPT !.unlockInv = i]]
      BY <2>1
    <3>2. [sess[s] EXCEPT !.unlockInv = i] \in Sessions
      BY <1>0 DEF Sessions
    <3> QED
      BY <1>0, <3>1, <3>2
  <2>3. ServiceInv'
    BY <2>1, ServiceCallInv, UnchangedServiceInv DEF Refused
  <2> QED
    BY <1>15, <2>2, <2>3, ServedType, TypeInvFrom DEF UnlockAsync
<1>16. ASSUME NEW s \in Visible(t), GetWaitCount(t, s) PROVE TypeInv'
  <2>1. CASE sess[s].cbs
    BY <1>16, <2>1, ServedType, UnchangedServiceInv, TypeInvFrom DEF GetWaitCount
  <2>2. CASE ~sess[s].cbs
    BY <1>16, <2>2, AbortType DEF GetWaitCount, Aborts
  <2> QED
    BY <2>1, <2>2
<1> QED
  BY <1>1, <1>2, <1>3, <1>4, <1>5, <1>6, <1>7, <1>8, <1>9, <1>10, <1>11, <1>12,
     <1>13, <1>14, <1>15, <1>16 DEF Request

LEMMA ReturnTypeInv ==
    ASSUME TypeInv, NEW t \in Threads, Return(t)
    PROVE  TypeInv'
<1> USE DEF TypeInv, TypeOK
<1> DEFINE s == th[t].s
           l == th[t].l
<1>0. Return(t) => s \in Ids /\ sess[s] \in Sessions /\ l \in LockIds \cup {0}
  BY DEF InHand, Return, LockSyncReturn, LockAsyncReturn, UnlockSyncReturn, ThreadRecs
<1>1. CASE LockSyncReturn(t)
  <2> DEFINE st == svcLock[l].res
  <2>1. l \in LockIds
    BY <1>1 DEF LockSyncReturn, InHand
  <2>2. st # "NONE" /\ st \in Results \cup {"NONE", "ERR"}
    BY <1>1, <2>1 DEF LockSyncReturn, ServiceTypeOK, LockRecs
  <2>3. \/ sess' = sess
        \/ st # "ERR" /\ sess' = [sess EXCEPT ![s] = [sess[s] EXCEPT !.lockId = l, !.lockStatus = st]]
    BY <1>1 DEF LockSyncReturn
  <2> HIDE DEF st, s, l
  <2>4. st # "ERR" => [sess[s] EXCEPT !.lockId = l, !.lockStatus = st] \in Sessions
    BY <1>0, <2>1, <2>2 DEF Sessions
  <2>5. sess' \in [Ids -> Sessions]
    BY <1>0, <2>3, <2>4
  <2> QED
    BY <1>1, <2>5, ResumeType, UnchangedServiceInv, TypeInvFrom DEF LockSyncReturn
<1>2. CASE LockAsyncReturn(t)
  <2>1. sess' = [sess EXCEPT ![s] = [sess[s] EXCEPT !.lockId = l]]
    BY <1>2 DEF LockAsyncReturn
  <2> HIDE DEF s, l
  <2>2. [sess[s] EXCEPT !.lockId = l] \in Sessions
    BY <1>0 DEF Sessions
  <2>3. sess' \in [Ids -> Sessions]
    BY <1>0, <2>1, <2>2
  <2> QED
    BY <1>2, <2>3, ResumeType, UnchangedServiceInv, TypeInvFrom DEF LockAsyncReturn
<1>3. CASE UnlockSyncReturn(t)
  <2> DEFINE r == [sess[s] EXCEPT !.lockId = 0, !.waits = 0, !.lockStatus = "NO_MORE"]
  <2>1. sess' = [sess EXCEPT ![s] = r]
    BY <1>3 DEF UnlockSyncReturn
  <2> HIDE DEF s, l
  <2>2. r \in Sessions
    BY <1>0 DEF Sessions
  <2>3. sess' \in [Ids -> Sessions]
    BY <1>0, <2>1, <2>2
  <2> QED
    BY <1>3, <2>3, ResumeType, UnchangedServiceInv, TypeInvFrom DEF UnlockSyncReturn
<1> QED
  BY <1>1, <1>2, <1>3 DEF Return

\* A lookup returns a session of the set it searched that the thread sees.
LEMMA FirstSeenIsSeen ==
    ASSUME NEW t \in Threads, NEW S, S \subseteq Ids, FirstSeen(t, S) # 0
    PROVE  FirstSeen(t, S) \in S /\ FirstSeen(t, S) \in Visible(t)
<1> DEFINE on(list) == {s \in S : sess[s].home = list}
<1>1. on("global") \subseteq Ids /\ on(t) \subseteq Ids
  OBVIOUS
<1>2. CASE on("global") # {}
  BY <1>1, <1>2, FirstOfIsIn DEF FirstSeen, Visible
<1>3. CASE on("global") = {} /\ on(t) # {}
  BY <1>1, <1>3, FirstOfIsIn DEF FirstSeen, Visible
<1>4. CASE on("global") = {} /\ on(t) = {}
  BY <1>4 DEF FirstSeen
<1> QED
  BY <1>2, <1>3, <1>4

LEMMA SessionOfIsSeen ==
    ASSUME NEW t \in Threads, NEW cb \in Callbacks, SessionOf(t, cb) # 0
    PROVE  SessionOf(t, cb) \in Visible(t)
<1>1. cb.kind \in {"waiter", "grant", "release", "open"}
  BY DEF Callbacks, GrantCb, ReleaseCb, WaiterCb, OpenCb
<1>2. Matching(cb) \subseteq Ids
  BY <1>1 DEF Matching
<1> QED
  BY <1>2, FirstSeenIsSeen DEF SessionOf

\* What a callback stores fits the session's fields.
LEMMA CallbackType ==
    ASSUME TypeInv, NEW cb \in Callbacks, NEW u \in Ids,
           sess' = CASE cb.kind = "waiter"  -> WaiterCallback(cb, u)
                     [] cb.kind = "grant"   -> GrantCallback(cb, u)
                     [] cb.kind = "open"    -> OpenCallback(cb, u)
                     [] cb.kind = "release" -> ReleaseCallback(cb, u)
    PROVE  \E r \in Sessions : /\ sess' = [sess EXCEPT ![u] = r]
                               /\ r.home = sess[u].home
                               /\ r.handle = sess[u].handle
<1>0. sess \in [Ids -> Sessions] /\ sess[u] \in Sessions
  BY DEF TypeInv, TypeOK
<1>1. CASE cb.kind = "waiter"
  <2> DEFINE n == sess[u].waits + 1
             r == [sess[u] EXCEPT !.waits = n]
  <2>1. sess' = [sess EXCEPT ![u] = r]
    BY <1>1 DEF WaiterCallback
  <2>2. n \in Nat
    BY <1>0 DEF Sessions
  <2> HIDE DEF n
  <2>3. r \in Sessions /\ r.home = sess[u].home /\ r.handle = sess[u].handle
    BY <1>0, <2>2 DEF Sessions
  <2> QED
    BY <2>1, <2>3
<1>2. CASE cb.kind = "grant"
  <2> DEFINE st == cb.status
             r == [sess[u] EXCEPT !.lockStatus = st]
  <2>1. sess' = [sess EXCEPT ![u] = r]
    BY <1>2 DEF GrantCallback
  <2>2. st \in Results
    BY <1>2 DEF Callbacks, GrantCb, ReleaseCb, WaiterCb, OpenCb
  <2> HIDE DEF st
  <2>3. r \in Sessions /\ r.home = sess[u].home /\ r.handle = sess[u].handle
    BY <1>0, <2>2 DEF Sessions
  <2> QED
    BY <2>1, <2>3
<1>3. CASE cb.kind = "open"
  <2> DEFINE rh == cb.res
             e == cb.err
             r == [sess[u] EXCEPT !.res = rh, !.openErr = e]
  <2>1. sess' = [sess EXCEPT ![u] = r]
    BY <1>3 DEF OpenCallback
  <2>2. rh \in Handles \cup {0} /\ e \in Errors
    BY <1>3 DEF Callbacks, GrantCb, ReleaseCb, WaiterCb, OpenCb
  <2> HIDE DEF rh, e
  <2>3. r \in Sessions
    BY <1>0, <2>2 DEF Sessions
  <2>4. r.home = sess[u].home /\ r.handle = sess[u].handle
    BY <1>0 DEF Sessions
  <2> HIDE DEF r
  <2> QED
    BY <2>1, <2>3, <2>4
<1>4. CASE cb.kind = "release"
  <2> DEFINE r == [sess[u] EXCEPT !.lockStatus = "NO_MORE", !.lockId = 0, !.waits = 0]
  <2>1. sess' = [sess EXCEPT ![u] = r]
    BY <1>4 DEF ReleaseCallback
  <2>2. r \in Sessions
    BY <1>0 DEF Sessions
  <2>3. r.home = sess[u].home /\ r.handle = sess[u].handle
    BY <1>0 DEF Sessions
  <2> HIDE DEF r
  <2> QED
    BY <2>1, <2>2, <2>3
<1> QED
  BY <1>1, <1>2, <1>3, <1>4 DEF Callbacks, GrantCb, ReleaseCb, WaiterCb, OpenCb

LEMMA LoopTypeInv ==
    ASSUME TypeInv, NEW t \in Threads, Loop(t)
    PROVE  TypeInv'
<1> USE DEF TypeInv, TypeOK
<1>0. th[t] \in ThreadRecs
  OBVIOUS
<1>1. CASE Select(t)
  <2> DEFINE ready == {h \in Handles :
                         /\ svcOut[h] # {}
                         /\ \E s \in Ids : /\ sess[s].home = t
                                           /\ sess[s].flags # "BLOCKING"
                                           /\ sess[s].selobj = h}
             r(n) == [th[t] EXCEPT !.pc = "serve", !.mask = ready, !.left = n]
  <2>1. ready \subseteq Handles
    OBVIOUS
  <2>2. PICK n \in 0 .. MaxServed : th' = [th EXCEPT ![t] = r(n)]
    BY <1>1 DEF Select
  <2> HIDE DEF ready
  <2>3. r(n) \in ThreadRecs /\ r(n).pc = "serve"
    BY <1>0, <2>1 DEF ThreadRecs, Pcs
  <2> HIDE DEF r
  <2>4. th' \in [Threads -> ThreadRecs] /\ InHand'
    BY <2>2, <2>3 DEF InHand
  <2> QED
    BY <1>1, <2>4, UnchangedServiceInv, TypeInvFrom DEF Select
<1>2. CASE EndServe(t)
  <2> DEFINE todo == {s \in Ids : sess[s].home = t}
             r == [th[t] EXCEPT !.pc = "check", !.todo = todo]
  <2>1. th' = [th EXCEPT ![t] = r]
    BY <1>2 DEF EndServe
  <2>2. todo \subseteq Ids
    OBVIOUS
  <2> HIDE DEF todo
  <2>3. r \in ThreadRecs /\ r.pc = "check"
    BY <1>0, <2>2 DEF ThreadRecs, Pcs
  <2> HIDE DEF r
  <2>4. th' \in [Threads -> ThreadRecs] /\ InHand'
    BY <2>1, <2>3 DEF InHand
  <2> QED
    BY <1>2, <2>4, UnchangedServiceInv, TypeInvFrom DEF EndServe
<1>3. CASE Check(t)
  <2> DEFINE due == {s \in th[t].todo : sess[s].selobj \in th[t].mask}
             s   == FirstOf(due)
  <2>1. CASE due = {}
    <3>1. th' = [th EXCEPT ![t] = IdleThread] /\ UNCHANGED <<sess, nextId, aborted, svcVars>>
      BY <1>3, <2>1 DEF Check
    <3>2. IdleThread \in ThreadRecs /\ IdleThread.pc = "select"
      BY DriverAssumption DEF IdleThread, ThreadRecs, Pcs, Flags
    <3>3. th' \in [Threads -> ThreadRecs] /\ InHand'
      BY <3>1, <3>2 DEF InHand
    <3> QED
      BY <3>1, <3>3, UnchangedServiceInv, TypeInvFrom
  <2>2. CASE due # {} /\ sess[s].flags = "BLOCKING"
    BY <1>3, <2>2, AbortType DEF Check, Aborts
  <2>3. CASE due # {} /\ sess[s].flags # "BLOCKING"
    <3> DEFINE rest == th[t].todo \ {s}
               h == sess[s].handle
               f == sess[s].flags
               r == [th[t] EXCEPT !.pc = "dispatch", !.todo = rest, !.s = s, !.h = h,
                                  !.how = f, !.back = "check"]
    <3>1. due \subseteq Ids /\ rest \subseteq Ids
      BY <1>0 DEF ThreadRecs
    <3>2. s \in Ids
      <4> HIDE DEF due
      <4> QED BY <2>3, <3>1, FirstOfIsIn
    <3>3. th' = [th EXCEPT ![t] = r] /\ UNCHANGED <<sess, nextId, aborted, svcVars>>
      BY <1>3, <2>3 DEF Check
    <3> HIDE DEF s, due
    <3>4. h \in Handles \cup {0} /\ f \in Flags
      BY <3>2 DEF Sessions
    <3> HIDE DEF rest, h, f
    <3>5. r \in ThreadRecs /\ r.pc = "dispatch" /\ r.s \in Ids
      BY <1>0, <3>1, <3>2, <3>4 DEF ThreadRecs, Pcs
    <3> HIDE DEF r
    <3>6. th' \in [Threads -> ThreadRecs] /\ InHand'
      BY <3>3, <3>5 DEF InHand
    <3> QED
      BY <3>3, <3>6, UnchangedServiceInv, TypeInvFrom
  <2> QED
    BY <2>1, <2>2, <2>3
<1>4. CASE TakeOne(t)
  <2>1. PICK cb \in svcOut[th[t].h] :
          /\ TakeCallback(th[t].h, cb)
          /\ th' = [th EXCEPT ![t] = [th[t] EXCEPT !.pc = "callback", !.cb = cb]]
    BY <1>4 DEF TakeOne
  <2> DEFINE r == [th[t] EXCEPT !.pc = "callback", !.cb = cb]
  <2>2. cb \in Callbacks
    BY <1>4, <2>1 DEF TakeOne, Live, ServiceTypeOK
  <2>3. r \in ThreadRecs /\ r.pc = "callback" /\ r.cb = cb /\ r.s = th[t].s
    BY <1>0, <2>2 DEF ThreadRecs, Pcs
  <2>4. th' = [th EXCEPT ![t] = r]
    BY <2>1
  <2>5. th[t].s \in Ids
    BY <1>4 DEF TakeOne, InHand
  <2> HIDE DEF r
  <2>6. th' \in [Threads -> ThreadRecs] /\ InHand'
    BY <2>2, <2>3, <2>4, <2>5 DEF InHand
  <2>7. ServiceInv'
    BY <2>1, ServiceCallInv
  <2> QED
    BY <1>4, <2>6, <2>7, TypeInvFrom DEF TakeOne
<1>5. CASE DispatchReturn(t)
  <2> DEFINE back == th[t].back
             r == [th[t] EXCEPT !.pc = back, !.s = 0, !.h = 0, !.how = "NONE",
                                !.back = "serve"]
  <2>1. th' = [th EXCEPT ![t] = r]
    BY <1>5 DEF DispatchReturn
  <2>2. back \in {"serve", "check"}
    BY <1>0 DEF ThreadRecs
  <2> HIDE DEF back
  <2>3. r \in ThreadRecs /\ r.pc \in {"serve", "check"}
    BY <1>0, <2>2 DEF ThreadRecs, Pcs, Flags
  <2> HIDE DEF r
  <2>4. th' \in [Threads -> ThreadRecs] /\ InHand'
    BY <2>1, <2>3 DEF InHand
  <2> QED
    BY <1>5, <2>4, UnchangedServiceInv, TypeInvFrom DEF DispatchReturn
<1>6. CASE RunCallback(t)
  <2> DEFINE cb == th[t].cb
             u == SessionOf(t, cb)
  <2>1. CASE u = 0
    BY <1>6, <2>1, AbortType DEF RunCallback, Aborts
  <2>2. CASE u # 0
    <3> DEFINE how == IF th[t].how = "ONE" THEN "NONE" ELSE th[t].how
               r == [th[t] EXCEPT !.pc = "dispatch", !.cb = NoCb, !.how = how]
    <3>1. cb \in Callbacks /\ th[t].s \in Ids
      BY <1>6 DEF RunCallback, InHand
    <3>2. u \in Ids
      BY <2>2, <3>1, SessionOfIsSeen DEF Visible
    <3>3. /\ sess' = CASE cb.kind = "waiter"  -> WaiterCallback(cb, u)
                       [] cb.kind = "grant"   -> GrantCallback(cb, u)
                       [] cb.kind = "open"    -> OpenCallback(cb, u)
                       [] cb.kind = "release" -> ReleaseCallback(cb, u)
          /\ th' = [th EXCEPT ![t] = r]
          /\ UNCHANGED <<nextId, aborted, svcVars>>
      BY <1>6, <2>2 DEF RunCallback
    <3> HIDE DEF cb, u
    <3>4. sess' \in [Ids -> Sessions]
      <4>1. PICK q \in Sessions : sess' = [sess EXCEPT ![u] = q]
        BY <3>1, <3>2, <3>3, CallbackType
      <4> QED
        BY <3>2, <4>1
    <3>5. how \in Flags
      BY <1>0 DEF ThreadRecs, Flags
    <3> HIDE DEF how
    <3>6. r \in ThreadRecs /\ r.pc = "dispatch" /\ r.s = th[t].s
      BY <1>0, <3>5 DEF ThreadRecs, Pcs
    <3> HIDE DEF r
    <3>7. th' \in [Threads -> ThreadRecs] /\ InHand'
      BY <3>1, <3>3, <3>6 DEF InHand
    <3> QED
      BY <3>3, <3>4, <3>7, UnchangedServiceInv, TypeInvFrom
  <2> QED
    BY <2>1, <2>2
<1> QED
  BY <1>1, <1>2, <1>3, <1>4, <1>5, <1>6 DEF Loop

LEMMA NextTypeInv == TypeInv /\ [Next]_vars => TypeInv'
<1> SUFFICES ASSUME TypeInv, [Next]_vars PROVE TypeInv'
  OBVIOUS
<1>1. CASE UNCHANGED vars
  BY <1>1 DEF vars, svcVars, TypeInv, TypeOK, ServiceInv, ServiceTypeOK, InHand
<1>2. ASSUME NEW t \in Threads, Request(t) PROVE TypeInv'
  BY <1>2, RequestTypeInv
<1>3. ASSUME NEW t \in Threads, Return(t) PROVE TypeInv'
  BY <1>3, ReturnTypeInv
<1>4. ASSUME NEW t \in Threads, Loop(t) PROVE TypeInv'
  BY <1>4, LoopTypeInv
<1>5. ASSUME NEW l \in LockIds, Service(l) PROVE TypeInv'
  <2>1. Answer(l) \/ Release(l) \/ Waiter(l)
    BY <1>5 DEF Service
  <2>2. ServiceInv'
    BY <2>1, ServiceStepInv DEF TypeInv
  <2> QED
    BY <1>5, <2>2 DEF Service, TypeInv, TypeOK, InHand, ServiceInv
<1> QED
  BY <1>1, <1>2, <1>3, <1>4, <1>5 DEF Next

LEMMA TypeInvHolds == Spec => []TypeInv
  BY InitTypeInv, NextTypeInv, PTL DEF Spec

\* Every reachable state of the daemon and the library has its type
\* (lck_driver.c, whatever the clients send and the library answers).
THEOREM TypeCorrect == Spec => []TypeOK
<1>1. TypeInv => TypeOK
  BY DEF TypeInv
<1> QED
  BY <1>1, TypeInvHolds, PTL

-----------------------------------------------------------------------------
\* Who can reach a session and its handle.

\* A session has a list from its creation to its deletion, and its id is used
\* once.
IdsAreFresh == \A s \in Ids : s >= nextId => sess[s].home = "none"

\* No two sessions hold one handle, and none holds a handle the library has not
\* given out.
HandlesAreOwned ==
    /\ \A s, u \in Ids : sess[s].handle = sess[u].handle /\ sess[s].handle # 0 => s = u
    /\ \A s \in Ids : sess[s].handle # 0 => svcHandle[sess[s].handle] # "unused"

\* The session a thread works for is one it sees, unless it was deleted since.
SessionIsReachable ==
    \A t \in Threads : th[t].pc \notin {"select", "serve", "check"} =>
        /\ th[t].s < nextId
        /\ sess[th[t].s].home \in {t, "global", "none"}

\* The handle a thread dispatches is, or was, that of the session it works for.
HandleIsOfSession ==
    \A t \in Threads : Dispatching(t) /\ th[t].h # 0 =>
        /\ svcHandle[th[t].h] # "unused"
        /\ \A u \in Ids : sess[u].handle = th[t].h => u = th[t].s

\* Threads that dispatch one handle do so for one session.
SharedHandleSharedSession ==
    \A t, u \in Threads :
        Dispatching(t) /\ Dispatching(u) /\ th[t].h = th[u].h /\ th[t].h # 0
            => th[t].s = th[u].s

\* check_fds walks the thread's own list.
TodoIsLocal ==
    \A t \in Threads :
        th[t].pc = "check" \/ (Dispatching(t) /\ th[t].back = "check")
            => \A s \in th[t].todo : sess[s].home = t

OwnInv == /\ IdsAreFresh /\ HandlesAreOwned /\ SessionIsReachable
          /\ HandleIsOfSession /\ SharedHandleSharedSession /\ TodoIsLocal

IInv == TypeInv /\ OwnInv

\* How an ordinary step treats a thread: it stays at what it was doing, goes
\* back to its clients, enters a call for a session it sees, or comes back from
\* a dispatch to the sessions it has still to visit.
Keeps(t) == /\ th'[t].s = th[t].s /\ th'[t].h = th[t].h
            /\ th'[t].back = th[t].back /\ th'[t].todo = th[t].todo
            /\ th'[t].pc = th[t].pc \/ (Dispatching(t) /\ Dispatching(t)')
Leaves(t) == th'[t].pc \in {"select", "serve"}
Calls(t) == th'[t].pc \in {"lock", "lockasync", "unlock"} /\ th'[t].s \in Visible(t)
Resumes(t) == /\ th'[t].pc = "check" /\ th'[t].todo = th[t].todo
              /\ Dispatching(t) /\ th[t].back = "check"

ThreadsKeep == \A t \in Threads : Keeps(t) \/ Leaves(t) \/ Calls(t) \/ Resumes(t)

\* It gives no session another list or a handle, and no handle back for reuse.
SessionsKeep == \A s \in Ids : /\ sess'[s].home = sess[s].home
                              /\ sess'[s].handle \in {sess[s].handle, 0}
HandlesKeep == \A h \in Handles : svcHandle[h] # "unused" => svcHandle'[h] # "unused"

LEMMA SeenIsOld ==
    ASSUME IInv, NEW t \in Threads, NEW s \in Visible(t)
    PROVE  s \in Ids /\ s < nextId /\ sess[s].home \in {t, "global"}
<1>1. s \in Ids /\ sess[s].home \in {t, "global"}
  BY DEF Visible
<1>2. sess[s].home # "none"
  BY <1>1, DriverAssumption
<1>3. nextId \in Nat /\ s \in Nat /\ ~(s >= nextId)
  BY <1>1, <1>2, DriverAssumption DEF IInv, OwnInv, IdsAreFresh, TypeInv, TypeOK, Ids
<1> QED
  BY <1>1, <1>3

\* Most steps create no session, hand out no handle and start no dispatch.
LEMMA OrdinaryStep ==
    ASSUME IInv, TypeInv', nextId' = nextId, SessionsKeep, HandlesKeep, ThreadsKeep
    PROVE  OwnInv'
<1> USE DEF SessionsKeep, HandlesKeep, ThreadsKeep
<1>1. IdsAreFresh'
  BY DEF IInv, OwnInv, IdsAreFresh
<1>2. HandlesAreOwned'
  BY DEF IInv, OwnInv, HandlesAreOwned, TypeInv, TypeOK, Sessions
<1>3. SessionIsReachable'
  <2> SUFFICES ASSUME NEW t \in Threads, th'[t].pc \notin {"select", "serve", "check"}
               PROVE  /\ th'[t].s < nextId'
                      /\ sess'[th'[t].s].home \in {t, "global", "none"}
    BY DEF SessionIsReachable
  <2>1. CASE Keeps(t)
    BY <2>1 DEF IInv, OwnInv, SessionIsReachable, Keeps, Dispatching, TypeInv, InHand
  <2>2. CASE Calls(t)
    BY <2>2, SeenIsOld DEF Calls
  <2> QED
    BY <2>1, <2>2 DEF Leaves, Resumes
<1>4. \A t \in Threads : Dispatching(t)' =>
          /\ Dispatching(t) /\ th'[t].h = th[t].h /\ th'[t].s = th[t].s
          /\ th'[t].back = th[t].back /\ th'[t].todo = th[t].todo
  BY DEF Keeps, Leaves, Calls, Resumes, Dispatching
<1>5. HandleIsOfSession'
  BY <1>4 DEF IInv, OwnInv, HandleIsOfSession, TypeInv, TypeOK, ThreadRecs
<1>6. SharedHandleSharedSession'
  BY <1>4 DEF IInv, OwnInv, SharedHandleSharedSession
<1>7. TodoIsLocal'
  <2>1. \A t \in Threads : th'[t].pc = "check" \/ (Dispatching(t) /\ th[t].back = "check")'
            => /\ th'[t].todo = th[t].todo
               /\ th[t].pc = "check" \/ (Dispatching(t) /\ th[t].back = "check")
    BY <1>4 DEF Keeps, Leaves, Calls, Resumes, Dispatching
  <2> QED
    BY <2>1 DEF IInv, OwnInv, TodoIsLocal, TypeInv, TypeOK, ThreadRecs
<1> QED
  BY <1>1, <1>2, <1>3, <1>5, <1>6, <1>7 DEF OwnInv

LEMMA HandlesStayUsed ==
    ASSUME TypeInv,
           \/ UNCHANGED svcVars
           \/ \E h \in Handles, cbs \in BOOLEAN : saLckInitialize(h, cbs)
           \/ \E h : saLckFinalize(h)
           \/ \E h : saLckResourceOpen(h)
           \/ \E i \in Invocations : \E h : saLckResourceOpenAsync(h, i)
           \/ \E r : saLckResourceClose(r)
           \/ \E l \in LockIds, i \in Invocations \cup {0} : \E r : QueueLock(l, r, i)
           \/ \E l : saLckResourceUnlock(l)
           \/ \E i \in Invocations : \E l : saLckResourceUnlockAsync(i, l)
           \/ \E h, cb : TakeCallback(h, cb)
           \/ \E l \in LockIds : Answer(l) \/ Release(l) \/ Waiter(l)
    PROVE  HandlesKeep
<1> USE DEF HandlesKeep
<1>1. svcHandle \in [Handles -> HandleStates]
  BY DEF TypeInv, TypeOK, ServiceTypeOK
<1>2. CASE \E h \in Handles, cbs \in BOOLEAN : saLckInitialize(h, cbs)
  BY <1>1, <1>2 DEF saLckInitialize
<1>3. CASE \E h : saLckFinalize(h)
  BY <1>1, <1>3 DEF saLckFinalize
<1>4. CASE svcHandle' = svcHandle
  BY <1>4
<1> QED
  BY <1>2, <1>3, <1>4
     DEF svcVars, saLckResourceOpen, saLckResourceOpenAsync, saLckResourceClose,
         QueueLock, saLckResourceUnlock, saLckResourceUnlockAsync, TakeCallback,
         Answer, Release, Waiter

LEMMA ServedKeeps ==
    ASSUME TypeInv, NEW t \in Threads, Served(t)
    PROVE  ThreadsKeep
  BY DEF TypeInv, TypeOK, ThreadRecs, Served, Keeps, ThreadsKeep

LEMMA EnterCalls ==
    ASSUME TypeInv, NEW t \in Threads, NEW pc \in {"lock", "lockasync", "unlock"},
           NEW s \in Visible(t), NEW l, Enter(t, pc, s, l)
    PROVE  ThreadsKeep
  BY DEF TypeInv, TypeOK, ThreadRecs, Enter, Keeps, Calls, ThreadsKeep

LEMMA ResumeLeaves ==
    ASSUME TypeInv, NEW t \in Threads, Resume(t)
    PROVE  ThreadsKeep
  BY DEF TypeInv, TypeOK, ThreadRecs, Resume, Keeps, Leaves, ThreadsKeep

LEMMA AbortOwnInv ==
    ASSUME IInv, TypeInv', NEW why, Abort(why)
    PROVE  OwnInv'
<1>1. SessionsKeep
  BY DEF Abort, SessionsKeep
<1>2. ThreadsKeep
  BY DEF Abort, Keeps, ThreadsKeep
<1>3. nextId' = nextId /\ UNCHANGED svcVars
  BY DEF Abort
<1> QED
  BY <1>1, <1>2, <1>3, HandlesStayUsed, OrdinaryStep DEF IInv

\* The handlers that touch neither the lists nor a session's handle.
LEMMA PlainRequestOwnInv ==
    ASSUME IInv, TypeInv', NEW t \in Threads,
           \/ GetStatus(t)
           \/ \E s \in Visible(t) :
                \/ SelectionObjectGet(t, s) \/ ResourceOpen(t, s) \/ ResourceOpenAsync(t, s)
                \/ ResourceClose(t, s) \/ LockSync(t, s) \/ LockAsync(t, s)
                \/ UnlockSync(t, s) \/ UnlockAsync(t, s)
    PROVE  OwnInv'
<1>0. sess \in [Ids -> Sessions] /\ TypeInv
  BY DEF IInv, TypeInv, TypeOK
<1>1. nextId' = nextId
  BY DEF GetStatus, SelectionObjectGet, ResourceOpen, ResourceOpenAsync, ResourceClose,
         LockSync, LockAsync, UnlockSync, UnlockAsync
<1>2. SessionsKeep
  <2> USE DEF SessionsKeep
  <2>1. CASE UNCHANGED sess
    BY <2>1
  <2>2. ASSUME NEW s \in Visible(t), SelectionObjectGet(t, s)
        PROVE  SessionsKeep
    BY <1>0, <2>2 DEF SelectionObjectGet, Visible, Sessions
  <2>3. ASSUME NEW s \in Visible(t), ResourceOpen(t, s)
        PROVE  SessionsKeep
    BY <1>0, <2>3 DEF ResourceOpen, Visible, Sessions
  <2>4. ASSUME NEW s \in Visible(t), ResourceOpenAsync(t, s)
        PROVE  SessionsKeep
    BY <1>0, <2>4 DEF ResourceOpenAsync, Visible, Sessions
  <2>5. ASSUME NEW s \in Visible(t), LockAsync(t, s)
        PROVE  SessionsKeep
    BY <1>0, <2>5 DEF LockAsync, Visible, Sessions
  <2>6. ASSUME NEW s \in Visible(t), UnlockAsync(t, s)
        PROVE  SessionsKeep
    BY <1>0, <2>6 DEF UnlockAsync, Visible, Sessions
  <2> QED
    BY <2>1, <2>2, <2>3, <2>4, <2>5, <2>6
       DEF GetStatus, ResourceClose, LockSync, UnlockSync
<1>3. HandlesKeep
  <2>1. CASE UNCHANGED svcVars
    BY <1>0, <2>1, HandlesStayUsed
  <2>2. ASSUME NEW s \in Visible(t), ResourceOpen(t, s) \/ ResourceOpenAsync(t, s)
        PROVE  HandlesKeep
    BY <1>0, <2>2, HandlesStayUsed DEF ResourceOpen, ResourceOpenAsync, Refused
  <2>3. ASSUME NEW s \in Visible(t), ResourceClose(t, s) \/ LockSync(t, s) \/ LockAsync(t, s)
        PROVE  HandlesKeep
    BY <1>0, <2>3, HandlesStayUsed DEF ResourceClose, LockSync, LockAsync, Refused
  <2>4. ASSUME NEW s \in Visible(t), UnlockSync(t, s) \/ UnlockAsync(t, s)
        PROVE  HandlesKeep
    BY <1>0, <2>4, HandlesStayUsed DEF UnlockSync, UnlockAsync, Refused
  <2> QED
    BY <2>1, <2>2, <2>3, <2>4 DEF GetStatus, SelectionObjectGet
<1>4. ThreadsKeep
  <2>1. CASE Served(t)
    BY <1>0, <2>1, ServedKeeps
  <2>2. ASSUME NEW s \in Visible(t), NEW l, NEW pc \in {"lock", "lockasync", "unlock"},
               Enter(t, pc, s, l)
        PROVE  ThreadsKeep
    BY <1>0, <2>2, EnterCalls
  <2> QED
    BY <2>1, <2>2 DEF GetStatus, SelectionObjectGet, ResourceOpen, ResourceOpenAsync,
       ResourceClose, LockSync, LockAsync, UnlockSync, UnlockAsync
<1> QED
  BY <1>1, <1>2, <1>3, <1>4, OrdinaryStep

LEMMA CreateOwnInv ==
    ASSUME IInv, TypeInv', NEW t \in Threads, CreateSession(t)
    PROVE  OwnInv'
<1>0. sess \in [Ids -> Sessions] /\ nextId \in Ids /\ nextId' = nextId + 1
  BY DEF IInv, TypeInv, TypeOK, CreateSession
<1>1. PICK where \in {"global", t} :
        sess' = [sess EXCEPT ![nextId] = [NewSession EXCEPT !.home = where]]
  BY DEF CreateSession
<1>2. [NewSession EXCEPT !.home = where].handle = 0
  BY DEF NewSession
<1>3. \A s \in Ids \ {nextId} : sess'[s] = sess[s]
  BY <1>0, <1>1
<1>4. sess'[nextId].handle = 0 /\ sess[nextId].home = "none"
  BY <1>0, <1>1, <1>2, DriverAssumption DEF IInv, OwnInv, IdsAreFresh, Ids
<1>5. ThreadsKeep /\ \A u \in Threads : Keeps(u)
  BY DEF IInv, TypeInv, TypeOK, ThreadRecs, CreateSession, Served, Keeps, ThreadsKeep
<1>6. UNCHANGED svcHandle /\ nextId \in Nat
  BY <1>0, DriverAssumption DEF CreateSession, svcVars, Ids
<1>7. IdsAreFresh'
  BY <1>0, <1>3, <1>6, DriverAssumption DEF IInv, OwnInv, IdsAreFresh, Ids
<1>8. HandlesAreOwned'
  BY <1>0, <1>3, <1>4, <1>6 DEF IInv, OwnInv, HandlesAreOwned, Sessions
<1>9. SessionIsReachable'
  <2>1. \A u \in Threads : th[u].pc \notin {"select", "serve", "check"} =>
            th[u].s \in Ids /\ th[u].s # nextId /\ th[u].s < nextId'
    BY <1>0, <1>6, DriverAssumption DEF IInv, OwnInv, SessionIsReachable, TypeInv, InHand, Ids
  <2> QED
    BY <1>3, <1>5, <2>1 DEF IInv, OwnInv, SessionIsReachable, Keeps, Dispatching
<1>10. HandleIsOfSession'
  <2>1. \A u \in Threads : Dispatching(u) /\ th[u].h # 0 =>
            /\ svcHandle'[th[u].h] # "unused"
            /\ \A k \in Ids : sess'[k].handle = th[u].h => k = th[u].s
    <3> SUFFICES ASSUME NEW u \in Threads, Dispatching(u), th[u].h # 0,
                        NEW k \in Ids, sess'[k].handle = th[u].h
                 PROVE  k = th[u].s
      BY <1>6 DEF IInv, OwnInv, HandleIsOfSession
    <3>1. k # nextId
      BY <1>4
    <3> QED
      BY <1>3, <3>1 DEF IInv, OwnInv, HandleIsOfSession
  <2> QED
    BY <1>5, <2>1 DEF HandleIsOfSession, Keeps, Dispatching
<1>11. SharedHandleSharedSession'
  BY <1>5 DEF IInv, OwnInv, SharedHandleSharedSession, Keeps, Dispatching
<1>12. TodoIsLocal'
  <2>1. \A u \in Threads : (th[u].pc = "check" \/ (Dispatching(u) /\ th[u].back = "check"))
            => \A s \in th[u].todo : s \in Ids /\ s # nextId
    BY <1>4, DriverAssumption
       DEF IInv, OwnInv, TodoIsLocal, TypeInv, TypeOK, ThreadRecs
  <2> QED
    BY <1>3, <1>5, <2>1 DEF IInv, OwnInv, TodoIsLocal, Keeps, Dispatching
<1> QED
  BY <1>7, <1>8, <1>9, <1>10, <1>11, <1>12 DEF OwnInv

LEMMA DeleteOwnInv ==
    ASSUME IInv, TypeInv', NEW t \in Threads, NEW s \in Visible(t), DeleteSession(t, s)
    PROVE  OwnInv'
<1>1. CASE sess[s].handle # 0
  BY <1>1, AbortOwnInv DEF DeleteSession
<1>2. CASE sess[s].handle = 0
  <2>0. sess \in [Ids -> Sessions] /\ s \in Ids /\ sess[s].home \in {t, "global"}
    BY SeenIsOld DEF IInv, TypeInv, TypeOK
  <2>1. /\ sess' = [sess EXCEPT ![s] = NewSession]
        /\ nextId' = nextId /\ UNCHANGED svcHandle
    BY <1>2 DEF DeleteSession, svcVars
  <2>2. /\ \A u \in Ids \ {s} : sess'[u] = sess[u]
        /\ sess'[s].home = "none" /\ sess'[s].handle = 0
    BY <2>0, <2>1 DEF NewSession
  <2>3. \A u \in Threads : Keeps(u) /\ (u = t => th[u].pc = "serve")
    BY <1>2 DEF IInv, TypeInv, TypeOK, ThreadRecs, DeleteSession, Served, Keeps, Serving
  <2>4. IdsAreFresh'
    BY <2>1, <2>2 DEF IInv, OwnInv, IdsAreFresh
  <2>5. HandlesAreOwned'
    BY <2>0, <2>1, <2>2 DEF IInv, OwnInv, HandlesAreOwned, Sessions
  <2>6. SessionIsReachable'
    <3>1. \A u \in Threads : th[u].pc \notin {"select", "serve", "check"} => th[u].s \in Ids
      BY DEF IInv, TypeInv, InHand
    <3> QED
      BY <2>1, <2>2, <2>3, <3>1 DEF IInv, OwnInv, SessionIsReachable, Keeps, Dispatching
  <2>7. HandleIsOfSession'
    BY <2>1, <2>2, <2>3 DEF IInv, OwnInv, HandleIsOfSession, Keeps, Dispatching
  <2>8. SharedHandleSharedSession'
    BY <2>3 DEF IInv, OwnInv, SharedHandleSharedSession, Keeps, Dispatching
  <2>9. TodoIsLocal'
    <3>1. \A u \in Threads : (th[u].pc = "check" \/ (Dispatching(u) /\ th[u].back = "check"))
              => u # t /\ \A k \in th[u].todo : k \in Ids /\ sess[k].home = u
      BY <2>3 DEF IInv, OwnInv, TodoIsLocal, TypeInv, TypeOK, ThreadRecs, Dispatching
    <3>2. "global" \notin Threads
      BY DriverAssumption
    <3>3. \A u \in Threads : (th[u].pc = "check" \/ (Dispatching(u) /\ th[u].back = "check"))
              => \A k \in th[u].todo : k # s
      BY <2>0, <3>1, <3>2
    <3> QED
      BY <2>2, <2>3, <3>1, <3>3 DEF TodoIsLocal, Keeps, Dispatching
  <2> QED
    BY <2>4, <2>5, <2>6, <2>7, <2>8, <2>9 DEF OwnInv
<1> QED
  BY <1>1, <1>2

LEMMA InitializeOwnInv ==
    ASSUME IInv, TypeInv', NEW t \in Threads, NEW s \in Visible(t), Initialize(t, s)
    PROVE  OwnInv'
<1>0. sess \in [Ids -> Sessions] /\ s \in Ids /\ sess[s] \in Sessions
  BY DEF IInv, TypeInv, TypeOK, Visible
<1>1. ThreadsKeep /\ nextId' = nextId
  BY ServedKeeps DEF Initialize, IInv
<1>2. PICK f \in DispatchFlags, cbs \in BOOLEAN :
        \/ \E h \in Handles :
             /\ saLckInitialize(h, cbs)
             /\ sess' = [sess EXCEPT ![s].handle = h, ![s].flags = f, ![s].cbs = cbs]
        \/ /\ Refused
           /\ sess' = [sess EXCEPT ![s].flags = f, ![s].cbs = cbs]
  BY DEF Initialize
<1>3. CASE Refused /\ sess' = [sess EXCEPT ![s].flags = f, ![s].cbs = cbs]
  <2>1. SessionsKeep
    BY <1>0, <1>3 DEF SessionsKeep, Sessions
  <2> QED
    BY <1>1, <1>3, <2>1, HandlesStayUsed, OrdinaryStep DEF Refused, IInv
<1>4. ASSUME NEW h \in Handles, saLckInitialize(h, cbs),
             sess' = [sess EXCEPT ![s].handle = h, ![s].flags = f, ![s].cbs = cbs]
      PROVE  OwnInv'
  <2>1. /\ \A u \in Ids \ {s} : sess'[u] = sess[u]
        /\ sess'[s].home = sess[s].home /\ sess'[s].handle = h
    BY <1>0, <1>4 DEF Sessions
  <2>2. svcHandle[h] = "unused" /\ svcHandle'[h] # "unused" /\ HandlesKeep
    BY <1>4 DEF saLckInitialize, FreshHandle, HandlesKeep, IInv, TypeInv, TypeOK, ServiceTypeOK
  <2>3. \A u \in Threads : Keeps(u)
    <3>1. Served(t)
      BY DEF Initialize
    <3> QED
      BY <3>1 DEF IInv, TypeInv, TypeOK, ThreadRecs, Served, Keeps
  <2>4. h # 0
    BY DEF Handles
  <2>5. \A u \in Ids : sess[u].handle # h
    BY <2>2, <2>4 DEF IInv, OwnInv, HandlesAreOwned
  <2>6. IdsAreFresh'
    BY <1>1, <2>1 DEF IInv, OwnInv, IdsAreFresh
  <2>7. HandlesAreOwned'
    <3>1. \A u \in Ids \ {s} : sess'[u].handle # 0 => svcHandle'[sess'[u].handle] # "unused"
      BY <1>0, <2>1, <2>2 DEF IInv, OwnInv, HandlesAreOwned, HandlesKeep, Sessions
    <3>2. \A u, k \in Ids : sess'[u].handle = sess'[k].handle /\ sess'[u].handle # 0 => u = k
      BY <2>1, <2>5 DEF IInv, OwnInv, HandlesAreOwned
    <3> QED
      BY <2>1, <2>2, <3>1, <3>2 DEF HandlesAreOwned
  <2>8. SessionIsReachable'
    BY <1>1, <2>1, <2>3
       DEF IInv, OwnInv, SessionIsReachable, Keeps, Dispatching, TypeInv, InHand
  <2>9. HandleIsOfSession'
    <3>1. \A u \in Threads : Dispatching(u) /\ th[u].h # 0 =>
              /\ th[u].h \in Handles /\ th[u].h # h
              /\ svcHandle'[th[u].h] # "unused"
              /\ \A k \in Ids : sess'[k].handle = th[u].h => k = th[u].s
      BY <2>1, <2>2
         DEF IInv, OwnInv, HandleIsOfSession, HandlesKeep, TypeInv, TypeOK, ThreadRecs
    <3> QED
      BY <2>3, <3>1 DEF HandleIsOfSession, Keeps, Dispatching
  <2>10. SharedHandleSharedSession'
    BY <2>3 DEF IInv, OwnInv, SharedHandleSharedSession, Keeps, Dispatching
  <2>11. TodoIsLocal'
    BY <2>1, <2>3
       DEF IInv, OwnInv, TodoIsLocal, Keeps, Dispatching, TypeInv, TypeOK, ThreadRecs
  <2> QED
    BY <2>6, <2>7, <2>8, <2>9, <2>10, <2>11 DEF OwnInv
<1> QED
  BY <1>2, <1>3, <1>4

\* A thread enters saLckDispatch with the handle its session has now.
LEMMA StartDispatch ==
    ASSUME IInv, TypeInv', NEW t \in Threads, NEW s \in Visible(t), ~Dispatching(t),
           UNCHANGED <<sess, nextId, svcVars>>,
           \A u \in Threads \ {t} : th'[u] = th[u],
           th'[t].pc = "dispatch", th'[t].s = s, th'[t].h = sess[s].handle,
           th'[t].back = "check" => \A k \in th'[t].todo : sess[k].home = t
    PROVE  OwnInv'
<1>0. s \in Ids /\ s < nextId /\ sess[s].home \in {t, "global"} /\ UNCHANGED svcHandle
  BY SeenIsOld DEF svcVars
<1>1. IdsAreFresh'
  BY DEF IInv, OwnInv, IdsAreFresh
<1>2. HandlesAreOwned'
  BY <1>0 DEF IInv, OwnInv, HandlesAreOwned
<1>3. SessionIsReachable'
  BY <1>0 DEF IInv, OwnInv, SessionIsReachable
<1>4. HandleIsOfSession'
  BY <1>0 DEF IInv, OwnInv, HandleIsOfSession, HandlesAreOwned, Dispatching
<1>5. \A u \in Threads \ {t} :
          Dispatching(u) /\ th[u].h = sess[s].handle /\ th[u].h # 0 => th[u].s = s
  BY <1>0 DEF IInv, OwnInv, HandleIsOfSession
<1>6. SharedHandleSharedSession'
  BY <1>5 DEF IInv, OwnInv, SharedHandleSharedSession, Dispatching
<1>7. TodoIsLocal'
  BY DEF IInv, OwnInv, TodoIsLocal, Dispatching
<1> QED
  BY <1>1, <1>2, <1>3, <1>4, <1>6, <1>7 DEF OwnInv

LEMMA RequestOwnInv ==
    ASSUME IInv, TypeInv', NEW t \in Threads, Request(t)
    PROVE  OwnInv'
<1>1. CASE UnknownSession(t)
  BY <1>1, AbortOwnInv DEF UnknownSession
<1>2. ASSUME NEW s \in Visible(t), GetWaitCount(t, s) PROVE OwnInv'
  <2>1. CASE sess[s].cbs
    <3>1. ThreadsKeep /\ SessionsKeep /\ HandlesKeep /\ nextId' = nextId
      BY <1>2, <2>1, ServedKeeps, HandlesStayUsed DEF GetWaitCount, SessionsKeep, IInv
    <3> QED
      BY <3>1, OrdinaryStep
  <2>2. CASE ~sess[s].cbs
    BY <1>2, <2>2, AbortOwnInv DEF GetWaitCount
  <2> QED
    BY <2>1, <2>2
<1>3. ASSUME NEW s \in Visible(t), Finalize(t, s) PROVE OwnInv'
  <2>1. SessionsKeep
    BY <1>3 DEF Finalize, SessionsKeep, IInv, TypeInv, TypeOK, Visible, Sessions
  <2>2. HandlesKeep
    BY <1>3, HandlesStayUsed DEF Finalize, Refused, IInv
  <2>3. ThreadsKeep /\ nextId' = nextId
    BY <1>3, ServedKeeps DEF Finalize, IInv
  <2> QED
    BY <2>1, <2>2, <2>3, OrdinaryStep
<1>4. ASSUME NEW s \in Visible(t), Dispatch(t, s) PROVE OwnInv'
  <2>1. PICK f \in DispatchFlags :
          IF f = "NONE" THEN Abort("dispatch none")
          ELSE IF f = "BLOCKING" /\ t = MainThread THEN Abort("blocking in main")
          ELSE /\ th' = [th EXCEPT ![t].left = @ - 1, ![t].pc = "dispatch",
                                   ![t].s = s, ![t].h = sess[s].handle,
                                   ![t].how = f, ![t].back = "serve"]
               /\ UNCHANGED <<sess, nextId, aborted, svcVars>>
    BY <1>4 DEF Dispatch
  <2>2. CASE f = "NONE" \/ (f = "BLOCKING" /\ t = MainThread)
    BY <2>1, <2>2, AbortOwnInv
  <2>3. CASE ~(f = "NONE" \/ (f = "BLOCKING" /\ t = MainThread))
    <3>1. ~Dispatching(t)
      BY <1>4 DEF Dispatch, Serving, Dispatching
    <3>2. /\ UNCHANGED <<sess, nextId, svcVars>>
          /\ th' = [th EXCEPT ![t].left = @ - 1, ![t].pc = "dispatch",
                              ![t].s = s, ![t].h = sess[s].handle,
                              ![t].how = f, ![t].back = "serve"]
      BY <2>1, <2>3
    <3>3. /\ \A u \in Threads \ {t} : th'[u] = th[u]
          /\ th'[t].pc = "dispatch" /\ th'[t].s = s /\ th'[t].h = sess[s].handle
          /\ th'[t].back = "serve"
      BY <3>2 DEF IInv, TypeInv, TypeOK, ThreadRecs
    <3> QED
      BY <3>1, <3>2, <3>3, StartDispatch
  <2> QED
    BY <2>2, <2>3
<1> QED
  BY <1>1, <1>2, <1>3, <1>4, CreateOwnInv, DeleteOwnInv, InitializeOwnInv,
     PlainRequestOwnInv DEF Request

LEMMA ReturnOwnInv ==
    ASSUME IInv, TypeInv', NEW t \in Threads, Return(t)
    PROVE  OwnInv'
<1>1. Resume(t) /\ nextId' = nextId /\ UNCHANGED svcVars
  BY DEF Return, LockSyncReturn, LockAsyncReturn, UnlockSyncReturn
<1>2. sess \in [Ids -> Sessions] /\ th[t].s \in Ids
  BY DEF IInv, TypeInv, TypeOK, InHand, Return, LockSyncReturn, LockAsyncReturn,
         UnlockSyncReturn
<1>3. SessionsKeep
  BY <1>2 DEF Return, LockSyncReturn, LockAsyncReturn, UnlockSyncReturn, SessionsKeep,
              Sessions
<1> QED
  BY <1>1, <1>3, ResumeLeaves, HandlesStayUsed, OrdinaryStep DEF IInv

LEMMA LoopOwnInv ==
    ASSUME IInv, TypeInv', NEW t \in Threads, Loop(t)
    PROVE  OwnInv'
<1>0. th \in [Threads -> ThreadRecs] /\ TypeInv
  BY DEF IInv, TypeInv, TypeOK
<1>1. CASE Select(t)
  <2>1. ThreadsKeep
    <3>1. th'[t].pc = "serve" /\ \A u \in Threads \ {t} : th'[u] = th[u]
      BY <1>0, <1>1 DEF Select, ThreadRecs
    <3> QED
      BY <3>1 DEF ThreadsKeep, Keeps, Leaves
  <2>2. SessionsKeep /\ nextId' = nextId /\ UNCHANGED svcVars
    BY <1>1 DEF Select, SessionsKeep
  <2> QED
    BY <1>0, <2>1, <2>2, HandlesStayUsed, OrdinaryStep
<1>2. CASE EndServe(t)
  <2>1. UNCHANGED <<sess, nextId, svcHandle>> /\ ~Dispatching(t)
    BY <1>2 DEF EndServe, svcVars, Dispatching
  <2>2. /\ \A u \in Threads \ {t} : th'[u] = th[u]
        /\ th'[t].pc = "check" /\ th'[t].todo = {s \in Ids : sess[s].home = t}
    BY <1>0, <1>2 DEF EndServe, ThreadRecs
  <2>3. IdsAreFresh' /\ HandlesAreOwned'
    BY <2>1 DEF IInv, OwnInv, IdsAreFresh, HandlesAreOwned
  <2>4. SessionIsReachable'
    BY <2>1, <2>2 DEF IInv, OwnInv, SessionIsReachable
  <2>5. HandleIsOfSession' /\ SharedHandleSharedSession'
    BY <2>1, <2>2
       DEF IInv, OwnInv, HandleIsOfSession, SharedHandleSharedSession, Dispatching
  <2>6. TodoIsLocal'
    BY <2>1, <2>2 DEF IInv, OwnInv, TodoIsLocal, Dispatching
  <2> QED
    BY <2>3, <2>4, <2>5, <2>6 DEF OwnInv
<1>3. CASE Check(t)
  <2> DEFINE due == {s \in th[t].todo : sess[s].selobj \in th[t].mask}
             s   == FirstOf(due)
  <2>1. CASE due = {}
    <3>1. th' = [th EXCEPT ![t] = IdleThread] /\ UNCHANGED <<sess, nextId, svcVars>>
      BY <1>3, <2>1 DEF Check
    <3>2. ThreadsKeep /\ SessionsKeep
      BY <1>0, <3>1 DEF ThreadsKeep, Keeps, Leaves, IdleThread, SessionsKeep
    <3> QED
      BY <1>0, <3>1, <3>2, HandlesStayUsed, OrdinaryStep
  <2>2. CASE due # {} /\ sess[s].flags = "BLOCKING"
    BY <1>3, <2>2, AbortOwnInv DEF Check
  <2>3. CASE due # {} /\ sess[s].flags # "BLOCKING"
    <3>1. due \subseteq Ids /\ th[t].pc = "check"
      BY <1>0, <1>3 DEF ThreadRecs, Check
    <3>2. s \in due
      <4> HIDE DEF due
      <4> QED BY <2>3, <3>1, FirstOfIsIn
    <3>3. s \in Visible(t) /\ ~Dispatching(t) /\ \A k \in th[t].todo : sess[k].home = t
      BY <3>1, <3>2 DEF Visible, Dispatching, IInv, OwnInv, TodoIsLocal
    <3>4. /\ th' = [th EXCEPT ![t].pc = "dispatch", ![t].todo = @ \ {s},
                              ![t].s = s, ![t].h = sess[s].handle,
                              ![t].how = sess[s].flags, ![t].back = "check"]
          /\ UNCHANGED <<sess, nextId, svcVars>>
      BY <1>3, <2>3 DEF Check
    <3> HIDE DEF s, due
    <3>5. /\ \A u \in Threads \ {t} : th'[u] = th[u]
          /\ th'[t].pc = "dispatch" /\ th'[t].s = s /\ th'[t].h = sess[s].handle
          /\ th'[t].todo \subseteq th[t].todo
      BY <1>0, <3>4 DEF ThreadRecs
    <3> QED
      BY <3>3, <3>4, <3>5, StartDispatch
  <2> QED
    BY <2>1, <2>2, <2>3
<1>4. CASE TakeOne(t)
  <2>1. ThreadsKeep
    BY <1>0, <1>4 DEF TakeOne, ThreadsKeep, Keeps, Dispatching, ThreadRecs
  <2>2. SessionsKeep /\ nextId' = nextId
    BY <1>4 DEF TakeOne, SessionsKeep
  <2>3. HandlesKeep
    BY <1>0, <1>4, HandlesStayUsed DEF TakeOne
  <2> QED
    BY <2>1, <2>2, <2>3, OrdinaryStep
<1>5. CASE DispatchReturn(t)
  <2>1. ThreadsKeep
    BY <1>0, <1>5
       DEF DispatchReturn, ThreadsKeep, Keeps, Leaves, Resumes, Dispatching, ThreadRecs
  <2>2. SessionsKeep /\ nextId' = nextId /\ UNCHANGED svcVars
    BY <1>5 DEF DispatchReturn, SessionsKeep
  <2> QED
    BY <1>0, <2>1, <2>2, HandlesStayUsed, OrdinaryStep
<1>6. CASE RunCallback(t)
  <2> DEFINE cb == th[t].cb
             u == SessionOf(t, cb)
  <2>1. CASE u = 0
    BY <1>6, <2>1, AbortOwnInv DEF RunCallback
  <2>2. CASE u # 0
    <3>1. ThreadsKeep
      BY <1>0, <1>6, <2>2 DEF RunCallback, ThreadsKeep, Keeps, Dispatching, ThreadRecs
    <3>2. cb \in Callbacks
      BY <1>0, <1>6 DEF RunCallback, TypeInv, InHand
    <3>3. u \in Ids
      BY <2>2, <3>2, SessionOfIsSeen DEF Visible
    <3>4. /\ sess' = CASE cb.kind = "waiter"  -> WaiterCallback(cb, u)
                       [] cb.kind = "grant"   -> GrantCallback(cb, u)
                       [] cb.kind = "open"    -> OpenCallback(cb, u)
                       [] cb.kind = "release" -> ReleaseCallback(cb, u)
          /\ UNCHANGED <<nextId, svcVars>>
      BY <1>6, <2>2 DEF RunCallback
    <3> HIDE DEF cb, u
    <3>5. SessionsKeep
      <4>1. PICK r \in Sessions : /\ sess' = [sess EXCEPT ![u] = r]
                                  /\ r.home = sess[u].home /\ r.handle = sess[u].handle
        BY <1>0, <3>2, <3>3, <3>4, CallbackType
      <4> QED
        BY <3>3, <4>1 DEF SessionsKeep, IInv, TypeInv, TypeOK
    <3> QED
      BY <1>0, <3>1, <3>4, <3>5, HandlesStayUsed, OrdinaryStep
  <2> QED
    BY <2>1, <2>2
<1> QED
  BY <1>1, <1>2, <1>3, <1>4, <1>5, <1>6 DEF Loop

LEMMA InitOwnInv == Init => OwnInv
<1> SUFFICES ASSUME Init PROVE OwnInv
  OBVIOUS
<1>1. \A s \in Ids : sess[s].home = "none" /\ sess[s].handle = 0
  BY DEF Init, NewSession
<1>2. \A t \in Threads : th[t].pc = "select"
  BY DEF Init, IdleThread
<1> QED
  BY <1>1, <1>2 DEF OwnInv, IdsAreFresh, HandlesAreOwned, SessionIsReachable,
     HandleIsOfSession, SharedHandleSharedSession, TodoIsLocal, Dispatching

LEMMA NextOwnInv == IInv /\ [Next]_vars => IInv'
<1> SUFFICES ASSUME IInv, [Next]_vars PROVE OwnInv'
  BY NextTypeInv DEF IInv
<1>0. TypeInv'
  BY NextTypeInv DEF IInv
<1>1. CASE UNCHANGED vars
  BY <1>1 DEF vars, svcVars, IInv, OwnInv, IdsAreFresh, HandlesAreOwned,
     SessionIsReachable, HandleIsOfSession, SharedHandleSharedSession, TodoIsLocal,
     Dispatching
<1>2. ASSUME NEW t \in Threads, Request(t) \/ Return(t) \/ Loop(t) PROVE OwnInv'
  BY <1>0, <1>2, RequestOwnInv, ReturnOwnInv, LoopOwnInv
<1>3. ASSUME NEW l \in LockIds, Service(l) PROVE OwnInv'
  <2>1. ThreadsKeep /\ SessionsKeep /\ nextId' = nextId
    BY <1>3 DEF Service, ThreadsKeep, Keeps, SessionsKeep
  <2>2. HandlesKeep
    BY <1>3, HandlesStayUsed DEF Service, IInv
  <2> QED
    BY <1>0, <2>1, <2>2, OrdinaryStep
<1> QED
  BY <1>1, <1>2, <1>3 DEF Next

LEMMA IInvHolds == Spec => []IInv
<1>1. Init => IInv
  BY InitTypeInv, InitOwnInv DEF IInv
<1> QED
  BY <1>1, NextOwnInv, PTL DEF Spec

\* Whatever clients send to whatever threads, two threads are never inside
\* saLckDispatch for the handle of a session on a thread's own, unlocked list
\* (lck_driver.c:53-60, 643-670, 1055-1079).
THEOREM OneDispatcher == Spec => []LocalHandleHasOneDispatcher
<1>1. IInv => LocalHandleHasOneDispatcher
  <2> SUFFICES ASSUME IInv, NEW t \in Threads, NEW u \in Threads, t # u,
                      Dispatching(t), Dispatching(u), th[t].h = th[u].h, th[t].h # 0
               PROVE  sess[th[t].s].home \notin Threads
    BY DEF LocalHandleHasOneDispatcher
  <2>1. th[t].s = th[u].s
    BY DEF IInv, OwnInv, SharedHandleSharedSession
  <2>2. sess[th[t].s].home \in {t, "global", "none"} \cap {u, "global", "none"}
    BY <2>1 DEF IInv, OwnInv, SessionIsReachable, Dispatching
  <2> QED
    BY <2>2, DriverAssumption
<1> QED
  BY <1>1, IInvHolds, PTL

-----------------------------------------------------------------------------
\* The main thread.

LEMMA NextMainNeverBlocks ==
    IInv /\ MainNeverBlocksInDispatch /\ [Next]_vars => MainNeverBlocksInDispatch'
<1> SUFFICES ASSUME IInv, MainNeverBlocksInDispatch, [Next]_vars
             PROVE  MainNeverBlocksInDispatch'
  OBVIOUS
<1> USE DEF MainNeverBlocksInDispatch
<1>0. MainThread \in Threads /\ th \in [Threads -> ThreadRecs]
  BY DriverAssumption DEF IInv, TypeInv, TypeOK
<1>1. CASE UNCHANGED th
  BY <1>1
<1>2. ASSUME NEW t \in Threads, Request(t) PROVE MainNeverBlocksInDispatch'
  <2>1. CASE Served(t)
    BY <1>0, <2>1 DEF Served, ThreadRecs
  <2>2. ASSUME NEW pc, NEW s, NEW l, Enter(t, pc, s, l) PROVE MainNeverBlocksInDispatch'
    BY <1>0, <2>2 DEF Enter, ThreadRecs
  <2>3. ASSUME NEW s \in Visible(t), Dispatch(t, s) PROVE MainNeverBlocksInDispatch'
    <3>1. PICK f \in DispatchFlags :
            IF f = "NONE" THEN Abort("dispatch none")
            ELSE IF f = "BLOCKING" /\ t = MainThread THEN Abort("blocking in main")
            ELSE th' = [th EXCEPT ![t].left = @ - 1, ![t].pc = "dispatch",
                                  ![t].s = s, ![t].h = sess[s].handle,
                                  ![t].how = f, ![t].back = "serve"]
      BY <2>3 DEF Dispatch
    <3>2. CASE th' = th
      BY <3>2
    <3>3. CASE f # "NONE" /\ ~(f = "BLOCKING" /\ t = MainThread)
      <4>1. th' = [th EXCEPT ![t].left = @ - 1, ![t].pc = "dispatch",
                             ![t].s = s, ![t].h = sess[s].handle,
                             ![t].how = f, ![t].back = "serve"]
        BY <3>1, <3>3
      <4>2. th'[MainThread].how = IF MainThread = t THEN f ELSE th[MainThread].how
        BY <1>0, <4>1 DEF ThreadRecs
      <4> QED
        BY <3>3, <4>2
    <3> QED
      BY <3>1, <3>2, <3>3 DEF Abort
  <2>4. CASE UnknownSession(t)
    BY <1>1, <2>4 DEF UnknownSession, Abort
  <2>5. ASSUME NEW s \in Visible(t), DeleteSession(t, s) \/ GetWaitCount(t, s)
        PROVE  MainNeverBlocksInDispatch'
    BY <1>1, <2>1, <2>5 DEF DeleteSession, GetWaitCount, Abort
  <2>6. ASSUME NEW s \in Visible(t),
               LockSync(t, s) \/ LockAsync(t, s) \/ UnlockSync(t, s)
        PROVE  MainNeverBlocksInDispatch'
    BY <2>1, <2>2, <2>6 DEF LockSync, LockAsync, UnlockSync
  <2> QED
    BY <1>2, <2>1, <2>3, <2>4, <2>5, <2>6
       DEF Request, CreateSession, GetStatus, Initialize, SelectionObjectGet, Finalize,
           ResourceOpen, ResourceOpenAsync, ResourceClose, UnlockAsync
<1>3. ASSUME NEW t \in Threads, Return(t) PROVE MainNeverBlocksInDispatch'
  <2>1. Resume(t)
    BY <1>3 DEF Return, LockSyncReturn, LockAsyncReturn, UnlockSyncReturn
  <2> QED
    BY <1>0, <2>1 DEF Resume, ThreadRecs
<1>4. ASSUME NEW t \in Threads, Loop(t) PROVE MainNeverBlocksInDispatch'
  <2>1. CASE Select(t)
    <3>1. PICK n, ready :
            th' = [th EXCEPT ![t].pc = "serve", ![t].mask = ready, ![t].left = n]
      BY <2>1 DEF Select
    <3>2. th'[MainThread].how = th[MainThread].how
      BY <1>0, <3>1 DEF ThreadRecs
    <3> QED
      BY <3>2
  <2>2. CASE EndServe(t)
    BY <1>0, <2>2 DEF EndServe, ThreadRecs
  <2>3. CASE Check(t)
    <3> DEFINE due == {s \in th[t].todo : sess[s].selobj \in th[t].mask}
               x   == FirstOf(due)
    <3>1. CASE th' = th
      BY <3>1
    <3>2. CASE th' = [th EXCEPT ![t] = IdleThread]
      BY <1>0, <3>2 DEF IdleThread
    <3>3. CASE due # {} /\ sess[x].flags # "BLOCKING"
      <4>1. th' = [th EXCEPT ![t].pc = "dispatch", ![t].todo = @ \ {x},
                             ![t].s = x, ![t].h = sess[x].handle,
                             ![t].how = sess[x].flags, ![t].back = "check"]
        BY <2>3, <3>3 DEF Check
      <4> HIDE DEF due, x
      <4>2. th'[MainThread].how = IF MainThread = t THEN sess[x].flags
                                  ELSE th[MainThread].how
        BY <1>0, <4>1 DEF ThreadRecs
      <4> QED
        BY <3>3, <4>2
    <3> QED
      BY <2>3, <3>1, <3>2, <3>3 DEF Check, Abort
  <2>4. CASE TakeOne(t)
    BY <1>0, <2>4 DEF TakeOne, ThreadRecs
  <2>5. CASE DispatchReturn(t)
    BY <1>0, <2>5 DEF DispatchReturn, ThreadRecs
  <2>6. CASE RunCallback(t)
    <3>1. CASE th' = th
      BY <3>1
    <3>2. CASE th' = [th EXCEPT ![t].pc = "dispatch", ![t].cb = NoCb,
                                ![t].how = IF @ = "ONE" THEN "NONE" ELSE @]
      <4>1. th'[MainThread].how \in {"NONE", th[MainThread].how}
        BY <1>0, <3>2 DEF ThreadRecs
      <4> QED
        BY <4>1
    <3> QED
      BY <2>6, <3>1, <3>2 DEF RunCallback, Abort
  <2> QED
    BY <1>4, <2>1, <2>2, <2>3, <2>4, <2>5, <2>6 DEF Loop
<1> QED
  BY <1>1, <1>2, <1>3, <1>4 DEF Next, Service, vars

\* Whatever clients ask for, also by initialising a session again between a
\* select() and the check of its result, the main thread stays in no dispatch
\* loop: it is either aborted or serves its clients (lck_driver.c:663-665,
\* 1072-1073).
THEOREM MainThreadServes == Spec => []MainNeverBlocksInDispatch
<1>1. Init => MainNeverBlocksInDispatch
  BY DriverAssumption DEF Init, IdleThread, MainNeverBlocksInDispatch
<1> QED
  BY <1>1, IInvHolds, NextMainNeverBlocks, PTL DEF Spec

-----------------------------------------------------------------------------
\* Thread-local sessions.

\* Only the thread whose list a session is on touches it, and takes a step.
Touches(t) == /\ th'[t] # th[t]
              /\ \A s \in Ids : sess'[s] # sess[s] => sess[s].home \in {t, "global", "none"}

LEMMA RequestTouches ==
    ASSUME IInv, NEW t \in Threads, Request(t), sess' # sess
    PROVE  Touches(t)
<1>0. sess \in [Ids -> Sessions] /\ th \in [Threads -> ThreadRecs] /\ nextId \in Nat
  BY DriverAssumption DEF IInv, TypeInv, TypeOK
<1>1. ASSUME Served(t) PROVE th'[t] # th[t]
  BY <1>0, <1>1 DEF Served, ThreadRecs
<1>2. ASSUME NEW s, NEW l, NEW op, Serving(t, op), Enter(t, "lockasync", s, l)
      PROVE th'[t] # th[t]
  <2>1. th'[t].pc = "lockasync"
    BY <1>0, <1>2 DEF Enter, ThreadRecs
  <2> QED
    BY <1>2, <2>1 DEF Serving
<1>3. CASE CreateSession(t)
  <2>1. nextId \in Ids /\ \E r : sess' = [sess EXCEPT ![nextId] = r]
    BY <1>3 DEF CreateSession
  <2>2. sess[nextId].home = "none"
    BY <1>0, <2>1 DEF IInv, OwnInv, IdsAreFresh
  <2> QED
    BY <1>0, <1>1, <1>3, <2>1, <2>2 DEF CreateSession, Touches
<1>4. ASSUME NEW s \in Visible(t), \E r : sess' = [sess EXCEPT ![s] = r], th'[t] # th[t]
      PROVE  Touches(t)
  BY <1>0, <1>4 DEF Touches, Visible
<1>5. ASSUME NEW s \in Visible(t),
             \/ DeleteSession(t, s) \/ Initialize(t, s) \/ SelectionObjectGet(t, s)
             \/ Finalize(t, s) \/ ResourceOpen(t, s) \/ ResourceOpenAsync(t, s)
             \/ UnlockAsync(t, s)
      PROVE  Touches(t)
  <2>1. Served(t)
    BY <1>5 DEF DeleteSession, Abort, Initialize, SelectionObjectGet, Finalize,
                ResourceOpen, ResourceOpenAsync, UnlockAsync
  <2>2. \E r : sess' = [sess EXCEPT ![s] = r]
    <3>1. CASE DeleteSession(t, s) \/ Initialize(t, s)
      BY <3>1 DEF DeleteSession, Abort, Initialize
    <3>2. CASE SelectionObjectGet(t, s) \/ Finalize(t, s)
      BY <3>2 DEF SelectionObjectGet, Finalize
    <3>3. CASE ResourceOpen(t, s) \/ ResourceOpenAsync(t, s) \/ UnlockAsync(t, s)
      BY <3>3 DEF ResourceOpen, ResourceOpenAsync, UnlockAsync
    <3> QED
      BY <1>5, <3>1, <3>2, <3>3
  <2> QED
    BY <1>1, <1>4, <2>1, <2>2
<1>6. ASSUME NEW s \in Visible(t), LockAsync(t, s) PROVE Touches(t)
  <2>1. \E r : sess' = [sess EXCEPT ![s] = r]
    BY <1>6 DEF LockAsync
  <2>2. th'[t] # th[t]
    BY <1>1, <1>2, <1>6 DEF LockAsync
  <2> QED
    BY <1>4, <2>1, <2>2
<1> QED
  BY <1>3, <1>5, <1>6
     DEF Request, UnknownSession, Abort, GetStatus, Dispatch, ResourceClose, LockSync,
         UnlockSync, GetWaitCount

LEMMA ReturnTouches ==
    ASSUME IInv, NEW t \in Threads, Return(t)
    PROVE  Touches(t)
<1>0. sess \in [Ids -> Sessions] /\ th \in [Threads -> ThreadRecs]
  BY DEF IInv, TypeInv, TypeOK
<1>1. th[t].pc \in {"lock", "lockasync", "unlock"} /\ Resume(t)
  BY DEF Return, LockSyncReturn, LockAsyncReturn, UnlockSyncReturn
<1>2. th'[t] # th[t]
  BY <1>0, <1>1 DEF Resume, ThreadRecs
<1>3. \A s \in Ids : s # th[t].s => sess'[s] = sess[s]
  BY <1>0 DEF Return, LockSyncReturn, LockAsyncReturn, UnlockSyncReturn
<1>4. sess[th[t].s].home \in {t, "global", "none"}
  BY <1>1 DEF IInv, OwnInv, SessionIsReachable
<1> QED
  BY <1>2, <1>3, <1>4 DEF Touches

LEMMA LoopTouches ==
    ASSUME IInv, NEW t \in Threads, Loop(t), sess' # sess
    PROVE  Touches(t)
<1>0. sess \in [Ids -> Sessions] /\ th \in [Threads -> ThreadRecs]
  BY DEF IInv, TypeInv, TypeOK
<1> DEFINE cb == th[t].cb
           u == SessionOf(t, cb)
<1>1. RunCallback(t) /\ u # 0
  BY DEF Loop, Select, EndServe, Check, TakeOne, DispatchReturn, RunCallback, Abort
<1>2. cb \in Callbacks
  BY <1>1 DEF RunCallback, IInv, TypeInv, InHand
<1>3. u \in Visible(t)
  BY <1>1, <1>2, SessionOfIsSeen
<1>4. th'[t] # th[t]
  BY <1>0, <1>1 DEF RunCallback, ThreadRecs
<1>5. sess' = CASE cb.kind = "waiter"  -> WaiterCallback(cb, u)
                [] cb.kind = "grant"   -> GrantCallback(cb, u)
                [] cb.kind = "open"    -> OpenCallback(cb, u)
                [] cb.kind = "release" -> ReleaseCallback(cb, u)
  BY <1>1 DEF RunCallback
<1> HIDE DEF cb, u
<1>6. \E r \in Sessions : sess' = [sess EXCEPT ![u] = r]
  BY <1>2, <1>3, <1>5, CallbackType DEF IInv, Visible
<1> QED
  BY <1>0, <1>3, <1>4, <1>6 DEF Touches, Visible

\* A thread-local list needs no lock: a session on it changes only in a step of
\* the thread it belongs to (lck_driver.c:53-97, 177-217).
THEOREM ListsNeedNoLock == Spec => LocalSessionsStayLocal
<1> DEFINE Local == \A s \in Ids : sess[s].home \in Threads /\ sess'[s] # sess[s]
                        => th'[sess[s].home] # th[sess[s].home]
<1>1. IInv /\ [Next]_vars => [Local]_vars
  <2> SUFFICES ASSUME IInv, Next PROVE Local
    OBVIOUS
  <2>1. "global" \notin Threads /\ "none" \notin Threads
    BY DriverAssumption
  <2>2. CASE sess' = sess
    BY <2>2
  <2>3. ASSUME NEW t \in Threads, Touches(t) PROVE Local
    BY <2>1, <2>3 DEF Touches
  <2>4. ASSUME NEW t \in Threads, Request(t) \/ Return(t) \/ Loop(t), sess' # sess
        PROVE  Touches(t)
    BY <2>4, RequestTouches, ReturnTouches, LoopTouches
  <2> QED
    BY <2>2, <2>3, <2>4 DEF Next, Service
<1> QED
  BY <1>1, IInvHolds, PTL DEF Spec, LocalSessionsStayLocal
=============================================================================
