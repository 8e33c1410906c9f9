---------------------------- MODULE ClmDriverProofs ----------------------------
(***************************************************************************)
(* Theorems about ClmDriver with clients that behave as the test cases do, *)
(* for any number of threads, sessions, handles and invocations: the       *)
(* daemon lives, and every callback of the membership library is counted   *)
(* on the session that asked for it, and on no other.                      *)
(*                                                                         *)
(* The inductive invariant IInv says why a lookup that sees nothing but an *)
(* invocation number, or for a track callback nothing at all, finds the    *)
(* right session: which sessions a thread sees (OneHome), whose handle is  *)
(* whose (HandlesAreOwned, NoHandleIsLost), what an invocation left behind *)
(* by an earlier request still says (InvocationTells), and who may track   *)
(* (FirstTracks, LongFirst).  The last part of the module is about steps:  *)
(* all but the deliveries are Quiet, and a delivery counts exactly once.   *)
(***************************************************************************)
EXTENDS ClmDriver, WellFoundedInduction, TLAPS

\* What the theorems assume of the clients: they keep to the conventions of the test
\* cases, and those of a daemon with several threads do not track (the clm_track
\* run shows what happens if they do).
TestCases == Careful /\ ~ThreadedTrack

\* Ids are given out in order; a deleted session leaves nothing behind.
IdsAreFresh ==
    \A s \in Ids : s >= nextId \/ sess[s].home = "none" => sess[s] = NewSession

\* Sessions are on the main thread's list, or if the daemon has others on the global
\* one.
HomeOfAll == IF SingleThreaded THEN MainThread ELSE "global"
OneHome == \A s \in Ids : sess[s].home \in {"none", HomeOfAll}

\* A long-lived session comes after none but long-lived ones that are initialised, and
\* a session is initialised with all callbacks, or with none if it is short-lived.
LongFirst ==
    \A s \in Ids :
        /\ sess[s].cbs \in {{}, Kinds}
        /\ \A u \in Ids : /\ u < s /\ sess[s].home # "none" /\ sess[s].long
                          /\ sess[u].home # "none"
                          => sess[u].long /\ sess[u].cbs = Kinds

\* A session's handle is open, and its own.
HandlesAreOwned ==
    \A s \in Ids : sess[s].handle # 0 =>
        /\ svc[sess[s].handle].st = "live"
        /\ \A u \in Ids : sess[u].handle = sess[s].handle => u = s
NoHandleIsLost ==
    \A h \in Handles : svc[h].st = "live" => \E s \in Ids : sess[s].handle = h

\* A session is watched only under its handle, by those who may dispatch it.
SelobjIsHandle ==
    \A s \in Ids : sess[s].selobj # 0 =>
        sess[s].selobj = sess[s].handle /\ sess[s].flags \in {"ONE", "ALL"}

\* An invocation tells whose answer it is: no two sessions have it, and a handle is owed
\* answers to its session's last request only.
InvocationTells ==
    \A s \in Ids :
        /\ \A u \in Ids : sess[s].inv # 0 /\ sess[u].inv = sess[s].inv => u = s
        /\ sess[s].handle # 0 =>
               \A i \in Invocations :
                   svc[sess[s].handle].owed[NodeCb(i)] > 0 => sess[s].inv = i

\* Nobody tracks but the first session there is, which is long-lived and in a daemon of
\* one thread.
FirstTracks ==
    \A s \in Ids :
        sess[s].handle # 0
        /\ (svc[sess[s].handle].changes \/ svc[sess[s].handle].owed[TrackCb] > 0) =>
           /\ SingleThreaded /\ sess[s].long /\ sess[s].cbs = Kinds
           /\ \A u \in Ids : u < s => sess[u].home = "none"

\* Whatever is owed can still be counted.
CountsAreBounded ==
    \A s \in Ids : sess[s].handle # 0 =>
        \A cb \in Callbacks :
            sess[s].count[cb.kind] + svc[sess[s].handle].owed[cb] <= MaxCount

\* A thread dispatches handles of sessions it sees.
InHand ==
    \A t \in Threads : th[t].h # 0 =>
        /\ t \in daemon
        /\ svc[th[t].h].st # "unused"
        /\ \A s \in Ids : sess[s].handle = th[t].h => s \in Visible(t)

IInv ==
    /\ TypeOK /\ IdsAreFresh /\ OneHome /\ LongFirst /\ HandlesAreOwned
    /\ NoHandleIsLost /\ SelobjIsHandle /\ InvocationTells /\ FirstTracks
    /\ CountsAreBounded /\ InHand /\ NoAbort

-----------------------------------------------------------------------------
\* What the type invariant says of each part of the state.
LEMMA Parts ==
    ASSUME TypeOK
    PROVE  /\ daemon \subseteq Threads /\ MainThread \in daemon
           /\ \A s \in Ids :
                 /\ sess[s] \in Sessions
                 /\ sess[s].home \in Threads \cup {"none", "global"}
                 /\ sess[s].long \in BOOLEAN
                 /\ sess[s].handle \in Handles \cup {0}
                 /\ sess[s].selobj \in Handles \cup {0}
                 /\ sess[s].flags \in Flags
                 /\ sess[s].cbs \in SUBSET Kinds
                 /\ sess[s].inv \in Invocations \cup {0}
                 /\ sess[s].count \in [Kinds -> 0 .. MaxCount]
           /\ \A h \in Handles :
                 /\ svc[h] \in HandleRecs
                 /\ svc[h].st \in {"unused", "live", "dead"}
                 /\ svc[h].cbs \in SUBSET Kinds
                 /\ svc[h].changes \in BOOLEAN
                 /\ svc[h].owed \in [Callbacks -> Nat]
           /\ \A t \in Threads : th[t] \in ThreadRecs
<1>1. daemon \subseteq Threads /\ MainThread \in daemon
  BY DriverAssumption DEF TypeOK, Threads
<1>2. \A s \in Ids : sess[s] \in Sessions
  BY DEF TypeOK
<1>3. \A h \in Handles : svc[h] \in HandleRecs
  BY DEF TypeOK, ServiceTypeOK
<1>4. \A t \in Threads : th[t] \in ThreadRecs
  BY DEF TypeOK
<1> QED BY <1>1, <1>2, <1>3, <1>4 DEF Sessions, HandleRecs

\* The choice of the first session of a list is the least of them.
LEMMA FirstOfIsLeast ==
    ASSUME NEW S \in SUBSET Ids, S # {}
    PROVE  FirstOf(S) \in S /\ \A u \in S : FirstOf(S) <= u
<1> DEFINE R == {p \in Nat \X Nat : p[1] < p[2]}
<1>1. R = OpToRel(<, Nat)
  BY DEF OpToRel
<1>2. IsWellFoundedOn(R, Nat)
  BY <1>1, NatLessThanWellFounded
<1>3. S \in SUBSET Nat
  BY DEF Ids
<1>4. PICK f \in S : \A g \in S : ~(<<g, f>> \in R)
  BY <1>2, <1>3, WFMin
<1>5. \A g \in S : ~(g < f)
  BY <1>3, <1>4
<1>6. \A g \in S : f <= g
  BY <1>3, <1>5
<1> QED BY <1>6 DEF FirstOf

\* A session that a lookup finds has been created and not deleted.
LEMMA VisibleIsPresent ==
    ASSUME IInv, NEW t \in daemon, NEW s \in Visible(t)
    PROVE  /\ s \in Ids /\ t \in Threads
           /\ sess[s].home # "none" /\ s < nextId
<1>1. s \in Ids /\ t \in Threads
  BY Parts DEF Visible, On, IInv
<1>2. sess[s].home # "none"
  BY <1>1, DriverAssumption DEF Visible, On
<1>3. s < nextId
  BY <1>1, <1>2 DEF IInv, IdsAreFresh, NewSession, Ids, TypeOK
<1> QED BY <1>1, <1>2, <1>3

\* A request that only answers its client keeps what threads have in hand.
LEMMA ServedStep ==
    ASSUME TypeOK, NEW t \in daemon, Serving(t), Served(t)
    PROVE  /\ th' \in [Threads -> ThreadRecs]
           /\ \A x \in Threads : th'[x].h = th[x].h
<1>1. t \in Threads /\ th[t] \in ThreadRecs /\ th[t].left \in 0 .. MaxServed
  BY Parts DEF ThreadRecs
<1>2. th[t].left - 1 \in 0 .. MaxServed
  BY <1>1, DriverAssumption DEF Serving
<1>3. [th[t] EXCEPT !.left = @ - 1] \in ThreadRecs
  BY <1>1, <1>2 DEF ThreadRecs
<1>4. th' = [th EXCEPT ![t] = [th[t] EXCEPT !.left = @ - 1]]
  BY DEF Served
<1>5. th' \in [Threads -> ThreadRecs]
  BY <1>3, <1>4 DEF TypeOK
<1>6. \A x \in Threads : th'[x].h = th[x].h
  BY <1>1, <1>4
<1> QED BY <1>5, <1>6

\* Steps that only move threads: what a thread takes in hand is a handle of a
\* session it sees.
LEMMA OrdinaryStep ==
    ASSUME IInv, UNCHANGED <<daemon, sess, nextId, ended, svc>>,
           th' \in [Threads -> ThreadRecs],
           \A x \in Threads :
              \/ th'[x].h \in {0, th[x].h}
              \/ x \in daemon /\ \E s \in Visible(x) : th'[x].h = sess[s].handle
    PROVE  IInv'
<1>1. TypeOK'
  BY DEF IInv, TypeOK, ServiceTypeOK
<1>2. IdsAreFresh'
  BY DEF IInv, IdsAreFresh, HomeOfAll, SingleThreaded
<1>3. OneHome'
  BY DEF IInv, OneHome, HomeOfAll, SingleThreaded
<1>4. LongFirst'
  BY DEF IInv, LongFirst, HomeOfAll, SingleThreaded
<1>5. HandlesAreOwned'
  BY DEF IInv, HandlesAreOwned, HomeOfAll, SingleThreaded
<1>6. NoHandleIsLost'
  BY DEF IInv, NoHandleIsLost, HomeOfAll, SingleThreaded
<1>7. SelobjIsHandle'
  BY DEF IInv, SelobjIsHandle, HomeOfAll, SingleThreaded
<1>8. InvocationTells'
  BY DEF IInv, InvocationTells, HomeOfAll, SingleThreaded
<1>9. FirstTracks'
  BY DEF IInv, FirstTracks, HomeOfAll, SingleThreaded
<1>10. CountsAreBounded'
  BY DEF IInv, CountsAreBounded, HomeOfAll, SingleThreaded
<1>11. InHand'
  <2> SUFFICES ASSUME NEW x \in Threads, th'[x].h # 0
               PROVE  /\ x \in daemon /\ svc[th'[x].h].st # "unused"
                      /\ \A s \in Ids : sess[s].handle = th'[x].h => s \in Visible(x)
    BY DEF InHand, Visible, On
  <2>1. CASE th'[x].h = th[x].h
    BY <2>1 DEF IInv, InHand
  <2>2. CASE x \in daemon /\ \E s \in Visible(x) : th'[x].h = sess[s].handle
    <3>1. PICK s \in Visible(x) : th'[x].h = sess[s].handle
      BY <2>2
    <3>2. s \in Ids
      BY <2>2, VisibleIsPresent
    <3> QED BY <2>2, <3>1, <3>2 DEF IInv, HandlesAreOwned
  <2> QED BY <2>1, <2>2
<1>12. NoAbort'
  BY DEF IInv, NoAbort
<1> QED BY <1>1, <1>2, <1>3, <1>4, <1>5, <1>6, <1>7, <1>8, <1>9, <1>10, <1>11,
           <1>12 DEF IInv

\* Updates of one session, one handle, one thread.
LEMMA SessionStep ==
    ASSUME TypeOK, NEW s \in Ids, NEW r \in Sessions, sess' = [sess EXCEPT ![s] = r]
    PROVE  /\ sess' \in [Ids -> Sessions]
           /\ sess'[s] = r
           /\ \A u \in Ids : u # s => sess'[u] = sess[u]
BY DEF TypeOK

LEMMA HandleStep ==
    ASSUME TypeOK, NEW h \in Handles, NEW r \in HandleRecs, svc' = [svc EXCEPT ![h] = r]
    PROVE  /\ svc' \in [Handles -> HandleRecs]
           /\ svc'[h] = r
           /\ \A g \in Handles : g # h => svc'[g] = svc[g]
BY DEF TypeOK, ServiceTypeOK

\* The two kinds of callbacks, told apart by what they carry.
LEMMA CallbackKinds ==
    /\ \A cb \in Callbacks : cb.kind \in Kinds
    /\ \A cb \in Callbacks : cb.kind = "node" => \E i \in Invocations : cb = NodeCb(i)
    /\ \A cb \in Callbacks : cb.kind = "track" => cb = TrackCb
    /\ TrackCb \in Callbacks /\ TrackCb.kind = "track"
    /\ \A i \in Invocations : /\ NodeCb(i) \in Callbacks /\ NodeCb(i).kind = "node"
                              /\ NodeCb(i).inv = i /\ NodeCb(i) # TrackCb
<1>1. TrackCb.kind = "track" /\ TrackCb \in Callbacks
  BY DEF Callbacks, TrackCb
<1>2. \A i \in Invocations :
         NodeCb(i).kind = "node" /\ NodeCb(i).inv = i /\ NodeCb(i) \in Callbacks
  BY DEF Callbacks, NodeCb
<1>3. \A cb \in Callbacks : cb = TrackCb \/ \E i \in Invocations : cb = NodeCb(i)
  BY DEF Callbacks
<1> QED BY <1>1, <1>2, <1>3 DEF Kinds

\* A new session holds, counts and waits for nothing.
LEMMA NewSessionIsEmpty ==
    /\ NewSession \in Sessions /\ NewSession.home = "none" /\ NewSession.handle = 0
    /\ NewSession.selobj = 0 /\ NewSession.cbs = {} /\ NewSession.inv = 0
    /\ \A k \in Kinds : NewSession.count[k] = 0
<1>1. Zero \in [Kinds -> 0 .. MaxCount]
  BY DriverAssumption DEF Zero
<1> QED BY <1>1 DEF Sessions, NewSession, Flags, Zero

\* The library comes to owe handle h callback cb n times.
Owes(h, cb, n) == svc' = [svc EXCEPT ![h].owed[cb] = n]

\* ... and nothing else about any handle changes.
LEMMA OwedStep ==
    ASSUME TypeOK, NEW h \in Handles, NEW cb \in Callbacks, NEW n \in Nat, Owes(h, cb, n)
    PROVE  /\ svc' \in [Handles -> HandleRecs]
           /\ \A g \in Handles : /\ svc'[g].st = svc[g].st
                                 /\ svc'[g].changes = svc[g].changes
                                 /\ g # h => svc'[g] = svc[g]
           /\ \A b \in Callbacks :
                 svc'[h].owed[b] = IF b = cb THEN n ELSE svc[h].owed[b]
<1> DEFINE o == [svc[h].owed EXCEPT ![cb] = n]
           r == [svc[h] EXCEPT !.owed = o]
<1>1. svc[h] \in HandleRecs /\ svc[h].owed \in [Callbacks -> Nat]
  BY Parts
<1>2. /\ o \in [Callbacks -> Nat]
      /\ \A b \in Callbacks : o[b] = IF b = cb THEN n ELSE svc[h].owed[b]
  BY <1>1
<1>3. svc' = [svc EXCEPT ![h] = r]
  BY DEF Owes
<1> HIDE DEF o
<1>4. r \in HandleRecs /\ r.st = svc[h].st /\ r.changes = svc[h].changes /\ r.owed = o
  BY <1>1, <1>2 DEF HandleRecs
<1> HIDE DEF r
<1> QED BY <1>2, <1>3, <1>4, HandleStep

\* Steps that leave alone who is where, holds what and registered what.
LEMMA LinksStep ==
    ASSUME IInv, UNCHANGED <<daemon, nextId>>,
           \A s \in Ids :
              /\ sess'[s].home = sess[s].home /\ sess'[s].long = sess[s].long
              /\ sess'[s].handle = sess[s].handle /\ sess'[s].selobj = sess[s].selobj
              /\ sess'[s].flags = sess[s].flags /\ sess'[s].cbs = sess[s].cbs,
           \A h \in Handles : svc'[h].st = svc[h].st,
           \A x \in Threads : th'[x].h = th[x].h
    PROVE  /\ OneHome' /\ LongFirst' /\ HandlesAreOwned' /\ NoHandleIsLost'
           /\ SelobjIsHandle' /\ InHand'
<1>1. \A s \in Ids : sess[s].handle \in Handles \cup {0}
  BY Parts DEF IInv
<1>2. OneHome'
  BY DEF IInv, OneHome, HomeOfAll, SingleThreaded
<1>3. LongFirst'
  BY DEF IInv, LongFirst
<1>4. HandlesAreOwned'
  <2> SUFFICES ASSUME NEW s \in Ids, sess'[s].handle # 0
               PROVE  /\ svc'[sess'[s].handle].st = "live"
                      /\ \A u \in Ids : sess'[u].handle = sess'[s].handle => u = s
    BY DEF HandlesAreOwned
  <2>1. svc'[sess'[s].handle].st = "live"
    BY <1>1 DEF IInv, HandlesAreOwned
  <2>2. \A u \in Ids : sess'[u].handle = sess'[s].handle => u = s
    BY DEF IInv, HandlesAreOwned
  <2> QED BY <2>1, <2>2
<1>5. NoHandleIsLost'
  BY DEF IInv, NoHandleIsLost
<1>6. SelobjIsHandle'
  BY DEF IInv, SelobjIsHandle
<1>7. InHand'
  <2> SUFFICES ASSUME NEW x \in Threads, th'[x].h # 0
               PROVE  /\ x \in daemon /\ svc'[th'[x].h].st # "unused"
                      /\ \A s \in Ids : sess'[s].handle = th'[x].h => s \in Visible(x)'
    BY DEF InHand
  <2>1. th[x].h \in Handles
    BY Parts DEF IInv, ThreadRecs
  <2>2. x \in daemon /\ svc'[th'[x].h].st # "unused"
    BY <2>1 DEF IInv, InHand
  <2>3. ASSUME NEW s \in Ids, sess'[s].handle = th'[x].h PROVE s \in Visible(x)'
    <3>1. s \in Visible(x)
      BY <2>3 DEF IInv, InHand
    <3> QED BY <2>3, <3>1 DEF Visible, On
  <2> QED BY <2>2, <2>3
<1> QED BY <1>2, <1>3, <1>4, <1>5, <1>6, <1>7

\* The requests, one by one.
LEMMA SelectionObjectGetStep ==
    ASSUME IInv, TestCases, NEW t \in daemon, NEW s \in Visible(t),
           SelectionObjectGet(t, s)
    PROVE  IInv'
<1>1. s \in Ids /\ t \in Threads /\ sess[s].home # "none" /\ s < nextId
  BY VisibleIsPresent
<1>2. /\ th' \in [Threads -> ThreadRecs]
      /\ \A x \in Threads : th'[x].h = th[x].h
  BY ServedStep DEF SelectionObjectGet, IInv
<1>3. UNCHANGED <<daemon, nextId, ended, svc>>
  BY DEF SelectionObjectGet
<1>4. CASE ~Live(sess[s].handle)
  <2>1. sess' = sess
    BY <1>4 DEF SelectionObjectGet
  <2> QED BY <1>2, <1>3, <2>1, OrdinaryStep
<1>5. CASE Live(sess[s].handle)
  <2> DEFINE r == [sess[s] EXCEPT !.selobj = sess[s].handle]
  <2>1. sess' = [sess EXCEPT ![s] = r]
    BY <1>5 DEF SelectionObjectGet
  <2>2. sess[s] \in Sessions
    BY <1>1, Parts DEF IInv
  <2>3. r \in Sessions
    BY <2>2 DEF Sessions
  <2>4. /\ r.home = sess[s].home /\ r.long = sess[s].long /\ r.handle = sess[s].handle
        /\ r.flags = sess[s].flags /\ r.cbs = sess[s].cbs /\ r.inv = sess[s].inv
        /\ r.count = sess[s].count /\ r.selobj = sess[s].handle
    BY <2>2
  <2>5. sess[s].flags \in {"ONE", "ALL"}
    BY DEF SelectionObjectGet, MayWatch, TestCases
  <2>6. /\ sess' \in [Ids -> Sessions] /\ sess'[s] = r
        /\ \A u \in Ids : u # s => sess'[u] = sess[u]
    BY <1>1, <2>1, <2>3, SessionStep DEF IInv
  <2> HIDE DEF r
  <2>7. TypeOK' /\ NoAbort'
    BY <1>2, <1>3, <2>6 DEF IInv, TypeOK, ServiceTypeOK, NoAbort
  <2>8. IdsAreFresh'
    BY <1>1, <1>3, <2>4, <2>6 DEF IInv, IdsAreFresh, TypeOK, Ids
  <2>9. OneHome' /\ LongFirst'
    BY <1>3, <2>4, <2>6 DEF IInv, OneHome, LongFirst, HomeOfAll, SingleThreaded
  <2>10. HandlesAreOwned' /\ NoHandleIsLost'
    BY <1>3, <2>4, <2>6 DEF IInv, HandlesAreOwned, NoHandleIsLost
  <2>11. SelobjIsHandle'
    BY <2>4, <2>5, <2>6 DEF IInv, SelobjIsHandle
  <2>12. InvocationTells'
    BY <1>3, <2>4, <2>6 DEF IInv, InvocationTells
  <2>13. FirstTracks'
    BY <1>3, <2>4, <2>6 DEF IInv, FirstTracks, SingleThreaded
  <2>14. CountsAreBounded'
    BY <1>3, <2>4, <2>6 DEF IInv, CountsAreBounded
  <2>15. InHand'
    BY <1>2, <1>3, <2>4, <2>6 DEF IInv, InHand, Visible, On
  <2> QED BY <2>7, <2>8, <2>9, <2>10, <2>11, <2>12, <2>13, <2>14, <2>15 DEF IInv
<1> QED BY <1>4, <1>5

LEMMA ResetCountStep ==
    ASSUME IInv, TestCases, NEW t \in daemon, NEW s \in Visible(t), ResetCount(t, s)
    PROVE  IInv'
<1>1. s \in Ids /\ t \in Threads /\ sess[s].home # "none" /\ s < nextId
  BY VisibleIsPresent
<1>2. /\ th' \in [Threads -> ThreadRecs]
      /\ \A x \in Threads : th'[x].h = th[x].h
  BY ServedStep DEF ResetCount, IInv
<1>3. UNCHANGED <<daemon, nextId, ended, svc>>
  BY DEF ResetCount
<1>4. PICK k \in Kinds : sess' = [sess EXCEPT ![s].count[k] = 0]
  BY DEF ResetCount
<1> DEFINE c == [sess[s].count EXCEPT ![k] = 0]
           r == [sess[s] EXCEPT !.count = c]
<1>5. sess[s] \in Sessions /\ sess[s].count \in [Kinds -> 0 .. MaxCount]
  BY <1>1, Parts DEF IInv
<1>6. /\ c \in [Kinds -> 0 .. MaxCount]
      /\ \A j \in Kinds : c[j] <= sess[s].count[j]
  BY <1>5, DriverAssumption
<1>7. sess' = [sess EXCEPT ![s] = r]
  BY <1>4
<1> HIDE DEF c
<1>8. r \in Sessions
  BY <1>5, <1>6 DEF Sessions
<1>9. /\ r.home = sess[s].home /\ r.long = sess[s].long /\ r.handle = sess[s].handle
      /\ r.flags = sess[s].flags /\ r.cbs = sess[s].cbs /\ r.inv = sess[s].inv
      /\ r.selobj = sess[s].selobj /\ r.count = c
  BY <1>5
<1>10. /\ sess' \in [Ids -> Sessions] /\ sess'[s] = r
       /\ \A u \in Ids : u # s => sess'[u] = sess[u]
  BY <1>1, <1>7, <1>8, SessionStep DEF IInv
<1> HIDE DEF r
<1>11. TypeOK' /\ NoAbort'
  BY <1>2, <1>3, <1>10 DEF IInv, TypeOK, ServiceTypeOK, NoAbort
<1>12. IdsAreFresh'
  BY <1>1, <1>3, <1>9, <1>10 DEF IInv, IdsAreFresh, TypeOK, Ids
<1>13. /\ OneHome' /\ LongFirst' /\ HandlesAreOwned' /\ NoHandleIsLost'
       /\ SelobjIsHandle' /\ InHand'
  BY <1>2, <1>3, <1>9, <1>10, LinksStep
<1>14. InvocationTells'
  BY <1>3, <1>9, <1>10 DEF IInv, InvocationTells
<1>15. FirstTracks'
  BY <1>3, <1>9, <1>10 DEF IInv, FirstTracks, SingleThreaded
<1>16. CountsAreBounded'
  <2> SUFFICES ASSUME NEW u \in Ids, sess'[u].handle # 0, NEW cb \in Callbacks
               PROVE  sess'[u].count[cb.kind] + svc[sess'[u].handle].owed[cb] <= MaxCount
    BY <1>3 DEF CountsAreBounded
  <2>1. sess'[u].handle = sess[u].handle /\ sess[u].handle \in Handles
    BY <1>9, <1>10, Parts DEF IInv
  <2>2. svc[sess[u].handle].owed[cb] \in Nat /\ cb.kind \in Kinds
    BY <2>1, Parts, CallbackKinds DEF IInv
  <2>3. /\ sess'[u].count[cb.kind] <= sess[u].count[cb.kind]
        /\ sess'[u].count[cb.kind] \in Nat /\ sess[u].count[cb.kind] \in Nat
    BY <1>5, <1>6, <1>9, <1>10, <2>2, Parts DEF IInv
  <2>4. sess[u].count[cb.kind] + svc[sess[u].handle].owed[cb] <= MaxCount
    BY <2>1 DEF IInv, CountsAreBounded
  <2> QED BY <2>1, <2>2, <2>3, <2>4, DriverAssumption
<1> QED BY <1>11, <1>12, <1>13, <1>14, <1>15, <1>16 DEF IInv

LEMMA CreateSessionStep ==
    ASSUME IInv, TestCases, NEW t \in daemon, CreateSession(t)
    PROVE  IInv'
<1>1. t \in Threads /\ nextId \in Ids
  BY Parts DEF IInv, CreateSession
<1>2. /\ th' \in [Threads -> ThreadRecs]
      /\ \A x \in Threads : th'[x].h = th[x].h
  BY ServedStep DEF CreateSession, IInv
<1>3. UNCHANGED <<daemon, ended, svc>> /\ nextId' = nextId + 1
  BY DEF CreateSession
<1>4. PICK where \in {"global", t}, long \in BOOLEAN :
         /\ MayCreate(t, where, long)
         /\ sess' = [sess EXCEPT ![nextId] = [NewSession EXCEPT !.home = where,
                                                               !.long = long]]
  BY DEF CreateSession
<1> DEFINE r == [NewSession EXCEPT !.home = where, !.long = long]
<1>5. where = HomeOfAll /\ where # "none" /\ where \in Threads \cup {"global"}
  BY <1>1, <1>4, DriverAssumption DEF MayCreate, TestCases, HomeOfAll
<1>6. /\ r \in Sessions /\ r.home = where /\ r.long = long /\ r.handle = 0
      /\ r.selobj = 0 /\ r.cbs = {} /\ r.inv = 0
  <2>1. NewSession \in Sessions
    BY NewSessionIsEmpty
  <2> QED BY <1>5, <2>1, NewSessionIsEmpty DEF Sessions
<1>7. /\ sess[nextId] = NewSession
      /\ \A u \in Ids : u >= nextId => sess[u] = NewSession
      /\ NewSession.home = "none" /\ NewSession.handle = 0
  BY <1>1 DEF IInv, IdsAreFresh, NewSession, TypeOK, Ids
<1>8. sess' = [sess EXCEPT ![nextId] = r]
  BY <1>4
<1>9. /\ sess' \in [Ids -> Sessions] /\ sess'[nextId] = r
      /\ \A u \in Ids : u # nextId => sess'[u] = sess[u]
  BY <1>1, <1>6, <1>8, SessionStep DEF IInv
<1> HIDE DEF r
<1>10. TypeOK' /\ NoAbort'
  <2>1. nextId' \in 1 .. MaxSessions + 1
    BY <1>1, <1>3, DriverAssumption DEF Ids
  <2> QED BY <1>2, <1>3, <1>9, <2>1 DEF IInv, TypeOK, ServiceTypeOK, NoAbort
<1>11. IdsAreFresh'
  BY <1>1, <1>3, <1>5, <1>6, <1>9 DEF IInv, IdsAreFresh, TypeOK, Ids
<1>12. OneHome'
  BY <1>3, <1>5, <1>6, <1>9 DEF IInv, OneHome, HomeOfAll, SingleThreaded
<1>13. LongFirst'
  <2>1. ASSUME NEW u \in Ids, long, u # nextId, sess[u].home # "none"
        PROVE  sess[u].long /\ sess[u].cbs = Kinds
    BY <1>4, <2>1 DEF MayCreate, TestCases, StartedUp, IInv, LongFirst
  <2>2. \A s \in Ids : sess'[s].cbs \in {{}, Kinds}
    BY <1>6, <1>9 DEF IInv, LongFirst
  <2>3. ASSUME NEW s \in Ids, NEW u \in Ids, u < s, sess'[s].home # "none",
               sess'[s].long, sess'[u].home # "none"
        PROVE  sess'[u].long /\ sess'[u].cbs = Kinds
    <3>1. s <= nextId
      BY <1>1, <1>7, <1>9, <2>3 DEF Ids
    <3>2. u # nextId
      BY <1>1, <2>3, <3>1 DEF Ids
    <3>3. CASE s = nextId
      BY <1>6, <1>9, <2>1, <2>3, <3>2, <3>3
    <3>4. CASE s # nextId
      BY <1>9, <2>3, <3>2, <3>4 DEF IInv, LongFirst
    <3> QED BY <3>3, <3>4
  <2> QED BY <2>2, <2>3 DEF LongFirst
<1>14. HandlesAreOwned'
  BY <1>3, <1>6, <1>9 DEF IInv, HandlesAreOwned
<1>15. NoHandleIsLost'
  BY <1>3, <1>7, <1>9 DEF IInv, NoHandleIsLost, Handles
<1>16. SelobjIsHandle'
  BY <1>6, <1>9 DEF IInv, SelobjIsHandle
<1>17. InvocationTells'
  BY <1>3, <1>6, <1>9 DEF IInv, InvocationTells
<1>18. FirstTracks'
  <2> SUFFICES ASSUME NEW s \in Ids, sess'[s].handle # 0,
                      svc[sess'[s].handle].changes \/ svc[sess'[s].handle].owed[TrackCb] > 0
               PROVE  /\ SingleThreaded' /\ sess'[s].long /\ sess'[s].cbs = Kinds
                      /\ \A u \in Ids : u < s => sess'[u].home = "none"
    BY <1>3 DEF FirstTracks
  <2>1. s # nextId /\ sess'[s] = sess[s]
    BY <1>6, <1>9
  <2>2. s < nextId
    BY <1>1, <1>7, <2>1 DEF Ids
  <2> QED BY <1>1, <1>3, <1>9, <2>1, <2>2 DEF IInv, FirstTracks, SingleThreaded, Ids
<1>19. CountsAreBounded'
  BY <1>3, <1>6, <1>9 DEF IInv, CountsAreBounded
<1>20. InHand'
  <2>1. \A x \in Threads : th[x].h \in Handles \cup {0}
    BY Parts DEF IInv, ThreadRecs
  <2> QED BY <1>2, <1>3, <1>6, <1>9, <2>1 DEF IInv, InHand, Visible, On
<1> QED BY <1>10, <1>11, <1>12, <1>13, <1>14, <1>15, <1>16, <1>17, <1>18, <1>19,
           <1>20 DEF IInv

LEMMA DeleteSessionStep ==
    ASSUME IInv, TestCases, NEW t \in daemon, NEW s \in Ids, DeleteSession(t, s)
    PROVE  IInv'
<1>1. s \in Visible(t) /\ sess[s].handle = 0
  BY DEF DeleteSession, TestCases
<1>2. /\ sess' = [sess EXCEPT ![s] = NewSession] /\ Served(t) /\ Serving(t)
      /\ UNCHANGED <<daemon, nextId, ended, svc>>
  BY <1>1 DEF DeleteSession
<1>3. /\ th' \in [Threads -> ThreadRecs]
      /\ \A x \in Threads : th'[x].h = th[x].h
  BY <1>2, ServedStep DEF IInv
<1>4. /\ NewSession \in Sessions /\ NewSession.home = "none" /\ NewSession.handle = 0
      /\ NewSession.selobj = 0 /\ NewSession.cbs = {} /\ NewSession.inv = 0
  BY NewSessionIsEmpty
<1>5. /\ sess' \in [Ids -> Sessions] /\ sess'[s] = NewSession
      /\ \A u \in Ids : u # s => sess'[u] = sess[u]
  BY <1>2, <1>4, SessionStep DEF IInv
<1>6. TypeOK' /\ NoAbort'
  BY <1>2, <1>3, <1>5 DEF IInv, TypeOK, ServiceTypeOK, NoAbort
<1>7. IdsAreFresh'
  BY <1>2, <1>5 DEF IInv, IdsAreFresh
<1>8. OneHome'
  BY <1>2, <1>4, <1>5 DEF IInv, OneHome, HomeOfAll, SingleThreaded
<1>9. LongFirst'
  BY <1>4, <1>5 DEF IInv, LongFirst
<1>10. HandlesAreOwned'
  BY <1>2, <1>4, <1>5 DEF IInv, HandlesAreOwned
<1>11. NoHandleIsLost'
  BY <1>1, <1>2, <1>5 DEF IInv, NoHandleIsLost, Handles
<1>12. SelobjIsHandle'
  BY <1>4, <1>5 DEF IInv, SelobjIsHandle
<1>13. InvocationTells'
  BY <1>2, <1>4, <1>5 DEF IInv, InvocationTells
<1>14. FirstTracks'
  BY <1>2, <1>4, <1>5 DEF IInv, FirstTracks, SingleThreaded
<1>15. CountsAreBounded'
  BY <1>2, <1>4, <1>5 DEF IInv, CountsAreBounded
<1>16. InHand'
  <2>1. \A x \in Threads : th[x].h \in Handles \cup {0}
    BY Parts DEF IInv, ThreadRecs
  <2> QED BY <1>2, <1>3, <1>4, <1>5, <2>1 DEF IInv, InHand, Visible, On
<1> QED BY <1>6, <1>7, <1>8, <1>9, <1>10, <1>11, <1>12, <1>13, <1>14, <1>15, <1>16
           DEF IInv

LEMMA InitializeStep ==
    ASSUME IInv, TestCases, NEW t \in daemon, NEW s \in Visible(t), Initialize(t, s)
    PROVE  IInv'
<1>1. s \in Ids /\ t \in Threads /\ sess[s].home # "none" /\ s < nextId
  BY VisibleIsPresent
<1>2. /\ th' \in [Threads -> ThreadRecs]
      /\ \A x \in Threads : th'[x].h = th[x].h
  BY ServedStep DEF Initialize, IInv
<1>3. UNCHANGED <<daemon, nextId, ended>>
  BY DEF Initialize
<1>4. PICK f \in DispatchFlags, cbs \in SUBSET Kinds :
         /\ MayInitialize(s, f, cbs)
         /\ \/ \E h \in Handles :
                 /\ saClmInitialize(h, cbs)
                 /\ sess' = [sess EXCEPT ![s].handle = h, ![s].flags = f, ![s].cbs = cbs]
            \/ Refused /\ sess' = [sess EXCEPT ![s].flags = f, ![s].cbs = cbs]
  BY DEF Initialize
<1>5. /\ sess[s].handle = 0 /\ sess[s].selobj = 0
      /\ cbs \in {{}, Kinds} /\ (sess[s].long => cbs = Kinds)
  BY <1>1, <1>4 DEF MayInitialize, TestCases, IInv, SelobjIsHandle
<1>6. sess[s] \in Sessions /\ sess[s].count \in [Kinds -> 0 .. MaxCount] /\ f \in Flags
  BY <1>1, Parts, DriverAssumption DEF IInv, Flags
<1>7. \A x \in Threads : th[x].h \in Handles \cup {0}
  BY Parts DEF IInv, ThreadRecs
<1>8. CASE Refused /\ sess' = [sess EXCEPT ![s].flags = f, ![s].cbs = cbs]
  <2> DEFINE r == [sess[s] EXCEPT !.flags = f, !.cbs = cbs]
  <2>1. /\ r \in Sessions /\ r.home = sess[s].home /\ r.long = sess[s].long
        /\ r.handle = 0 /\ r.selobj = 0 /\ r.cbs = cbs /\ r.inv = sess[s].inv
    BY <1>5, <1>6 DEF Sessions
  <2>2. sess' = [sess EXCEPT ![s] = r]
    BY <1>8
  <2>3. /\ sess' \in [Ids -> Sessions] /\ sess'[s] = r
        /\ \A u \in Ids : u # s => sess'[u] = sess[u]
    BY <1>1, <2>1, <2>2, SessionStep DEF IInv
  <2>4. svc' = svc
    BY <1>8 DEF Refused
  <2> HIDE DEF r
  <2>5. TypeOK' /\ NoAbort'
    BY <1>2, <1>3, <2>3, <2>4 DEF IInv, TypeOK, ServiceTypeOK, NoAbort
  <2>6. IdsAreFresh'
    BY <1>1, <1>3, <2>1, <2>3 DEF IInv, IdsAreFresh, TypeOK, Ids
  <2>7. OneHome'
    BY <1>3, <2>1, <2>3 DEF IInv, OneHome, HomeOfAll, SingleThreaded
  <2>8. LongFirst'
    BY <1>5, <2>1, <2>3 DEF IInv, LongFirst
  <2>9. HandlesAreOwned'
    BY <2>1, <2>3, <2>4 DEF IInv, HandlesAreOwned
  <2>10. NoHandleIsLost'
    BY <1>5, <2>3, <2>4 DEF IInv, NoHandleIsLost, Handles
  <2>11. SelobjIsHandle'
    BY <2>1, <2>3 DEF IInv, SelobjIsHandle
  <2>12. InvocationTells'
    BY <2>1, <2>3, <2>4 DEF IInv, InvocationTells
  <2>13. FirstTracks'
    BY <1>3, <2>1, <2>3, <2>4 DEF IInv, FirstTracks, SingleThreaded
  <2>14. CountsAreBounded'
    BY <2>1, <2>3, <2>4 DEF IInv, CountsAreBounded
  <2>15. InHand'
    BY <1>2, <1>3, <1>7, <2>1, <2>3, <2>4 DEF IInv, InHand, Visible, On
  <2> QED BY <2>5, <2>6, <2>7, <2>8, <2>9, <2>10, <2>11, <2>12, <2>13, <2>14, <2>15
             DEF IInv
<1>9. ASSUME NEW h \in Handles, saClmInitialize(h, cbs),
             sess' = [sess EXCEPT ![s].handle = h, ![s].flags = f, ![s].cbs = cbs]
      PROVE  IInv'
  <2> DEFINE r == [sess[s] EXCEPT !.handle = h, !.flags = f, !.cbs = cbs]
             n == [UnusedHandle EXCEPT !.st = "live", !.cbs = cbs]
  <2>1. /\ r \in Sessions /\ r.home = sess[s].home /\ r.long = sess[s].long
        /\ r.handle = h /\ r.selobj = 0 /\ r.cbs = cbs /\ r.inv = sess[s].inv
        /\ r.count = sess[s].count
    BY <1>5, <1>6 DEF Sessions
  <2>2. sess' = [sess EXCEPT ![s] = r]
    BY <1>9
  <2>3. /\ sess' \in [Ids -> Sessions] /\ sess'[s] = r
        /\ \A u \in Ids : u # s => sess'[u] = sess[u]
    BY <1>1, <2>1, <2>2, SessionStep DEF IInv
  <2>4. /\ n \in HandleRecs /\ n.st = "live" /\ ~n.changes
        /\ \A cb \in Callbacks : n.owed[cb] = 0
    BY DEF HandleRecs, UnusedHandle
  <2>5. svc[h].st = "unused" /\ svc' = [svc EXCEPT ![h] = n]
    BY <1>9 DEF saClmInitialize
  <2>6. /\ svc' \in [Handles -> HandleRecs] /\ svc'[h] = n
        /\ \A g \in Handles : g # h => svc'[g] = svc[g]
    BY <2>4, <2>5, HandleStep DEF IInv
  <2>7. \A u \in Ids : sess[u].handle \in Handles \cup {0} /\ sess[u].handle # h
    BY <2>5, Parts DEF IInv, HandlesAreOwned, Handles
  <2> HIDE DEF r, n
  <2>8. TypeOK' /\ NoAbort'
    BY <1>2, <1>3, <2>3, <2>6 DEF IInv, TypeOK, ServiceTypeOK, NoAbort
  <2>9. IdsAreFresh'
    BY <1>1, <1>3, <2>1, <2>3 DEF IInv, IdsAreFresh, TypeOK, Ids
  <2>10. OneHome'
    BY <1>3, <2>1, <2>3 DEF IInv, OneHome, HomeOfAll, SingleThreaded
  <2>11. LongFirst'
    BY <1>5, <2>1, <2>3 DEF IInv, LongFirst
  <2>12. HandlesAreOwned'
    BY <2>1, <2>3, <2>4, <2>6, <2>7 DEF IInv, HandlesAreOwned
  <2>13. NoHandleIsLost'
    BY <1>1, <1>5, <2>1, <2>3, <2>6 DEF IInv, NoHandleIsLost, Handles
  <2>14. SelobjIsHandle'
    BY <2>1, <2>3 DEF IInv, SelobjIsHandle
  <2>15. InvocationTells'
    <3>1. \A u, v \in Ids : sess'[u].inv # 0 /\ sess'[v].inv = sess'[u].inv => v = u
      BY <2>1, <2>3 DEF IInv, InvocationTells
    <3>2. ASSUME NEW u \in Ids, sess'[u].handle # 0, NEW i \in Invocations,
                 svc'[sess'[u].handle].owed[NodeCb(i)] > 0
          PROVE  sess'[u].inv = i
      <4>1. u # s
        BY <2>1, <2>3, <2>4, <2>6, <3>2, CallbackKinds
      <4> QED BY <2>3, <2>6, <2>7, <3>2, <4>1 DEF IInv, InvocationTells
    <3> QED BY <3>1, <3>2 DEF InvocationTells
  <2>16. FirstTracks'
    <3> SUFFICES ASSUME NEW u \in Ids, sess'[u].handle # 0,
                        svc'[sess'[u].handle].changes
                          \/ svc'[sess'[u].handle].owed[TrackCb] > 0
                 PROVE  /\ SingleThreaded' /\ sess'[u].long /\ sess'[u].cbs = Kinds
                        /\ \A v \in Ids : v < u => sess'[v].home = "none"
      BY DEF FirstTracks
    <3>1. u # s
      BY <2>1, <2>3, <2>4, <2>6, CallbackKinds
    <3>2. \A v \in Ids : sess'[v].home = sess[v].home
      BY <2>1, <2>3
    <3> QED BY <1>3, <2>3, <2>6, <2>7, <3>1, <3>2 DEF IInv, FirstTracks, SingleThreaded
  <2>17. CountsAreBounded'
    <3> SUFFICES ASSUME NEW u \in Ids, sess'[u].handle # 0, NEW cb \in Callbacks
                 PROVE  sess'[u].count[cb.kind] + svc'[sess'[u].handle].owed[cb] <= MaxCount
      BY DEF CountsAreBounded
    <3>1. CASE u = s
      BY <1>6, <2>1, <2>3, <2>4, <2>6, <3>1, CallbackKinds, DriverAssumption
    <3>2. CASE u # s
      BY <2>3, <2>6, <2>7, <3>2 DEF IInv, CountsAreBounded
    <3> QED BY <3>1, <3>2
  <2>18. InHand'
    <3> SUFFICES ASSUME NEW x \in Threads, th[x].h # 0
                 PROVE  /\ x \in daemon' /\ svc'[th[x].h].st # "unused"
                        /\ \A u \in Ids : sess'[u].handle = th[x].h => u \in Visible(x)'
      BY <1>2 DEF InHand
    <3>1. th[x].h # h
      BY <2>5 DEF IInv, InHand
    <3> QED BY <1>3, <1>7, <2>1, <2>3, <2>6, <3>1 DEF IInv, InHand, Visible, On
  <2> QED BY <2>8, <2>9, <2>10, <2>11, <2>12, <2>13, <2>14, <2>15, <2>16, <2>17,
             <2>18 DEF IInv
<1> QED BY <1>4, <1>8, <1>9

LEMMA FinalizeStep ==
    ASSUME IInv, TestCases, NEW t \in daemon, NEW s \in Visible(t), Finalize(t, s)
    PROVE  IInv'
<1>1. s \in Ids /\ t \in Threads /\ sess[s].home # "none" /\ s < nextId
  BY VisibleIsPresent
<1>2. /\ th' \in [Threads -> ThreadRecs]
      /\ \A x \in Threads : th'[x].h = th[x].h
  BY ServedStep DEF Finalize, IInv
<1>3. UNCHANGED <<daemon, nextId, ended>>
  BY DEF Finalize
<1> DEFINE r == [sess[s] EXCEPT !.handle = 0, !.selobj = 0]
<1>4. sess[s] \in Sessions /\ sess[s].handle \in Handles \cup {0}
  BY <1>1, Parts DEF IInv
<1>5. /\ r \in Sessions /\ r.home = sess[s].home /\ r.long = sess[s].long
      /\ r.handle = 0 /\ r.selobj = 0 /\ r.cbs = sess[s].cbs /\ r.inv = sess[s].inv
  BY <1>4 DEF Sessions
<1>6. sess' = [sess EXCEPT ![s] = r]
  BY DEF Finalize
<1>7. /\ sess' \in [Ids -> Sessions] /\ sess'[s] = r
      /\ \A u \in Ids : u # s => sess'[u] = sess[u]
  BY <1>1, <1>5, <1>6, SessionStep DEF IInv
<1> HIDE DEF r
<1>8. /\ svc' \in [Handles -> HandleRecs]
      /\ \A g \in Handles : g # sess[s].handle => svc'[g] = svc[g]
      /\ sess[s].handle # 0 => svc'[sess[s].handle].st = "dead"
  <2>1. CASE saClmFinalize(sess[s].handle)
    <3> DEFINE n == [UnusedHandle EXCEPT !.st = "dead"]
    <3>1. n \in HandleRecs /\ n.st = "dead"
      BY DEF HandleRecs, UnusedHandle
    <3>2. sess[s].handle \in Handles /\ svc' = [svc EXCEPT ![sess[s].handle] = n]
      BY <2>1 DEF saClmFinalize, Live
    <3> HIDE DEF n
    <3> QED BY <3>1, <3>2, HandleStep DEF IInv
  <2>2. CASE ~Live(sess[s].handle) /\ Refused
    <3>1. sess[s].handle = 0
      BY <1>1, <1>4, <2>2 DEF Live, IInv, HandlesAreOwned
    <3> QED BY <2>2, <3>1 DEF Refused, IInv, TypeOK, ServiceTypeOK
  <2> QED BY <2>1, <2>2 DEF Finalize, TestCases
<1>9. \A u \in Ids : sess'[u].handle # 0 =>
         /\ u # s /\ sess'[u] = sess[u] /\ sess[u].handle # sess[s].handle
         /\ svc'[sess[u].handle] = svc[sess[u].handle]
  <2> SUFFICES ASSUME NEW u \in Ids, sess'[u].handle # 0
               PROVE  /\ u # s /\ sess'[u] = sess[u] /\ sess[u].handle # sess[s].handle
                      /\ svc'[sess[u].handle] = svc[sess[u].handle]
    OBVIOUS
  <2>1. u # s /\ sess'[u] = sess[u]
    BY <1>5, <1>7
  <2>2. sess[u].handle # sess[s].handle
    BY <1>1, <2>1 DEF IInv, HandlesAreOwned
  <2>3. sess[u].handle \in Handles
    BY <2>1, Parts DEF IInv
  <2> QED BY <1>8, <2>1, <2>2, <2>3
<1>10. TypeOK' /\ NoAbort'
  BY <1>2, <1>3, <1>7, <1>8 DEF IInv, TypeOK, ServiceTypeOK, NoAbort
<1>11. IdsAreFresh'
  BY <1>1, <1>3, <1>5, <1>7 DEF IInv, IdsAreFresh, TypeOK, Ids
<1>12. OneHome' /\ LongFirst'
  BY <1>3, <1>5, <1>7 DEF IInv, OneHome, LongFirst, HomeOfAll, SingleThreaded
<1>13. HandlesAreOwned'
  BY <1>9 DEF IInv, HandlesAreOwned
<1>14. NoHandleIsLost'
  <2> SUFFICES ASSUME NEW h \in Handles, svc'[h].st = "live"
               PROVE  \E u \in Ids : sess'[u].handle = h
    BY DEF NoHandleIsLost
  <2>1. h # sess[s].handle
    BY <1>8 DEF Handles
  <2>2. PICK u \in Ids : sess[u].handle = h
    BY <1>8, <2>1 DEF IInv, NoHandleIsLost
  <2> QED BY <1>7, <2>1, <2>2
<1>15. SelobjIsHandle'
  BY <1>5, <1>7 DEF IInv, SelobjIsHandle
<1>16. InvocationTells'
  BY <1>5, <1>7, <1>9 DEF IInv, InvocationTells
<1>17. FirstTracks'
  BY <1>3, <1>5, <1>7, <1>9 DEF IInv, FirstTracks, SingleThreaded
<1>18. CountsAreBounded'
  BY <1>9 DEF IInv, CountsAreBounded
<1>19. InHand'
  <2> SUFFICES ASSUME NEW x \in Threads, th[x].h # 0
               PROVE  /\ x \in daemon' /\ svc'[th[x].h].st # "unused"
                      /\ \A u \in Ids : sess'[u].handle = th[x].h => u \in Visible(x)'
    BY <1>2 DEF InHand
  <2>1. th[x].h \in Handles
    BY Parts DEF IInv, ThreadRecs
  <2>2. svc'[th[x].h].st # "unused"
    BY <1>8, <2>1 DEF IInv, InHand
  <2> QED BY <1>3, <1>7, <1>9, <2>1, <2>2 DEF IInv, InHand, Visible, On
<1> QED BY <1>10, <1>11, <1>12, <1>13, <1>14, <1>15, <1>16, <1>17, <1>18, <1>19 DEF IInv

LEMMA ClusterNodeGetAsyncStep ==
    ASSUME IInv, TestCases, NEW t \in daemon, NEW s \in Visible(t),
           ClusterNodeGetAsync(t, s)
    PROVE  IInv'
<1>1. s \in Ids /\ t \in Threads /\ sess[s].home # "none" /\ s < nextId
  BY VisibleIsPresent
<1>2. /\ th' \in [Threads -> ThreadRecs]
      /\ \A x \in Threads : th'[x].h = th[x].h
  BY ServedStep DEF ClusterNodeGetAsync, IInv
<1>3. UNCHANGED <<daemon, nextId, ended>>
  BY DEF ClusterNodeGetAsync
<1>4. PICK i \in Invocations :
         /\ MayAsk(s, i) /\ CanCount(s, NodeCb(i))
         /\ sess' = [sess EXCEPT ![s].inv = i]
         /\ saClmClusterNodeGetAsync(sess[s].handle, i) \/ Refused
  BY DEF ClusterNodeGetAsync
<1> DEFINE r == [sess[s] EXCEPT !.inv = i]
<1>5. sess[s] \in Sessions
  BY <1>1, Parts DEF IInv
<1>6. /\ r \in Sessions /\ r.home = sess[s].home /\ r.long = sess[s].long
      /\ r.handle = sess[s].handle /\ r.selobj = sess[s].selobj /\ r.cbs = sess[s].cbs
      /\ r.flags = sess[s].flags /\ r.count = sess[s].count /\ r.inv = i
  BY <1>5 DEF Sessions
<1>7. /\ sess' \in [Ids -> Sessions] /\ sess'[s] = r
      /\ \A u \in Ids : u # s => sess'[u] = sess[u]
  BY <1>1, <1>4, <1>6, SessionStep DEF IInv
<1> HIDE DEF r
<1>8. \A h \in Handles, cb \in Callbacks : svc[h].owed[cb] \in Nat
  BY Parts DEF IInv
<1>9. /\ svc' \in [Handles -> HandleRecs]
      /\ \A g \in Handles :
            /\ svc'[g].st = svc[g].st /\ svc'[g].changes = svc[g].changes
            /\ \A cb \in Callbacks :
                  \/ svc'[g].owed[cb] = svc[g].owed[cb]
                  \/ /\ g = sess[s].handle /\ cb = NodeCb(i)
                     /\ svc'[g].owed[cb] = svc[g].owed[cb] + 1
  <2>1. CASE Refused
    BY <2>1 DEF Refused, IInv, TypeOK, ServiceTypeOK
  <2>2. CASE saClmClusterNodeGetAsync(sess[s].handle, i)
    <3>1. sess[s].handle \in Handles /\ NodeCb(i) \in Callbacks
      BY <2>2, CallbackKinds DEF saClmClusterNodeGetAsync, Live
    <3> DEFINE n == svc[sess[s].handle].owed[NodeCb(i)] + 1
    <3>2. n \in Nat
      BY <1>8, <3>1
    <3>3. Owes(sess[s].handle, NodeCb(i), n)
      BY <2>2 DEF saClmClusterNodeGetAsync, Owes
    <3> HIDE DEF n
    <3>4. /\ svc' \in [Handles -> HandleRecs]
          /\ \A g \in Handles : /\ svc'[g].st = svc[g].st
                                /\ svc'[g].changes = svc[g].changes
                                /\ g # sess[s].handle => svc'[g] = svc[g]
          /\ \A cb \in Callbacks :
                svc'[sess[s].handle].owed[cb]
                  = IF cb = NodeCb(i) THEN n ELSE svc[sess[s].handle].owed[cb]
      BY <3>1, <3>2, <3>3, OwedStep DEF IInv
    <3> QED BY <3>4 DEF n
  <2> QED BY <1>4, <2>1, <2>2
<1>10. TypeOK' /\ NoAbort'
  BY <1>2, <1>3, <1>7, <1>9 DEF IInv, TypeOK, ServiceTypeOK, NoAbort
<1>11. IdsAreFresh'
  BY <1>1, <1>3, <1>6, <1>7 DEF IInv, IdsAreFresh, TypeOK, Ids
<1>12. /\ OneHome' /\ LongFirst' /\ HandlesAreOwned' /\ NoHandleIsLost'
       /\ SelobjIsHandle' /\ InHand'
  BY <1>2, <1>3, <1>6, <1>7, <1>9, LinksStep
<1>13. InvocationTells'
  <2>1. \A u \in Ids : u # s => sess[u].inv # i
    BY <1>4 DEF MayAsk, TestCases
  <2>2. \A u, v \in Ids : sess'[u].inv # 0 /\ sess'[v].inv = sess'[u].inv => v = u
    BY <1>6, <1>7, <2>1 DEF IInv, InvocationTells
  <2>3. ASSUME NEW u \in Ids, sess'[u].handle # 0, NEW j \in Invocations,
               svc'[sess'[u].handle].owed[NodeCb(j)] > 0
        PROVE  sess'[u].inv = j
    <3>1. sess'[u].handle = sess[u].handle /\ sess[u].handle \in Handles
      BY <1>6, <1>7, <2>3, Parts DEF IInv
    <3>2. CASE svc[sess[u].handle].owed[NodeCb(j)] > 0
      <4>1. sess[u].inv = j
        BY <2>3, <3>1, <3>2 DEF IInv, InvocationTells
      <4>2. CASE u = s
        <5>1. sess[s].inv = i
          BY <1>4, <3>1, <3>2, <4>2 DEF MayAsk, TestCases, Owed
        <5> QED BY <1>6, <1>7, <4>1, <4>2, <5>1
      <4> QED BY <1>7, <4>1, <4>2
    <3>3. CASE ~(svc[sess[u].handle].owed[NodeCb(j)] > 0)
      <4>1. sess[u].handle = sess[s].handle /\ NodeCb(j) = NodeCb(i)
        BY <1>9, <2>3, <3>1, <3>3, CallbackKinds
      <4>2. u = s /\ j = i
        BY <1>1, <2>3, <3>1, <4>1, CallbackKinds DEF IInv, HandlesAreOwned
      <4> QED BY <1>6, <1>7, <4>2
    <3> QED BY <3>2, <3>3
  <2> QED BY <2>2, <2>3 DEF InvocationTells
<1>14. FirstTracks'
  <2> SUFFICES ASSUME NEW u \in Ids, sess'[u].handle # 0,
                      svc'[sess'[u].handle].changes
                        \/ svc'[sess'[u].handle].owed[TrackCb] > 0
               PROVE  /\ SingleThreaded' /\ sess'[u].long /\ sess'[u].cbs = Kinds
                      /\ \A v \in Ids : v < u => sess'[v].home = "none"
    BY DEF FirstTracks
  <2>1. \A v \in Ids : /\ sess'[v].handle = sess[v].handle /\ sess'[v].home = sess[v].home
                       /\ sess'[v].long = sess[v].long /\ sess'[v].cbs = sess[v].cbs
    BY <1>6, <1>7
  <2>2. sess[u].handle \in Handles
    BY <2>1, Parts DEF IInv
  <2>3. svc[sess[u].handle].changes \/ svc[sess[u].handle].owed[TrackCb] > 0
    BY <1>9, <2>1, <2>2, CallbackKinds
  <2> QED BY <1>3, <2>1, <2>3 DEF IInv, FirstTracks, SingleThreaded
<1>15. CountsAreBounded'
  <2> SUFFICES ASSUME NEW u \in Ids, sess'[u].handle # 0, NEW cb \in Callbacks
               PROVE  sess'[u].count[cb.kind] + svc'[sess'[u].handle].owed[cb] <= MaxCount
    BY DEF CountsAreBounded
  <2>1. /\ sess'[u].handle = sess[u].handle /\ sess[u].handle \in Handles
        /\ sess'[u].count = sess[u].count
    BY <1>6, <1>7, Parts DEF IInv
  <2>2. /\ svc[sess[u].handle].owed[cb] \in Nat
        /\ sess[u].count[cb.kind] \in Nat
    BY <1>8, <2>1, Parts, CallbackKinds DEF IInv
  <2>3. sess[u].count[cb.kind] + svc[sess[u].handle].owed[cb] <= MaxCount
    BY <2>1 DEF IInv, CountsAreBounded
  <2>4. CASE svc'[sess[u].handle].owed[cb] = svc[sess[u].handle].owed[cb]
    BY <2>1, <2>3, <2>4
  <2>5. CASE /\ sess[u].handle = sess[s].handle /\ cb = NodeCb(i)
             /\ svc'[sess[u].handle].owed[cb] = svc[sess[u].handle].owed[cb] + 1
    <3>1. u = s
      BY <1>1, <2>1, <2>5 DEF IInv, HandlesAreOwned
    <3>2. sess[u].count[cb.kind] + svc[sess[u].handle].owed[cb] < MaxCount
      BY <1>4, <2>1, <2>5, <3>1 DEF CanCount, Owed
    <3> QED BY <2>1, <2>2, <2>5, <3>2, DriverAssumption
  <2> QED BY <1>9, <2>1, <2>4, <2>5
<1> QED BY <1>10, <1>11, <1>12, <1>13, <1>14, <1>15 DEF IInv

\* The session that may track is the first there is.
LEMMA FirstSeenIsFirst ==
    ASSUME IInv, TestCases, NEW t \in daemon, NEW s \in Ids, MayTrack(t, s)
    PROVE  /\ SingleThreaded /\ sess[s].long /\ sess[s].cbs = Kinds
           /\ \A u \in Ids : u < s => sess[u].home = "none"
<1> DEFINE S == LongLivedWithTrackCallback \cap On(t)
<1>1. SingleThreaded /\ s = FirstSeen(t, LongLivedWithTrackCallback)
  BY DEF MayTrack, TestCases
<1>2. t = MainThread /\ On("global") = {}
  BY <1>1, DriverAssumption, Parts DEF SingleThreaded, On, IInv, OneHome, HomeOfAll
<1>3. S # {} /\ s = FirstOf(S)
  BY <1>1, <1>2 DEF FirstSeen, Ids
<1>4. S \in SUBSET Ids
  BY DEF On
<1>5. s \in S /\ \A u \in S : s <= u
  BY <1>3, <1>4, FirstOfIsLeast
<1>6. sess[s].long /\ "track" \in sess[s].cbs /\ sess[s].home = t
  BY <1>5 DEF LongLivedWithTrackCallback, On
<1>7. sess[s].cbs = Kinds
  BY <1>6 DEF IInv, LongFirst
<1>8. ASSUME NEW u \in Ids, u < s, sess[u].home # "none" PROVE FALSE
  <2>1. sess[s].home # "none"
    BY <1>2, <1>6, DriverAssumption, Parts DEF IInv
  <2>2. sess[u].long /\ sess[u].cbs = Kinds
    BY <1>6, <1>8, <2>1 DEF IInv, LongFirst
  <2>3. sess[u].home = t
    BY <1>1, <1>2, <1>8 DEF IInv, OneHome, HomeOfAll
  <2>4. u \in S
    BY <2>2, <2>3 DEF LongLivedWithTrackCallback, On, Kinds
  <2> QED BY <1>5, <1>8, <2>4 DEF Ids
<1> QED BY <1>1, <1>6, <1>7, <1>8

\* Steps after which nothing changed but what trackers are owed.
LEMMA TrackStep ==
    ASSUME IInv, UNCHANGED <<daemon, sess, nextId, ended>>,
           th' \in [Threads -> ThreadRecs], \A x \in Threads : th'[x].h = th[x].h,
           svc' \in [Handles -> HandleRecs],
           \A h \in Handles :
              /\ svc'[h].st = svc[h].st
              /\ \A cb \in Callbacks : cb # TrackCb => svc'[h].owed[cb] = svc[h].owed[cb],
           \A s \in Ids : sess[s].handle # 0 =>
              /\ \/ svc'[sess[s].handle].owed[TrackCb]
                      <= svc[sess[s].handle].owed[TrackCb]
                 \/ sess[s].count["track"] + svc'[sess[s].handle].owed[TrackCb] <= MaxCount
              /\ svc'[sess[s].handle].changes \/ svc'[sess[s].handle].owed[TrackCb] > 0
                 => \/ svc[sess[s].handle].changes
                    \/ svc[sess[s].handle].owed[TrackCb] > 0
                    \/ \E t \in daemon : MayTrack(t, s),
           TestCases
    PROVE  IInv'
<1>1. TypeOK' /\ NoAbort'
  BY DEF IInv, TypeOK, ServiceTypeOK, NoAbort
<1>2. IdsAreFresh'
  BY DEF IInv, IdsAreFresh
<1>3. /\ OneHome' /\ LongFirst' /\ HandlesAreOwned' /\ NoHandleIsLost'
      /\ SelobjIsHandle' /\ InHand'
  BY LinksStep
<1>4. \A s \in Ids : sess[s].handle \in Handles \cup {0}
  BY Parts DEF IInv
<1>5. InvocationTells'
  BY <1>4, CallbackKinds DEF IInv, InvocationTells
<1>6. FirstTracks'
  <2> SUFFICES ASSUME NEW s \in Ids, sess[s].handle # 0,
                      svc'[sess[s].handle].changes
                        \/ svc'[sess[s].handle].owed[TrackCb] > 0
               PROVE  /\ SingleThreaded' /\ sess[s].long /\ sess[s].cbs = Kinds
                      /\ \A v \in Ids : v < s => sess[v].home = "none"
    BY DEF FirstTracks
  <2>1. \/ svc[sess[s].handle].changes \/ svc[sess[s].handle].owed[TrackCb] > 0
        \/ \E t \in daemon : MayTrack(t, s)
    OBVIOUS
  <2>2. CASE svc[sess[s].handle].changes \/ svc[sess[s].handle].owed[TrackCb] > 0
    BY <2>2 DEF IInv, FirstTracks, SingleThreaded
  <2>3. CASE \E t \in daemon : MayTrack(t, s)
    BY <2>3, FirstSeenIsFirst DEF SingleThreaded
  <2> QED BY <2>2, <2>3
<1>7. CountsAreBounded'
  <2> SUFFICES ASSUME NEW s \in Ids, sess[s].handle # 0, NEW cb \in Callbacks
               PROVE  sess[s].count[cb.kind] + svc'[sess[s].handle].owed[cb] <= MaxCount
    BY DEF CountsAreBounded
  <2>1. sess[s].count[cb.kind] + svc[sess[s].handle].owed[cb] <= MaxCount
    BY DEF IInv, CountsAreBounded
  <2>2. CASE cb # TrackCb
    BY <1>4, <2>1, <2>2
  <2>3. CASE cb = TrackCb
    <3>1. cb.kind = "track" /\ sess[s].count["track"] \in Nat
      BY <2>3, Parts, CallbackKinds DEF IInv, Kinds
    <3>2. /\ svc[sess[s].handle].owed[TrackCb] \in Nat
          /\ svc'[sess[s].handle].owed[TrackCb] \in Nat
      BY <1>4, CallbackKinds, Parts DEF IInv, HandleRecs
    <3> QED BY <2>1, <2>3, <3>1, <3>2, DriverAssumption
  <2> QED BY <2>2, <2>3
<1> QED BY <1>1, <1>2, <1>3, <1>5, <1>6, <1>7 DEF IInv

LEMMA ClusterTrackStep ==
    ASSUME IInv, TestCases, NEW t \in daemon, NEW s \in Visible(t), ClusterTrack(t, s)
    PROVE  IInv'
<1>1. s \in Ids /\ t \in Threads
  BY VisibleIsPresent
<1>2. /\ th' \in [Threads -> ThreadRecs]
      /\ \A x \in Threads : th'[x].h = th[x].h
  BY ServedStep DEF ClusterTrack, IInv
<1>3. UNCHANGED <<daemon, sess, nextId, ended>>
  BY DEF ClusterTrack
<1>4. CASE Refused
  BY <1>2, <1>3, <1>4, OrdinaryStep DEF Refused
<1>5. ASSUME NEW flags \in SUBSET {"CURRENT", "CHANGES", "CHANGES_ONLY"},
             NEW buffer \in BOOLEAN, buffer => "CURRENT" \in flags,
             flags # {"CURRENT"} \/ ~buffer => MayTrack(t, s),
             CanCount(s, TrackCb), saClmClusterTrack(sess[s].handle, flags, buffer)
      PROVE  IInv'
  <2> DEFINE h == sess[s].handle
             calls == "CURRENT" \in flags /\ ~buffer
             subscribes == flags \cap {"CHANGES", "CHANGES_ONLY"} # {}
             n == IF calls THEN svc[h].owed[TrackCb] + 1 ELSE svc[h].owed[TrackCb]
             o == [svc[h].owed EXCEPT ![TrackCb] = n]
             r == [svc[h] EXCEPT !.owed = o, !.changes = @ \/ subscribes]
  <2>1. h \in Handles /\ svc' = [svc EXCEPT ![h] = r]
    BY <1>5 DEF saClmClusterTrack, Live
  <2>2. svc[h] \in HandleRecs /\ svc[h].owed \in [Callbacks -> Nat]
    BY <2>1, Parts DEF IInv
  <2>3. n \in Nat
    BY <2>2, CallbackKinds
  <2>4. calls \/ subscribes => MayTrack(t, s)
    BY <1>5
  <2>5. /\ n # svc[h].owed[TrackCb] => calls /\ n = svc[h].owed[TrackCb] + 1
    OBVIOUS
  <2> HIDE DEF n, calls, subscribes
  <2>6. /\ o \in [Callbacks -> Nat] /\ o[TrackCb] = n
        /\ \A cb \in Callbacks : cb # TrackCb => o[cb] = svc[h].owed[cb]
    BY <2>2, <2>3, CallbackKinds
  <2> HIDE DEF o
  <2>7. /\ r \in HandleRecs /\ r.st = svc[h].st /\ r.owed = o
        /\ r.changes = (svc[h].changes \/ subscribes)
    <3>1. subscribes \in BOOLEAN
      BY DEF subscribes
    <3> QED BY <2>2, <2>6, <3>1 DEF HandleRecs
  <2> HIDE DEF r
  <2>8. /\ svc' \in [Handles -> HandleRecs] /\ svc'[h] = r
        /\ \A g \in Handles : g # h => svc'[g] = svc[g]
    BY <2>1, <2>7, HandleStep DEF IInv
  <2>9. sess[s].count["track"] + svc[h].owed[TrackCb] < MaxCount
    BY <1>5, <2>1, CallbackKinds DEF CanCount, Owed
  <2>10. \A g \in Handles :
            /\ svc'[g].st = svc[g].st
            /\ \A cb \in Callbacks : cb # TrackCb => svc'[g].owed[cb] = svc[g].owed[cb]
    BY <2>6, <2>7, <2>8
  <2>11. ASSUME NEW u \in Ids, sess[u].handle # 0
         PROVE  /\ \/ svc'[sess[u].handle].owed[TrackCb]
                        <= svc[sess[u].handle].owed[TrackCb]
                   \/ sess[u].count["track"] + svc'[sess[u].handle].owed[TrackCb]
                        <= MaxCount
                /\ svc'[sess[u].handle].changes
                     \/ svc'[sess[u].handle].owed[TrackCb] > 0
                   => \/ svc[sess[u].handle].changes
                      \/ svc[sess[u].handle].owed[TrackCb] > 0
                      \/ \E x \in daemon : MayTrack(x, u)
    <3>1. sess[u].handle \in Handles /\ svc[sess[u].handle].owed[TrackCb] \in Nat
      BY <2>11, Parts, CallbackKinds DEF IInv
    <3>2. CASE u # s
      <4>1. sess[u].handle # h
        BY <1>1, <2>11, <3>2 DEF IInv, HandlesAreOwned
      <4> QED BY <2>8, <3>1, <4>1
    <3>3. CASE u = s
      <4>1. svc'[h].owed[TrackCb] = n /\ svc'[h].changes = (svc[h].changes \/ subscribes)
        BY <2>6, <2>7, <2>8
      <4>2. sess[s].count["track"] \in Nat
        BY <1>1, Parts DEF IInv, Kinds
      <4>3. \/ n <= svc[h].owed[TrackCb]
            \/ sess[s].count["track"] + n <= MaxCount
        BY <2>5, <2>9, <3>1, <3>3, <4>2, DriverAssumption
      <4>4. svc'[h].changes \/ svc'[h].owed[TrackCb] > 0
               => \/ svc[h].changes \/ svc[h].owed[TrackCb] > 0 \/ MayTrack(t, s)
        BY <2>4, <2>5, <4>1
      <4> QED BY <3>3, <4>1, <4>3, <4>4
    <3> QED BY <3>2, <3>3
  <2> QED BY <1>2, <1>3, <2>8, <2>10, <2>11, TrackStep
<1> QED BY <1>4, <1>5 DEF ClusterTrack

LEMMA ClusterTrackStopStep ==
    ASSUME IInv, TestCases, NEW t \in daemon, NEW s \in Visible(t), ClusterTrackStop(t, s)
    PROVE  IInv'
<1>1. s \in Ids /\ t \in Threads
  BY VisibleIsPresent
<1>2. /\ th' \in [Threads -> ThreadRecs]
      /\ \A x \in Threads : th'[x].h = th[x].h
  BY ServedStep DEF ClusterTrackStop, IInv
<1>3. UNCHANGED <<daemon, sess, nextId, ended>>
  BY DEF ClusterTrackStop
<1>4. CASE Refused
  BY <1>2, <1>3, <1>4, OrdinaryStep DEF Refused
<1>5. CASE saClmClusterTrackStop(sess[s].handle)
  <2> DEFINE h == sess[s].handle
             r == [svc[h] EXCEPT !.changes = FALSE]
  <2>1. h \in Handles /\ svc' = [svc EXCEPT ![h] = r]
    BY <1>5 DEF saClmClusterTrackStop, Live
  <2>2. svc[h] \in HandleRecs
    BY <2>1, Parts DEF IInv
  <2>3. r \in HandleRecs /\ r.st = svc[h].st /\ r.owed = svc[h].owed /\ ~r.changes
    BY <2>2 DEF HandleRecs
  <2> HIDE DEF r
  <2>4. /\ svc' \in [Handles -> HandleRecs] /\ svc'[h] = r
        /\ \A g \in Handles : g # h => svc'[g] = svc[g]
    BY <2>1, <2>3, HandleStep DEF IInv
  <2>5. \A g \in Handles : /\ svc'[g].st = svc[g].st /\ svc'[g].owed = svc[g].owed
                           /\ svc'[g].changes => svc[g].changes
    BY <2>3, <2>4
  <2>6. \A u \in Ids : sess[u].handle # 0 =>
           sess[u].handle \in Handles /\ svc[sess[u].handle].owed[TrackCb] \in Nat
    BY Parts, CallbackKinds DEF IInv
  <2> QED BY <1>2, <1>3, <2>4, <2>5, <2>6, TrackStep
<1> QED BY <1>4, <1>5 DEF ClusterTrackStop

LEMMA ChangeStep ==
    ASSUME IInv, TestCases, Change
    PROVE  IInv'
<1>1. UNCHANGED <<daemon, sess, nextId, th, ended>>
  BY DEF Change
<1> DEFINE r(h) == [svc[h] EXCEPT !.owed = [svc[h].owed EXCEPT ![TrackCb] = @ + 1]]
<1>2. svc' = [h \in Handles |-> IF svc[h].changes THEN r(h) ELSE svc[h]]
  BY DEF Change, ClusterChange
<1>3. ASSUME NEW h \in Handles
      PROVE  /\ r(h) \in HandleRecs /\ r(h).st = svc[h].st
             /\ r(h).owed[TrackCb] = svc[h].owed[TrackCb] + 1
             /\ \A cb \in Callbacks : cb # TrackCb => r(h).owed[cb] = svc[h].owed[cb]
             /\ svc[h] \in HandleRecs /\ r(h).changes = svc[h].changes
             /\ svc[h].owed[TrackCb] \in Nat
  <2> DEFINE o == [svc[h].owed EXCEPT ![TrackCb] = @ + 1]
  <2>1. svc[h] \in HandleRecs /\ svc[h].owed \in [Callbacks -> Nat]
    BY Parts DEF IInv
  <2>2. /\ o \in [Callbacks -> Nat] /\ o[TrackCb] = svc[h].owed[TrackCb] + 1
        /\ \A cb \in Callbacks : cb # TrackCb => o[cb] = svc[h].owed[cb]
        /\ svc[h].owed[TrackCb] \in Nat
    BY <2>1, CallbackKinds
  <2> HIDE DEF o
  <2>3. [svc[h] EXCEPT !.owed = o] \in HandleRecs
    BY <2>1, <2>2 DEF HandleRecs
  <2>4. /\ r(h) = [svc[h] EXCEPT !.owed = o]
    BY DEF o
  <2> QED BY <2>1, <2>2, <2>3, <2>4
<1> HIDE DEF r
<1>4. /\ svc' \in [Handles -> HandleRecs]
      /\ \A h \in Handles : svc'[h] = IF svc[h].changes THEN r(h) ELSE svc[h]
  BY <1>2, <1>3
<1>5. ASSUME NEW s \in Ids, sess[s].handle # 0
      PROVE  /\ \/ svc'[sess[s].handle].owed[TrackCb]
                     <= svc[sess[s].handle].owed[TrackCb]
                \/ sess[s].count["track"] + svc'[sess[s].handle].owed[TrackCb]
                     <= MaxCount
             /\ svc'[sess[s].handle].changes \/ svc'[sess[s].handle].owed[TrackCb] > 0
                => \/ svc[sess[s].handle].changes
                   \/ svc[sess[s].handle].owed[TrackCb] > 0
  <2>1. sess[s].handle \in Handles /\ Live(sess[s].handle)
    BY <1>5, Parts DEF IInv, HandlesAreOwned, Live
  <2>2. CASE ~svc[sess[s].handle].changes
    BY <1>3, <1>4, <2>1, <2>2
  <2>3. CASE svc[sess[s].handle].changes
    <3>1. sess[s].count["track"] + svc[sess[s].handle].owed[TrackCb] < MaxCount
      BY <2>1, <2>3, CallbackKinds DEF Change, CanCount, Owed
    <3>2. sess[s].count["track"] \in Nat
      BY Parts DEF IInv, Kinds
    <3> QED BY <1>3, <1>4, <2>1, <2>3, <3>1, <3>2, DriverAssumption
  <2> QED BY <2>2, <2>3
<1>6. th' \in [Threads -> ThreadRecs]
  BY <1>1 DEF IInv, TypeOK
<1>7. \A h \in Handles :
         /\ svc'[h].st = svc[h].st
         /\ \A cb \in Callbacks : cb # TrackCb => svc'[h].owed[cb] = svc[h].owed[cb]
  BY <1>3, <1>4
<1> QED BY <1>1, <1>4, <1>5, <1>6, <1>7, TrackStep

\* Every thread of the daemon sees every session there is.
LEMMA PresentIsVisible ==
    ASSUME IInv, NEW t \in daemon, NEW s \in Ids, sess[s].home # "none"
    PROVE  s \in Visible(t)
<1>1. t \in Threads
  BY Parts DEF IInv
<1>2. sess[s].home \in {"none", HomeOfAll}
  BY DEF IInv, OneHome
<1>3. CASE SingleThreaded
  BY <1>2, <1>3 DEF HomeOfAll, SingleThreaded, Visible, On
<1>4. CASE ~SingleThreaded
  BY <1>2, <1>4 DEF HomeOfAll, Visible, On
<1> QED BY <1>3, <1>4

\* A session that has a handle is there, and the handle is open.
LEMMA HolderIsPresent ==
    ASSUME IInv, NEW s \in Ids, sess[s].handle # 0
    PROVE  sess[s].home # "none" /\ sess[s].handle \in Handles /\ Live(sess[s].handle)
<1>1. sess[s].handle \in Handles /\ Live(sess[s].handle)
  BY Parts DEF IInv, HandlesAreOwned, Live
<1>2. sess[s].home # "none"
  BY NewSessionIsEmpty DEF IInv, IdsAreFresh
<1> QED BY <1>1, <1>2

\* Requests that read, or go to the dispatch loop; and the loop itself.
LEMMA ReadStep ==
    ASSUME IInv, NEW t \in daemon, Read(t)
    PROVE  IInv'
<1>1. /\ th' \in [Threads -> ThreadRecs]
      /\ \A x \in Threads : th'[x].h = th[x].h
  BY ServedStep DEF Read, IInv
<1>2. UNCHANGED <<daemon, sess, nextId, ended, svc>>
  BY DEF Read
<1> QED BY <1>1, <1>2, OrdinaryStep

LEMMA ClusterNodeGetStep ==
    ASSUME IInv, TestCases, NEW t \in daemon, NEW s \in Visible(t), ClusterNodeGet(t, s)
    PROVE  /\ IInv' /\ UNCHANGED <<sess, svc>>
<1>1. Served(t) /\ UNCHANGED <<daemon, sess, nextId, ended, svc>>
  BY DEF ClusterNodeGet, TestCases
<1>2. /\ th' \in [Threads -> ThreadRecs]
      /\ \A x \in Threads : th'[x].h = th[x].h
  BY <1>1, ServedStep DEF ClusterNodeGet, IInv
<1> QED BY <1>1, <1>2, OrdinaryStep

LEMMA ThreadStep ==
    ASSUME TypeOK, NEW t \in Threads, NEW r \in ThreadRecs, th' = [th EXCEPT ![t] = r]
    PROVE  /\ th' \in [Threads -> ThreadRecs]
           /\ th'[t] = r
           /\ \A x \in Threads : x # t => th'[x] = th[x]
BY DEF TypeOK

LEMMA DispatchStep ==
    ASSUME IInv, TestCases, NEW t \in daemon, NEW s \in Visible(t), Dispatch(t, s)
    PROVE  IInv' /\ UNCHANGED <<sess, svc>>
<1>1. s \in Ids /\ t \in Threads
  BY VisibleIsPresent
<1>2. PICK f \in DispatchFlags :
         /\ MayDispatch(t, s, f)
         /\ th' = [th EXCEPT ![t].left = @ - 1, ![t].pc = "dispatch",
                             ![t].h = sess[s].handle, ![t].how = f, ![t].back = "serve"]
         /\ UNCHANGED <<daemon, sess, nextId, ended, svc>>
  BY DEF Dispatch, MayDispatch, TestCases
<1> DEFINE r == [th[t] EXCEPT !.left = @ - 1, !.pc = "dispatch", !.h = sess[s].handle,
                              !.how = f, !.back = "serve"]
<1>3. th[t] \in ThreadRecs /\ th[t].left \in 0 .. MaxServed /\ th[t].left > 0
  BY <1>1, Parts DEF IInv, Dispatch, Serving, ThreadRecs
<1>4. sess[s].handle \in Handles \cup {0} /\ f \in Flags
  BY <1>1, Parts, DriverAssumption DEF IInv, Flags
<1>5. th[t].left - 1 \in 0 .. MaxServed
  BY <1>3, DriverAssumption
<1>6. r \in ThreadRecs /\ r.h = sess[s].handle
  BY <1>3, <1>4, <1>5 DEF ThreadRecs
<1>7. th' = [th EXCEPT ![t] = r]
  BY <1>2
<1> HIDE DEF r
<1>8. /\ th' \in [Threads -> ThreadRecs] /\ th'[t] = r
      /\ \A x \in Threads : x # t => th'[x] = th[x]
  BY <1>1, <1>6, <1>7, ThreadStep DEF IInv
<1>9. \A x \in Threads :
         \/ th'[x].h \in {0, th[x].h}
         \/ x \in daemon /\ \E u \in Visible(x) : th'[x].h = sess[u].handle
  BY <1>6, <1>8
<1> QED BY <1>2, <1>8, <1>9, OrdinaryStep

LEMMA SelectStep ==
    ASSUME IInv, NEW t \in daemon, Select(t)
    PROVE  IInv'
<1>1. t \in Threads /\ th[t] \in ThreadRecs
  BY Parts DEF IInv
<1>2. PICK n \in 0 .. MaxServed, ready \in SUBSET Handles :
         th' = [th EXCEPT ![t].pc = "serve", ![t].mask = ready, ![t].left = n]
  <2>1. {sess[s].selobj : s \in {u \in On(t) :
            /\ sess[u].flags # "BLOCKING" /\ Live(sess[u].selobj)
            /\ \E cb \in Callbacks : Owed(sess[u].selobj, cb) > 0}} \in SUBSET Handles
    BY DEF Live
  <2> QED BY <2>1 DEF Select
<1> DEFINE r == [th[t] EXCEPT !.pc = "serve", !.mask = ready, !.left = n]
<1>3. r \in ThreadRecs /\ r.h = th[t].h
  BY <1>1 DEF ThreadRecs
<1>4. th' = [th EXCEPT ![t] = r]
  BY <1>2
<1> HIDE DEF r
<1>5. /\ th' \in [Threads -> ThreadRecs]
      /\ \A x \in Threads : th'[x].h = th[x].h
  BY <1>1, <1>3, <1>4, ThreadStep DEF IInv
<1>6. UNCHANGED <<daemon, sess, nextId, ended, svc>>
  BY DEF Select
<1> QED BY <1>5, <1>6, OrdinaryStep

LEMMA EndServeStep ==
    ASSUME IInv, NEW t \in daemon, EndServe(t)
    PROVE  IInv'
<1>1. t \in Threads /\ th[t] \in ThreadRecs
  BY Parts DEF IInv
<1> DEFINE r == [th[t] EXCEPT !.pc = "check", !.todo = On(t)]
<1>2. r \in ThreadRecs /\ r.h = th[t].h
  BY <1>1 DEF ThreadRecs, On
<1>3. th' = [th EXCEPT ![t] = r]
  BY DEF EndServe
<1> HIDE DEF r
<1>4. /\ th' \in [Threads -> ThreadRecs]
      /\ \A x \in Threads : th'[x].h = th[x].h
  BY <1>1, <1>2, <1>3, ThreadStep DEF IInv
<1>5. UNCHANGED <<daemon, sess, nextId, ended, svc>>
  BY DEF EndServe
<1> QED BY <1>4, <1>5, OrdinaryStep

LEMMA CheckStep ==
    ASSUME IInv, NEW t \in daemon, Check(t)
    PROVE  IInv' /\ UNCHANGED <<sess, svc>>
<1> DEFINE due == {s \in th[t].todo : sess[s].selobj \in th[t].mask}
           s == FirstOf(due)
<1>1. /\ t \in Threads /\ th[t] \in ThreadRecs /\ th[t].mask \subseteq Handles
      /\ th[t].todo \subseteq Ids
  BY Parts DEF IInv, ThreadRecs
<1>2. CASE due = {}
  <2>1. th' = [th EXCEPT ![t] = IdleThread] /\ UNCHANGED <<daemon, sess, nextId, ended, svc>>
    BY <1>2 DEF Check
  <2>2. IdleThread \in ThreadRecs /\ IdleThread.h = 0
    BY DriverAssumption DEF IdleThread, ThreadRecs, Flags
  <2>3. /\ th' \in [Threads -> ThreadRecs]
        /\ \A x \in Threads : th'[x].h \in {0, th[x].h}
    BY <1>1, <2>1, <2>2, ThreadStep DEF IInv
  <2> QED BY <2>1, <2>3, OrdinaryStep
<1>3. CASE due # {}
  <2>1. s \in due
    BY <1>1, <1>3, FirstOfIsLeast
  <2>2. s \in Ids /\ sess[s].selobj \in Handles
    BY <1>1, <2>1
  <2> HIDE DEF s
  <2>3. sess[s].selobj # 0
    BY <2>2 DEF Handles
  <2>4. sess[s].handle # 0 /\ sess[s].flags \in {"ONE", "ALL"}
    BY <2>2, <2>3 DEF IInv, SelobjIsHandle
  <2>5. Live(sess[s].handle) /\ sess[s].handle \in Handles /\ s \in Visible(t)
    BY <2>2, <2>4, HolderIsPresent, PresentIsVisible
  <2>6. /\ th' = [th EXCEPT ![t].pc = "dispatch", ![t].todo = @ \ {s},
                            ![t].h = sess[s].handle, ![t].how = sess[s].flags,
                            ![t].back = "check"]
        /\ UNCHANGED <<daemon, sess, nextId, ended, svc>>
    BY <1>3, <2>4, <2>5 DEF Check, s
  <2> DEFINE r == [th[t] EXCEPT !.pc = "dispatch", !.todo = @ \ {s}, !.h = sess[s].handle,
                                !.how = sess[s].flags, !.back = "check"]
  <2>7. r \in ThreadRecs /\ r.h = sess[s].handle
    BY <1>1, <2>4, <2>5 DEF ThreadRecs, Flags
  <2>8. th' = [th EXCEPT ![t] = r]
    BY <2>6
  <2> HIDE DEF r
  <2>9. /\ th' \in [Threads -> ThreadRecs] /\ th'[t] = r
        /\ \A x \in Threads : x # t => th'[x] = th[x]
    BY <1>1, <2>7, <2>8, ThreadStep DEF IInv
  <2>10. \A x \in Threads :
            \/ th'[x].h \in {0, th[x].h}
            \/ x \in daemon /\ \E u \in Visible(x) : th'[x].h = sess[u].handle
    BY <2>5, <2>7, <2>9
  <2> QED BY <2>6, <2>9, <2>10, OrdinaryStep
<1> QED BY <1>2, <1>3

LEMMA DispatchReturnStep ==
    ASSUME IInv, NEW t \in daemon, DispatchReturn(t)
    PROVE  IInv'
<1>1. t \in Threads /\ th[t] \in ThreadRecs
  BY Parts DEF IInv
<1> DEFINE r == [th[t] EXCEPT !.pc = th[t].back, !.h = 0, !.how = "NONE", !.back = "serve"]
<1>2. r \in ThreadRecs /\ r.h = 0
  BY <1>1 DEF ThreadRecs, Flags
<1>3. th' = [th EXCEPT ![t] = r]
  BY DEF DispatchReturn
<1> HIDE DEF r
<1>4. /\ th' \in [Threads -> ThreadRecs]
      /\ \A x \in Threads : th'[x].h \in {0, th[x].h}
  BY <1>1, <1>2, <1>3, ThreadStep DEF IInv
<1>5. UNCHANGED <<daemon, sess, nextId, ended, svc>>
  BY DEF DispatchReturn
<1> QED BY <1>4, <1>5, OrdinaryStep

\* The session a callback is counted on is the one whose handle it came through.
LEMMA FoundIsOwner ==
    ASSUME IInv, TestCases, NEW t \in daemon, NEW h \in Handles, Live(h),
           NEW cb \in Callbacks, svc[h].owed[cb] > 0
    PROVE  SessionOf(t, cb) \in Ids /\ sess[SessionOf(t, cb)].handle = h
<1>1. PICK s \in Ids : sess[s].handle = h
  BY DEF Live, IInv, NoHandleIsLost
<1>2. sess[s].handle # 0
  BY <1>1 DEF Handles
<1>3. sess[s].home # "none" /\ s \in Visible(t)
  BY <1>2, HolderIsPresent, PresentIsVisible
<1>4. CASE cb.kind = "node"
  <2>1. PICK i \in Invocations : cb = NodeCb(i)
    BY <1>4, CallbackKinds
  <2> DEFINE S == {u \in Ids : sess[u].inv = i}
  <2>2. sess[s].inv = i /\ i # 0
    BY <1>1, <1>2, <2>1, ServiceAssumption DEF IInv, InvocationTells
  <2>3. S = {s}
    BY <2>2 DEF IInv, InvocationTells
  <2>4. SessionOf(t, cb) = FirstSeen(t, S)
    BY <1>4, <2>1, CallbackKinds DEF SessionOf, ByInvocation
  <2> HIDE DEF S
  <2>5. ASSUME NEW list, S \cap On(list) # {} PROVE FirstOf(S \cap On(list)) = s
    BY <2>3, <2>5, FirstOfIsLeast
  <2>6. S \cap On("global") # {} \/ S \cap On(t) # {}
    BY <1>3, <2>3 DEF Visible
  <2>7. FirstSeen(t, S) = s
    BY <2>5, <2>6 DEF FirstSeen
  <2> QED BY <1>1, <2>4, <2>7
<1>5. CASE cb.kind # "node"
  <2>1. cb = TrackCb
    BY <1>5, CallbackKinds DEF Kinds
  <2>2. /\ SingleThreaded /\ sess[s].long /\ sess[s].cbs = Kinds
        /\ \A u \in Ids : u < s => sess[u].home = "none"
    BY <1>1, <1>2, <2>1 DEF IInv, FirstTracks
  <2>3. t = MainThread /\ sess[s].home = t
    BY <1>3, <2>2 DEF SingleThreaded, IInv, OneHome, HomeOfAll
  <2> DEFINE S == LongLivedWithTrackCallback \cap On(t)
  <2>4. s \in S /\ S \in SUBSET Ids
    BY <2>2, <2>3 DEF LongLivedWithTrackCallback, On, Kinds
  <2>5. \A u \in S : u \in Ids /\ sess[u].home # "none"
    BY <2>3, <1>3 DEF On
  <2>6. SessionOf(t, cb) = FirstOf(S)
    BY <1>5, <2>4 DEF SessionOf, Main
  <2> HIDE DEF S
  <2>7. FirstOf(S) \in S /\ FirstOf(S) <= s
    BY <2>4, FirstOfIsLeast
  <2>8. ~(FirstOf(S) < s)
    BY <2>2, <2>5, <2>7
  <2>9. FirstOf(S) \in Nat /\ s \in Nat
    <3>1. FirstOf(S) \in Ids /\ s \in Ids
      BY <2>4, <2>7
    <3> QED BY <3>1 DEF Ids
  <2>10. FirstOf(S) = s
    BY <2>7, <2>8, <2>9
  <2> QED BY <1>1, <2>6, <2>10
<1> QED BY <1>4, <1>5

\* What a delivery does: one callback less is owed to one handle, and one more is
\* counted on the session that holds it.
Delivers(s, cb) ==
    /\ \A u \in Ids : /\ u # s => sess'[u] = sess[u]
                      /\ sess'[u].handle = sess[u].handle
                      /\ sess'[u].home = sess[u].home
                      /\ sess'[u].long = sess[u].long
                      /\ sess'[u].selobj = sess[u].selobj
                      /\ sess'[u].flags = sess[u].flags
                      /\ sess'[u].cbs = sess[u].cbs
                      /\ sess'[u].inv = sess[u].inv
                      /\ \A k \in Kinds :
                            sess'[u].count[k] = IF u = s /\ k = cb.kind
                                                THEN sess[u].count[k] + 1
                                                ELSE sess[u].count[k]
    /\ \A g \in Handles : /\ svc'[g].st = svc[g].st
                          /\ svc'[g].changes = svc[g].changes
                          /\ \A b \in Callbacks :
                                svc'[g].owed[b] = IF g = sess[s].handle /\ b = cb
                                                  THEN svc[g].owed[b] - 1
                                                  ELSE svc[g].owed[b]

LEMMA TakeOneDelivers ==
    ASSUME IInv, TestCases, NEW t \in daemon, TakeOne(t)
    PROVE  /\ UNCHANGED <<daemon, nextId, ended>>
           /\ th' \in [Threads -> ThreadRecs]
           /\ \A x \in Threads : th'[x].h = th[x].h
           /\ sess' \in [Ids -> Sessions]
           /\ svc' \in [Handles -> HandleRecs]
           /\ \E s \in Ids, cb \in Callbacks :
                 /\ sess[s].handle \in Handles /\ svc[sess[s].handle].owed[cb] > 0
                 /\ Delivers(s, cb)
<1> DEFINE h == th[t].h
<1>1. PICK cb \in Callbacks :
         /\ svc[h].owed[cb] > 0
         /\ IF SessionOf(t, cb) = 0 THEN End(Unfound(cb))
            ELSE /\ Deliver(h, cb)
                 /\ Callback(t, cb)
                 /\ th' = [th EXCEPT ![t].how = IF @ = "ONE" THEN "NONE" ELSE @]
                 /\ UNCHANGED <<daemon, nextId, ended>>
  BY DEF TakeOne
<1>2. h \in Handles /\ Live(h)
  BY DEF TakeOne, Live
<1> DEFINE s == SessionOf(t, cb)
<1>3. s \in Ids /\ sess[s].handle = h
  BY <1>1, <1>2, FoundIsOwner
<1>4. /\ Deliver(h, cb)
      /\ sess' = [sess EXCEPT ![s].count[cb.kind] = @ + 1]
      /\ th' = [th EXCEPT ![t].how = IF @ = "ONE" THEN "NONE" ELSE @]
      /\ UNCHANGED <<daemon, nextId, ended>>
  BY <1>1, <1>3 DEF Callback, Ids
<1> HIDE DEF s
<1>5. t \in Threads /\ th[t] \in ThreadRecs
  BY Parts DEF IInv
<1>6. /\ th' \in [Threads -> ThreadRecs]
      /\ \A x \in Threads : th'[x].h = th[x].h
  <2> DEFINE r == [th[t] EXCEPT !.how = IF @ = "ONE" THEN "NONE" ELSE @]
  <2>1. r \in ThreadRecs /\ r.h = th[t].h
    BY <1>5 DEF ThreadRecs, Flags
  <2>2. th' = [th EXCEPT ![t] = r]
    BY <1>4
  <2> HIDE DEF r
  <2> QED BY <1>5, <2>1, <2>2, ThreadStep DEF IInv
<1>7. cb.kind \in Kinds /\ svc[h].owed[cb] \in Nat
  BY <1>2, CallbackKinds, Parts DEF IInv
<1>8. sess[s] \in Sessions /\ sess[s].count \in [Kinds -> 0 .. MaxCount]
  BY <1>3, Parts DEF IInv
<1> DEFINE n == svc[h].owed[cb] - 1
<1>9. n \in Nat
  BY <1>1, <1>7
<1>10. Owes(h, cb, n)
  BY <1>4 DEF Deliver, Owes
<1> HIDE DEF n
<1>11. /\ svc' \in [Handles -> HandleRecs]
       /\ \A g \in Handles : /\ svc'[g].st = svc[g].st
                             /\ svc'[g].changes = svc[g].changes
                             /\ g # h => svc'[g] = svc[g]
       /\ \A b \in Callbacks :
             svc'[h].owed[b] = IF b = cb THEN n ELSE svc[h].owed[b]
  BY <1>2, <1>9, <1>10, OwedStep DEF IInv
<1> DEFINE c == [sess[s].count EXCEPT ![cb.kind] = @ + 1]
           r == [sess[s] EXCEPT !.count = c]
<1>12. sess[s].count[cb.kind] + svc[h].owed[cb] <= MaxCount
  BY <1>2, <1>3 DEF IInv, CountsAreBounded, Handles
<1>13. /\ c \in [Kinds -> 0 .. MaxCount]
       /\ \A k \in Kinds :
             c[k] = IF k = cb.kind THEN sess[s].count[k] + 1 ELSE sess[s].count[k]
  <2>1. sess[s].count[cb.kind] + 1 \in 0 .. MaxCount
    BY <1>1, <1>7, <1>8, <1>12, DriverAssumption
  <2> QED BY <1>7, <1>8, <2>1
<1>14. sess' = [sess EXCEPT ![s] = r]
  BY <1>4
<1> HIDE DEF c
<1>15. /\ r \in Sessions /\ r.home = sess[s].home /\ r.long = sess[s].long
       /\ r.handle = sess[s].handle /\ r.selobj = sess[s].selobj /\ r.cbs = sess[s].cbs
       /\ r.flags = sess[s].flags /\ r.inv = sess[s].inv /\ r.count = c
  BY <1>8, <1>13 DEF Sessions
<1> HIDE DEF r
<1>16. /\ sess' \in [Ids -> Sessions] /\ sess'[s] = r
       /\ \A u \in Ids : u # s => sess'[u] = sess[u]
  BY <1>3, <1>14, <1>15, SessionStep DEF IInv
<1>17. Delivers(s, cb)
  BY <1>3, <1>11, <1>13, <1>15, <1>16 DEF Delivers, n
<1> QED BY <1>1, <1>2, <1>3, <1>4, <1>6, <1>11, <1>16, <1>17

LEMMA TakeOneStep ==
    ASSUME IInv, TestCases, NEW t \in daemon, TakeOne(t)
    PROVE  IInv'
<1>1. /\ UNCHANGED <<daemon, nextId, ended>>
      /\ th' \in [Threads -> ThreadRecs]
      /\ \A x \in Threads : th'[x].h = th[x].h
      /\ sess' \in [Ids -> Sessions]
      /\ svc' \in [Handles -> HandleRecs]
  BY TakeOneDelivers
<1>2. PICK s \in Ids, cb \in Callbacks :
         /\ sess[s].handle \in Handles /\ svc[sess[s].handle].owed[cb] > 0
         /\ Delivers(s, cb)
  BY TakeOneDelivers
<1>3. \A u \in Ids : sess'[u].handle = sess[u].handle /\ sess'[u].inv = sess[u].inv
  BY <1>2 DEF Delivers
<1>4. \A u \in Ids : sess[u].handle # 0 =>
         /\ sess[u].handle \in Handles
         /\ \A b \in Callbacks : /\ svc[sess[u].handle].owed[b] \in Nat
                                 /\ sess[u].count[b.kind] \in Nat
  BY Parts, CallbackKinds DEF IInv
<1>5. \A g \in Handles : /\ svc'[g].st = svc[g].st /\ svc'[g].changes = svc[g].changes
                         /\ \A b \in Callbacks : svc'[g].owed[b] > 0 => svc[g].owed[b] > 0
  <2>1. \A g \in Handles, b \in Callbacks : svc[g].owed[b] \in Nat
    BY Parts DEF IInv
  <2> QED BY <1>2, <2>1 DEF Delivers
<1>6. TypeOK' /\ NoAbort'
  BY <1>1 DEF IInv, TypeOK, ServiceTypeOK, NoAbort
<1>7. IdsAreFresh'
  <2>1. sess[s].handle # 0
    BY <1>2 DEF Handles
  <2>2. sess[s].home # "none" /\ s < nextId
    BY <2>1, HolderIsPresent, VisibleIsPresent, PresentIsVisible
  <2>3. \A u \in Ids : sess'[u].home = sess[u].home
    BY <1>2 DEF Delivers
  <2>4. \A u \in Ids : u # s => sess'[u] = sess[u]
    BY <1>2 DEF Delivers
  <2> QED BY <1>1, <2>2, <2>3, <2>4 DEF IInv, IdsAreFresh, TypeOK, Ids
<1>8. /\ OneHome' /\ LongFirst' /\ HandlesAreOwned' /\ NoHandleIsLost'
      /\ SelobjIsHandle' /\ InHand'
  BY <1>1, <1>2, <1>5, LinksStep DEF Delivers
<1>9. InvocationTells'
  BY <1>3, <1>4, <1>5, CallbackKinds DEF IInv, InvocationTells
<1>10. FirstTracks'
  <2>1. \A u \in Ids : /\ sess'[u].home = sess[u].home /\ sess'[u].long = sess[u].long
                       /\ sess'[u].cbs = sess[u].cbs
    BY <1>2 DEF Delivers
  <2> QED BY <1>1, <1>3, <1>4, <1>5, <2>1, CallbackKinds DEF IInv, FirstTracks,
             SingleThreaded
<1>11. CountsAreBounded'
  <2> SUFFICES ASSUME NEW u \in Ids, sess[u].handle # 0, NEW b \in Callbacks
               PROVE  sess'[u].count[b.kind] + svc'[sess[u].handle].owed[b] <= MaxCount
    BY <1>3 DEF CountsAreBounded
  <2>1. sess[u].count[b.kind] + svc[sess[u].handle].owed[b] <= MaxCount
    BY DEF IInv, CountsAreBounded
  <2>2. b.kind \in Kinds
    BY CallbackKinds
  <2>3. CASE u = s
    <3>1. CASE b = cb
      BY <1>2, <1>4, <2>1, <2>2, <2>3, <3>1 DEF Delivers
    <3>2. CASE b.kind # cb.kind
      BY <1>2, <1>4, <2>1, <2>2, <2>3, <3>2 DEF Delivers
    <3>3. CASE b.kind = cb.kind /\ b # cb
      <4>1. PICK i \in Invocations, j \in Invocations : b = NodeCb(i) /\ cb = NodeCb(j)
        BY <3>3, CallbackKinds DEF Kinds
      <4>2. sess[s].inv = j
        BY <1>2, <2>3, <4>1 DEF IInv, InvocationTells
      <4>3. ~(svc[sess[s].handle].owed[b] > 0)
        BY <2>3, <3>3, <4>1, <4>2 DEF IInv, InvocationTells
      <4>4. sess[s].count[cb.kind] + svc[sess[s].handle].owed[cb] <= MaxCount
        BY <2>3 DEF IInv, CountsAreBounded
      <4>5. /\ sess'[s].count[b.kind] = sess[s].count[cb.kind] + 1
            /\ svc'[sess[s].handle].owed[b] = svc[sess[s].handle].owed[b]
        BY <1>2, <2>2, <3>3 DEF Delivers
      <4> QED BY <1>2, <1>4, <2>3, <4>3, <4>4, <4>5, DriverAssumption
    <3> QED BY <3>1, <3>2, <3>3
  <2>4. CASE u # s
    <3>1. sess[u].handle # sess[s].handle
      BY <2>4 DEF IInv, HandlesAreOwned
    <3> QED BY <1>2, <1>4, <2>1, <2>2, <2>4, <3>1 DEF Delivers
  <2> QED BY <2>3, <2>4
<1> QED BY <1>6, <1>7, <1>8, <1>9, <1>10, <1>11 DEF IInv

LEMMA RequestStep ==
    ASSUME IInv, TestCases, NEW t \in daemon, Request(t)
    PROVE  IInv'
<1>1. CASE CreateSession(t)
  BY <1>1, CreateSessionStep
<1>2. CASE Read(t)
  BY <1>2, ReadStep
<1>3. ASSUME NEW s \in Ids, DeleteSession(t, s) PROVE IInv'
  BY <1>3, DeleteSessionStep
<1>4. ASSUME NEW s \in Visible(t), Initialize(t, s) PROVE IInv'
  BY <1>4, InitializeStep
<1>5. ASSUME NEW s \in Visible(t), SelectionObjectGet(t, s) PROVE IInv'
  BY <1>5, SelectionObjectGetStep
<1>6. ASSUME NEW s \in Visible(t), Dispatch(t, s) PROVE IInv'
  BY <1>6, DispatchStep
<1>7. ASSUME NEW s \in Visible(t), Finalize(t, s) PROVE IInv'
  BY <1>7, FinalizeStep
<1>8. ASSUME NEW s \in Visible(t), ClusterNodeGet(t, s) PROVE IInv'
  BY <1>8, ClusterNodeGetStep
<1>9. ASSUME NEW s \in Visible(t), ClusterNodeGetAsync(t, s) PROVE IInv'
  BY <1>9, ClusterNodeGetAsyncStep
<1>10. ASSUME NEW s \in Visible(t), ResetCount(t, s) PROVE IInv'
  BY <1>10, ResetCountStep
<1>11. ASSUME NEW s \in Visible(t), ClusterTrack(t, s) PROVE IInv'
  BY <1>11, ClusterTrackStep
<1>12. ASSUME NEW s \in Visible(t), ClusterTrackStop(t, s) PROVE IInv'
  BY <1>12, ClusterTrackStopStep
<1> QED
  BY <1>1, <1>2, <1>3, <1>4, <1>5, <1>6, <1>7, <1>8, <1>9, <1>10, <1>11, <1>12
     DEF Request

LEMMA LoopStep ==
    ASSUME IInv, TestCases, NEW t \in daemon, Loop(t)
    PROVE  IInv'
<1>1. CASE Select(t)
  BY <1>1, SelectStep
<1>2. CASE EndServe(t)
  BY <1>2, EndServeStep
<1>3. CASE Check(t)
  BY <1>3, CheckStep
<1>4. CASE TakeOne(t)
  BY <1>4, TakeOneStep
<1>5. CASE DispatchReturn(t)
  BY <1>5, DispatchReturnStep
<1> QED BY <1>1, <1>2, <1>3, <1>4, <1>5 DEF Loop

\* The invariant holds initially and is kept by every step.
LEMMA Invariance ==
    ASSUME TestCases
    PROVE  IInv /\ [Next]_vars => IInv'
<1> SUFFICES ASSUME IInv, [Next]_vars PROVE IInv'
  OBVIOUS
<1>1. CASE UNCHANGED vars
  <2>1. UNCHANGED <<daemon, sess, nextId, ended, svc, th>>
    BY <1>1 DEF vars
  <2>2. th' \in [Threads -> ThreadRecs] /\ \A x \in Threads : th'[x].h = th[x].h
    BY <2>1 DEF IInv, TypeOK
  <2> QED BY <2>1, <2>2, OrdinaryStep
<1>2. ASSUME NEW t \in daemon, Request(t) PROVE IInv'
  BY <1>2, RequestStep
<1>3. ASSUME NEW t \in daemon, Loop(t) PROVE IInv'
  BY <1>3, LoopStep
<1>4. CASE Change
  BY <1>4, ChangeStep
<1> QED BY <1>1, <1>2, <1>3, <1>4 DEF Next

LEMMA InitIInv == Init => IInv
<1> SUFFICES ASSUME Init PROVE IInv
  OBVIOUS
<1>1. \A s \in Ids : sess[s] = NewSession
  BY DEF Init
<1>2. /\ UnusedHandle \in HandleRecs /\ UnusedHandle.st = "unused"
  BY DEF UnusedHandle, HandleRecs
<1>3. \A h \in Handles : svc[h] = UnusedHandle
  BY DEF Init, ServiceInit
<1>4. IdleThread \in ThreadRecs /\ IdleThread.h = 0
  BY DriverAssumption DEF IdleThread, ThreadRecs, Flags
<1>5. TypeOK
  <2>1. ServiceTypeOK
    BY <1>2 DEF Init, ServiceInit, ServiceTypeOK
  <2>2. nextId \in 1 .. MaxSessions + 1
    BY DriverAssumption DEF Init
  <2>3. sess \in [Ids -> Sessions] /\ th \in [Threads -> ThreadRecs]
    BY <1>4, NewSessionIsEmpty DEF Init
  <2> QED BY <2>1, <2>2, <2>3 DEF Init, TypeOK, Ends
<1>6. IdsAreFresh /\ OneHome /\ LongFirst
  BY <1>1, NewSessionIsEmpty DEF IdsAreFresh, OneHome, LongFirst
<1>7. HandlesAreOwned /\ SelobjIsHandle /\ InvocationTells /\ FirstTracks /\ CountsAreBounded
  BY <1>1, NewSessionIsEmpty DEF HandlesAreOwned, SelobjIsHandle, InvocationTells,
     FirstTracks, CountsAreBounded
<1>8. NoHandleIsLost
  BY <1>2, <1>3 DEF NoHandleIsLost
<1>9. InHand
  BY <1>4 DEF InHand, Init
<1> QED BY <1>5, <1>6, <1>7, <1>8, <1>9 DEF IInv, NoAbort, Init

LEMMA IInvHolds ==
    ASSUME TestCases
    PROVE  Spec => []IInv
BY InitIInv, Invariance, PTL DEF Spec

\* Sessions, handles and threads hold what their types allow, and no count exceeds
\* its bound (clm_driver.c:24-67).
THEOREM ClmTypes ==
    ASSUME TestCases
    PROVE  Spec => []TypeOK
<1>1. IInv => TypeOK
  BY DEF IInv
<1> QED BY <1>1, IInvHolds, PTL

\* Requests the test cases make end the daemon in none of its assertions, aborts and
\* exits, however late the answers to earlier ones come (clm_driver.c:217, 248, 521, 696,
\* 1091, 1098).
THEOREM ClmLives ==
    ASSUME TestCases
    PROVE  Spec => []NoAbort
<1>1. IInv => NoAbort
  BY DEF IInv
<1> QED BY <1>1, IInvHolds, PTL

-----------------------------------------------------------------------------
\* A step that delivers no callback raises no count, and takes nothing away from
\* what the library owes to a session that keeps its handle.
Quiet ==
    \A s \in Ids :
        /\ \A k \in Kinds : sess'[s].count[k] <= sess[s].count[k]
        /\ sess'[s].handle = sess[s].handle =>
              \A cb \in Callbacks :
                  Owed(sess[s].handle, cb) <= Owed(sess[s].handle, cb)'

\* Steps that change no count and forget nothing owed.
LEMMA StillIsQuiet ==
    ASSUME IInv, UNCHANGED <<sess, svc>>
    PROVE  Quiet
<1>1. \A s \in Ids, k \in Kinds : sess[s].count[k] \in Nat
  BY Parts DEF IInv
<1>2. \A h \in Handles, cb \in Callbacks : svc[h].owed[cb] \in Nat
  BY Parts DEF IInv
<1> QED BY <1>1, <1>2 DEF Quiet, Owed

LEMMA MoreOwedIsQuiet ==
    ASSUME IInv,
           \A s \in Ids : sess'[s].handle = sess[s].handle /\ sess'[s].count = sess[s].count,
           \A h \in Handles, cb \in Callbacks : svc[h].owed[cb] <= svc'[h].owed[cb]
    PROVE  Quiet
<1>1. \A s \in Ids, k \in Kinds : sess[s].count[k] \in Nat
  BY Parts DEF IInv
<1> QED BY <1>1 DEF Quiet, Owed

LEMMA CreateSessionIsQuiet ==
    ASSUME IInv, TestCases, NEW t \in daemon, CreateSession(t)
    PROVE  Quiet
<1>1. \A s \in Ids, k \in Kinds : sess[s].count[k] \in Nat
  BY Parts DEF IInv
<1>2. \A h \in Handles, cb \in Callbacks : svc[h].owed[cb] \in Nat
  BY Parts DEF IInv
<1>3. PICK where \in {"global", t}, long \in BOOLEAN :
         sess' = [sess EXCEPT ![nextId] = [NewSession EXCEPT !.home = where, !.long = long]]
  BY DEF CreateSession
<1>4. svc' = svc /\ nextId \in Ids
  BY DEF CreateSession
<1> DEFINE r == [NewSession EXCEPT !.home = where, !.long = long]
<1>5. r.count = sess[nextId].count /\ r.handle = sess[nextId].handle
  BY <1>4, NewSessionIsEmpty DEF IInv, IdsAreFresh, Ids, Sessions
<1>6. sess' = [sess EXCEPT ![nextId] = r]
  BY <1>3
<1> HIDE DEF r
<1>7. \A s \in Ids : sess'[s].count = sess[s].count /\ sess'[s].handle = sess[s].handle
  BY <1>4, <1>5, <1>6
<1> QED BY <1>1, <1>2, <1>4, <1>7 DEF Quiet, Owed

LEMMA DeleteSessionIsQuiet ==
    ASSUME IInv, TestCases, NEW t \in daemon, NEW s \in Ids, DeleteSession(t, s)
    PROVE  Quiet
<1>1. \A u \in Ids, k \in Kinds : sess[u].count[k] \in Nat
  BY Parts DEF IInv
<1>2. \A h \in Handles, cb \in Callbacks : svc[h].owed[cb] \in Nat
  BY Parts DEF IInv
<1>3. svc' = svc /\ sess' = [sess EXCEPT ![s] = NewSession]
  BY DEF DeleteSession, TestCases
<1>4. \A u \in Ids : sess'[u] = IF u = s THEN NewSession ELSE sess[u]
  BY <1>3 DEF IInv, TypeOK
<1> QED BY <1>1, <1>2, <1>3, <1>4, NewSessionIsEmpty DEF Quiet, Owed

LEMMA InitializeIsQuiet ==
    ASSUME IInv, TestCases, NEW t \in daemon, NEW s \in Visible(t), Initialize(t, s)
    PROVE  Quiet
<1>1. \A u \in Ids, k \in Kinds : sess[u].count[k] \in Nat
  BY Parts DEF IInv
<1>2. \A h \in Handles, cb \in Callbacks : svc[h].owed[cb] \in Nat
  BY Parts DEF IInv
<1>3. s \in Ids /\ sess[s] \in Sessions
  BY VisibleIsPresent, Parts DEF IInv
<1>4. PICK f \in DispatchFlags, cbs \in SUBSET Kinds :
         /\ MayInitialize(s, f, cbs)
         /\ \/ \E h \in Handles :
                 /\ saClmInitialize(h, cbs)
                 /\ sess' = [sess EXCEPT ![s].handle = h, ![s].flags = f, ![s].cbs = cbs]
            \/ Refused /\ sess' = [sess EXCEPT ![s].flags = f, ![s].cbs = cbs]
  BY DEF Initialize
<1>5. CASE Refused /\ sess' = [sess EXCEPT ![s].flags = f, ![s].cbs = cbs]
  <2>1. \A u \in Ids : sess'[u].count = sess[u].count /\ sess'[u].handle = sess[u].handle
    BY <1>3, <1>5 DEF IInv, TypeOK, Sessions
  <2>2. svc' = svc
    BY <1>5 DEF Refused
  <2> QED BY <1>2, <2>1, <2>2, MoreOwedIsQuiet
<1>6. ASSUME NEW h \in Handles, saClmInitialize(h, cbs),
             sess' = [sess EXCEPT ![s].handle = h, ![s].flags = f, ![s].cbs = cbs]
      PROVE  Quiet
  <2>1. \A u \in Ids : /\ sess'[u].count = sess[u].count
                       /\ u # s => sess'[u].handle = sess[u].handle
                       /\ u = s => sess'[u].handle = h
    BY <1>3, <1>6 DEF IInv, TypeOK, Sessions
  <2>2. sess[s].handle # h
    <3>1. sess[s].handle = 0
      BY <1>4 DEF MayInitialize, TestCases
    <3> QED BY <3>1 DEF Handles
  <2>3. \A u \in Ids : sess[u].handle # h
    BY <1>6 DEF saClmInitialize, IInv, HandlesAreOwned, Handles
  <2>4. \A g \in Handles : g # h => svc'[g] = svc[g]
    BY <1>6 DEF saClmInitialize, IInv, TypeOK, ServiceTypeOK
  <2> QED BY <1>1, <1>2, <2>1, <2>2, <2>3, <2>4 DEF Quiet, Owed
<1> QED BY <1>4, <1>5, <1>6

LEMMA SelectionObjectGetIsQuiet ==
    ASSUME IInv, NEW t \in daemon, NEW s \in Visible(t), SelectionObjectGet(t, s)
    PROVE  Quiet
<1>1. \A u \in Ids, k \in Kinds : sess[u].count[k] \in Nat
  BY Parts DEF IInv
<1>2. \A h \in Handles, cb \in Callbacks : svc[h].owed[cb] \in Nat
  BY Parts DEF IInv
<1>3. s \in Ids /\ sess[s] \in Sessions
  BY VisibleIsPresent, Parts DEF IInv
<1>4. \A u \in Ids : sess'[u].count = sess[u].count /\ sess'[u].handle = sess[u].handle
  BY <1>3 DEF SelectionObjectGet, IInv, TypeOK, Sessions
<1>5. svc' = svc
  BY DEF SelectionObjectGet
<1> QED BY <1>1, <1>2, <1>4, <1>5 DEF Quiet, Owed

LEMMA FinalizeIsQuiet ==
    ASSUME IInv, TestCases, NEW t \in daemon, NEW s \in Visible(t), Finalize(t, s)
    PROVE  Quiet
<1>1. \A u \in Ids, k \in Kinds : sess[u].count[k] \in Nat
  BY Parts DEF IInv
<1>2. \A h \in Handles, cb \in Callbacks : svc[h].owed[cb] \in Nat
  BY Parts DEF IInv
<1>3. s \in Ids /\ sess[s] \in Sessions
  BY VisibleIsPresent, Parts DEF IInv
<1>4. \A u \in Ids : /\ sess'[u].count = sess[u].count
                     /\ sess'[u].handle = IF u = s THEN 0 ELSE sess[u].handle
  BY <1>3 DEF Finalize, IInv, TypeOK, Sessions
<1>5. CASE Refused
  BY <1>1, <1>2, <1>4, <1>5 DEF Quiet, Owed, Refused, Handles
<1>6. CASE saClmFinalize(sess[s].handle)
  <2>1. sess[s].handle # 0 /\ \A g \in Handles : g # sess[s].handle => svc'[g] = svc[g]
    BY <1>6 DEF saClmFinalize, Live, IInv, TypeOK, ServiceTypeOK, Handles
  <2>2. \A u \in Ids : u # s => sess[u].handle # sess[s].handle
    BY <1>3, <2>1 DEF IInv, HandlesAreOwned
  <2> QED BY <1>1, <1>2, <1>4, <2>1, <2>2 DEF Quiet, Owed
<1> QED BY <1>5, <1>6 DEF Finalize

LEMMA ClusterNodeGetAsyncIsQuiet ==
    ASSUME IInv, NEW t \in daemon, NEW s \in Visible(t), ClusterNodeGetAsync(t, s)
    PROVE  Quiet
<1>1. \A h \in Handles : svc[h].owed \in [Callbacks -> Nat] /\ svc[h] \in HandleRecs
  BY Parts DEF IInv
<1>2. s \in Ids /\ sess[s] \in Sessions
  BY VisibleIsPresent, Parts DEF IInv
<1>3. PICK i \in Invocations :
         /\ sess' = [sess EXCEPT ![s].inv = i]
         /\ saClmClusterNodeGetAsync(sess[s].handle, i) \/ Refused
  BY DEF ClusterNodeGetAsync
<1>4. \A u \in Ids : sess'[u].count = sess[u].count /\ sess'[u].handle = sess[u].handle
  BY <1>2, <1>3
<1>5. CASE Refused
  BY <1>1, <1>4, <1>5, MoreOwedIsQuiet DEF Refused
<1>6. CASE saClmClusterNodeGetAsync(sess[s].handle, i)
  <2> DEFINE h == sess[s].handle
             n == svc[h].owed[NodeCb(i)] + 1
  <2>1. h \in Handles /\ NodeCb(i) \in Callbacks
    BY <1>6, CallbackKinds DEF saClmClusterNodeGetAsync, Live
  <2>2. svc[h].owed[NodeCb(i)] \in Nat
    BY <1>1, <2>1
  <2>3. n \in Nat /\ svc[h].owed[NodeCb(i)] <= n
    BY <2>2
  <2>4. Owes(h, NodeCb(i), n)
    BY <1>6 DEF saClmClusterNodeGetAsync, Owes
  <2> HIDE DEF n
  <2>5. /\ \A g \in Handles : g # h => svc'[g] = svc[g]
        /\ \A b \in Callbacks :
              svc'[h].owed[b] = IF b = NodeCb(i) THEN n ELSE svc[h].owed[b]
    BY <2>1, <2>3, <2>4, OwedStep DEF IInv
  <2>6. \A g \in Handles, b \in Callbacks : svc[g].owed[b] <= svc'[g].owed[b]
    BY <1>1, <2>3, <2>5
  <2> QED BY <1>4, <2>6, MoreOwedIsQuiet
<1> QED BY <1>3, <1>5, <1>6

LEMMA ClusterTrackIsQuiet ==
    ASSUME IInv, NEW t \in daemon, NEW s \in Visible(t), ClusterTrack(t, s)
    PROVE  Quiet
<1>1. \A h \in Handles : svc[h].owed \in [Callbacks -> Nat] /\ svc[h] \in HandleRecs
  BY Parts DEF IInv
<1>2. sess' = sess
  BY DEF ClusterTrack
<1>3. CASE Refused
  BY <1>1, <1>2, <1>3, MoreOwedIsQuiet DEF Refused
<1>4. ASSUME NEW flags, NEW buffer, saClmClusterTrack(sess[s].handle, flags, buffer)
      PROVE  Quiet
  <2> DEFINE h == sess[s].handle
             calls == "CURRENT" \in flags /\ ~buffer
             n == IF calls THEN svc[h].owed[TrackCb] + 1 ELSE svc[h].owed[TrackCb]
             o == [svc[h].owed EXCEPT ![TrackCb] = n]
             subscribes == flags \cap {"CHANGES", "CHANGES_ONLY"} # {}
             r == [svc[h] EXCEPT !.owed = o, !.changes = @ \/ subscribes]
  <2>1. h \in Handles /\ svc' = [svc EXCEPT ![h] = r]
    BY <1>4 DEF saClmClusterTrack, Live
  <2>2. svc[h].owed[TrackCb] \in Nat
    BY <1>1, <2>1, CallbackKinds
  <2>3. svc[h].owed[TrackCb] <= n
    BY <2>2
  <2> HIDE DEF n, calls, subscribes
  <2>4. \A b \in Callbacks : svc[h].owed[b] <= o[b]
    BY <1>1, <2>1, <2>3, CallbackKinds
  <2> HIDE DEF o
  <2>5. r.owed = o
    BY <1>1, <2>1
  <2> HIDE DEF r
  <2>6. \A g \in Handles : svc'[g].owed = IF g = h THEN o ELSE svc[g].owed
    BY <2>1, <2>5 DEF IInv, TypeOK, ServiceTypeOK
  <2>7. \A g \in Handles, b \in Callbacks : svc[g].owed[b] <= svc'[g].owed[b]
    BY <1>1, <2>4, <2>6
  <2> QED BY <1>2, <2>7, MoreOwedIsQuiet
<1> QED BY <1>3, <1>4 DEF ClusterTrack

LEMMA ClusterTrackStopIsQuiet ==
    ASSUME IInv, NEW t \in daemon, NEW s \in Visible(t), ClusterTrackStop(t, s)
    PROVE  Quiet
<1>1. \A h \in Handles : svc[h].owed \in [Callbacks -> Nat] /\ svc[h] \in HandleRecs
  BY Parts DEF IInv
<1>2. sess' = sess
  BY DEF ClusterTrackStop
<1>3. \A h \in Handles : svc'[h].owed = svc[h].owed
  BY <1>1 DEF ClusterTrackStop, saClmClusterTrackStop, Refused, Live, HandleRecs, IInv,
     TypeOK, ServiceTypeOK
<1> QED BY <1>1, <1>2, <1>3, MoreOwedIsQuiet

LEMMA ResetCountIsQuiet ==
    ASSUME IInv, NEW t \in daemon, NEW s \in Visible(t), ResetCount(t, s)
    PROVE  Quiet
<1>1. \A u \in Ids : sess[u].count \in [Kinds -> 0 .. MaxCount]
  BY Parts DEF IInv
<1>2. \A h \in Handles, cb \in Callbacks : svc[h].owed[cb] \in Nat
  BY Parts DEF IInv
<1>3. s \in Ids /\ sess[s] \in Sessions
  BY VisibleIsPresent, Parts DEF IInv
<1>4. PICK k \in Kinds : sess' = [sess EXCEPT ![s].count[k] = 0]
  BY DEF ResetCount
<1> DEFINE c == [sess[s].count EXCEPT ![k] = 0]
           r == [sess[s] EXCEPT !.count = c]
<1>5. \A j \in Kinds : c[j] <= sess[s].count[j]
  BY <1>1, <1>3
<1>6. sess' = [sess EXCEPT ![s] = r]
  BY <1>4
<1> HIDE DEF c
<1>7. r.count = c /\ r.handle = sess[s].handle
  BY <1>3
<1> HIDE DEF r
<1>8. \A u \in Ids : sess'[u] = IF u = s THEN r ELSE sess[u]
  BY <1>3, <1>6 DEF IInv, TypeOK
<1>9. svc' = svc
  BY DEF ResetCount
<1> QED BY <1>1, <1>2, <1>5, <1>7, <1>8, <1>9 DEF Quiet, Owed

LEMMA ChangeIsQuiet ==
    ASSUME IInv, Change
    PROVE  Quiet
<1>1. \A h \in Handles : svc[h].owed \in [Callbacks -> Nat] /\ svc[h] \in HandleRecs
  BY Parts DEF IInv
<1>2. sess' = sess
  BY DEF Change
<1>3. ASSUME NEW h \in Handles, NEW cb \in Callbacks
      PROVE  svc[h].owed[cb] <= svc'[h].owed[cb]
  <2>1. svc'[h] = IF svc[h].changes THEN [svc[h] EXCEPT !.owed[TrackCb] = @ + 1] ELSE svc[h]
    BY DEF Change, ClusterChange
  <2> DEFINE o == [svc[h].owed EXCEPT ![TrackCb] = @ + 1]
  <2>2. svc[h].owed[cb] <= o[cb]
    BY <1>1, CallbackKinds
  <2>3. svc'[h] = IF svc[h].changes THEN [svc[h] EXCEPT !.owed = o] ELSE svc[h]
    BY <2>1
  <2> HIDE DEF o
  <2>4. svc'[h].owed = IF svc[h].changes THEN o ELSE svc[h].owed
    BY <1>1, <2>3
  <2> QED BY <1>1, <2>2, <2>4
<1> QED BY <1>2, <1>3, MoreOwedIsQuiet

\* A quiet step counts nothing and delivers nothing; a delivery does both, once.
LEMMA QuietCountsNothing ==
    ASSUME IInv, TypeOK', Quiet, NEW kind \in Kinds
    PROVE  CountedOnAsker(kind)
<1> SUFFICES ASSUME NEW s \in Ids
             PROVE  IF sess'[s].handle = sess[s].handle
                    THEN sess'[s].count[kind] = sess[s].count[kind] + 1 <=>
                            \E cb \in Callbacks :
                                /\ cb.kind = kind
                                /\ Owed(sess[s].handle, cb) = Owed(sess[s].handle, cb)' + 1
                    ELSE sess'[s].count[kind] <= sess[s].count[kind]
  BY DEF CountedOnAsker
<1>1. sess[s].count[kind] \in Nat /\ sess'[s].count[kind] <= sess[s].count[kind]
  BY Parts DEF IInv, Quiet
<1>2. sess'[s].count[kind] # sess[s].count[kind] + 1
  BY <1>1
<1>3. ASSUME sess'[s].handle = sess[s].handle, NEW cb \in Callbacks,
             Owed(sess[s].handle, cb) = Owed(sess[s].handle, cb)' + 1
      PROVE  FALSE
  <2>1. Owed(sess[s].handle, cb) <= Owed(sess[s].handle, cb)'
    BY <1>3 DEF Quiet
  <2>2. svc' \in [Handles -> HandleRecs]
    BY DEF TypeOK, ServiceTypeOK
  <2>3. \A h \in Handles : svc'[h].owed[cb] \in Nat
    BY <2>2 DEF HandleRecs
  <2>4. Owed(sess[s].handle, cb)' \in Nat
    BY <1>3, <2>3 DEF Owed
  <2> QED BY <1>3, <2>1, <2>4
<1> QED BY <1>1, <1>2, <1>3

LEMMA DeliveryIsCounted ==
    ASSUME IInv, TestCases, NEW t \in daemon, TakeOne(t), NEW kind \in Kinds
    PROVE  CountedOnAsker(kind)
<1>1. PICK s \in Ids, cb \in Callbacks :
         /\ sess[s].handle \in Handles /\ svc[sess[s].handle].owed[cb] > 0
         /\ Delivers(s, cb)
  BY TakeOneDelivers
<1> SUFFICES ASSUME NEW u \in Ids
             PROVE  sess'[u].count[kind] = sess[u].count[kind] + 1 <=>
                        \E b \in Callbacks :
                            /\ b.kind = kind
                            /\ Owed(sess[u].handle, b) = Owed(sess[u].handle, b)' + 1
  BY <1>1 DEF CountedOnAsker, Delivers
<1>2. sess'[u].handle = sess[u].handle
  BY <1>1 DEF Delivers
<1>3. sess[u].count[kind] \in Nat
  BY Parts DEF IInv
<1>4. \A g \in Handles, b \in Callbacks : svc[g].owed[b] \in Nat
  BY Parts DEF IInv
<1>5. sess'[u].count[kind] = sess[u].count[kind] + 1 <=> u = s /\ kind = cb.kind
  BY <1>1, <1>3 DEF Delivers
<1>6. ASSUME NEW b \in Callbacks
      PROVE  Owed(sess[u].handle, b) = Owed(sess[u].handle, b)' + 1 <=> u = s /\ b = cb
  <2>1. CASE sess[u].handle \in Handles
    <3>1. /\ Owed(sess[u].handle, b) = svc[sess[u].handle].owed[b]
          /\ Owed(sess[u].handle, b)' = svc'[sess[u].handle].owed[b]
      BY <1>2, <2>1 DEF Owed
    <3>2. sess[u].handle = sess[s].handle => u = s
      BY <2>1 DEF IInv, HandlesAreOwned, Handles
    <3>3. svc'[sess[u].handle].owed[b] = IF sess[u].handle = sess[s].handle /\ b = cb
                                         THEN svc[sess[u].handle].owed[b] - 1
                                         ELSE svc[sess[u].handle].owed[b]
      BY <1>1, <2>1 DEF Delivers
    <3> QED BY <1>4, <2>1, <3>1, <3>2, <3>3
  <2>2. CASE sess[u].handle \notin Handles
    BY <1>1, <1>2, <2>2 DEF Owed
  <2> QED BY <2>1, <2>2
<1> QED BY <1>5, <1>6

LEMMA StepsCount ==
    ASSUME TestCases, NEW kind \in Kinds
    PROVE  IInv /\ [Next]_vars => [CountedOnAsker(kind)]_vars
<1> SUFFICES ASSUME IInv, Next, TypeOK' PROVE CountedOnAsker(kind)
  BY Invariance DEF IInv
<1>1. ASSUME NEW t \in daemon, Request(t) PROVE Quiet
  <2>1. CASE CreateSession(t)
    BY <2>1, CreateSessionIsQuiet
  <2>2. CASE Read(t)
    BY <2>2, StillIsQuiet DEF Read
  <2>3. ASSUME NEW s \in Ids, DeleteSession(t, s) PROVE Quiet
    BY <2>3, DeleteSessionIsQuiet
  <2>4. ASSUME NEW s \in Visible(t), Initialize(t, s) PROVE Quiet
    BY <2>4, InitializeIsQuiet
  <2>5. ASSUME NEW s \in Visible(t), SelectionObjectGet(t, s) PROVE Quiet
    BY <2>5, SelectionObjectGetIsQuiet
  <2>6. ASSUME NEW s \in Visible(t), Dispatch(t, s) PROVE Quiet
    BY <2>6, DispatchStep, StillIsQuiet
  <2>7. ASSUME NEW s \in Visible(t), Finalize(t, s) PROVE Quiet
    BY <2>7, FinalizeIsQuiet
  <2>8. ASSUME NEW s \in Visible(t), ClusterNodeGet(t, s) PROVE Quiet
    BY <2>8, ClusterNodeGetStep, StillIsQuiet
  <2>9. ASSUME NEW s \in Visible(t), ClusterNodeGetAsync(t, s) PROVE Quiet
    BY <2>9, ClusterNodeGetAsyncIsQuiet
  <2>10. ASSUME NEW s \in Visible(t), ResetCount(t, s) PROVE Quiet
    BY <2>10, ResetCountIsQuiet
  <2>11. ASSUME NEW s \in Visible(t), ClusterTrack(t, s) PROVE Quiet
    BY <2>11, ClusterTrackIsQuiet
  <2>12. ASSUME NEW s \in Visible(t), ClusterTrackStop(t, s) PROVE Quiet
    BY <2>12, ClusterTrackStopIsQuiet
  <2> QED
    BY <1>1, <2>1, <2>2, <2>3, <2>4, <2>5, <2>6, <2>7, <2>8, <2>9, <2>10, <2>11,
       <2>12 DEF Request
<1>2. ASSUME NEW t \in daemon, Loop(t), ~TakeOne(t) PROVE Quiet
  <2>1. CASE Select(t) \/ EndServe(t) \/ DispatchReturn(t)
    BY <2>1, StillIsQuiet DEF Select, EndServe, DispatchReturn
  <2>2. CASE Check(t)
    BY <2>2, CheckStep, StillIsQuiet
  <2> QED BY <1>2, <2>1, <2>2 DEF Loop
<1>3. ASSUME Change PROVE Quiet
  BY <1>3, ChangeIsQuiet
<1>4. ASSUME NEW t \in daemon, TakeOne(t) PROVE CountedOnAsker(kind)
  BY <1>4, DeliveryIsCounted
<1> QED BY <1>1, <1>2, <1>3, <1>4, QuietCountsNothing DEF Next

\* Every answer to an asynchronous node request is counted once, on the session that
\* asked, whichever thread delivers it (clm_driver.c:402-429).
THEOREM NodeAnswers ==
    ASSUME TestCases
    PROVE  Spec => NodeAnswersAreCounted
<1>1. IInv /\ [Next]_vars => [CountedOnAsker("node")]_vars
  BY StepsCount DEF Kinds
<1> QED BY <1>1, IInvHolds, PTL DEF Spec, NodeAnswersAreCounted

\* Every track callback is counted once, on the session that tracks, although the
\* driver picks the first long-lived session with a track callback (clm_driver.c:440-449).
THEOREM TrackCallbacks ==
    ASSUME TestCases
    PROVE  Spec => TrackCallbacksAreCounted
<1>1. IInv /\ [Next]_vars => [CountedOnAsker("track")]_vars
  BY StepsCount DEF Kinds
<1> QED BY <1>1, IInvHolds, PTL DEF Spec, TrackCallbacksAreCounted
=============================================================================
