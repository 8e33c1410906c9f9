------------------------------- MODULE ClmDriver -------------------------------
(***************************************************************************)
(* The CLM library of one saf_driver daemon                                *)
(* (src/trunk/cases/clm/driver/clm_driver.c).  Its sessions, request       *)
(* handlers and part of the select loop have the plan of the LCK library's *)
(* (module LckDriver).  What it has of its own is how a callback finds the *)
(* session it is counted on: by invocation if it is the answer to a node   *)
(* request, and by convention if it is about the cluster, for then it says *)
(* nothing of whom it is meant for.                                        *)
(*                                                                         *)
(* A thread's pass is select -> serve -> check, as in LckDriver.  A        *)
(* handler, or a callback, is one step: no call but saClmDispatch blocks.  *)
(* The XML files are left out: a callback that is counted on a session     *)
(* also writes the file its last request named.                            *)
(*                                                                         *)
(* A definition named F_Fault is F with that bug seeded in it.  No action  *)
(* uses one.                                                               *)
(***************************************************************************)
EXTENDS ClmService

CONSTANTS
    MainThread,       \* the thread main() runs on
    Daemons,          \* the sets of threads a daemon of this instance may have
    MaxSessions,      \* bound: sessions created in a run
    MaxServed,        \* bound: clients found ready by one select
    MaxCount,         \* bound: callbacks of a kind a session is asked to count
    DispatchFlags,    \* the dispatch flags clients choose from
    ThreadedTrack,    \* TRUE: clients of a daemon with several threads track, too
    Careful           \* TRUE: clients behave as the test cases do (below)

Threads == UNION Daemons

ASSUME DriverAssumption ==
    /\ \A D \in Daemons : MainThread \in D
    /\ "none" \notin Threads /\ "global" \notin Threads
    /\ MaxSessions \in Nat /\ MaxServed \in Nat /\ MaxCount \in Nat
    /\ DispatchFlags \subseteq {"NONE", "ONE", "ALL", "BLOCKING"}
    /\ ThreadedTrack \in BOOLEAN /\ Careful \in BOOLEAN

Ids   == 1 .. MaxSessions
Flags == {"NONE", "ONE", "ALL", "BLOCKING"}      \* SaDispatchFlagsT

\* clm_session_t.  "inv" is the invocation of the last asynchronous node request.
Sessions == [home   : Threads \cup {"none", "global"},  \* the list it is on
             long   : BOOLEAN,                          \* long_lived
             handle : Handles \cup {0},
             selobj : Handles \cup {0},      \* the handle whose fd it is
             flags  : Flags,
             cbs    : SUBSET Kinds,          \* clm_callbacks
             inv    : Invocations \cup {0},
             count  : [Kinds -> 0 .. MaxCount]]  \* ..._callback_count
Zero == [k \in Kinds |-> 0]
NewSession == [home |-> "none", long |-> FALSE, handle |-> 0, selobj |-> 0,
               flags |-> "NONE", cbs |-> {}, inv |-> 0, count |-> Zero]

ThreadRecs == [pc   : {"select", "serve", "check", "dispatch"},
               mask : SUBSET Handles,     \* what select() found readable
               left : 0 .. MaxServed,     \* ready clients not yet served
               todo : SUBSET Ids,         \* sessions check_fds has still to visit
               h    : Handles \cup {0},   \* the handle being dispatched
               how  : Flags,              \* with these flags; NONE: return now
               back : {"serve", "check"}] \* where saClmDispatch returns to
IdleThread == [pc |-> "select", mask |-> {}, left |-> 0, todo |-> {}, h |-> 0,
               how |-> "NONE", back |-> "serve"]

VARIABLES
    daemon,    \* the threads it has; settled when it is started
    sess,      \* [Ids -> Sessions]
    nextId,    \* next_clm_session_id
    th,        \* [Threads -> ThreadRecs]
    ended      \* "no", or the assertion, abort or exit that ended the daemon

vars == <<daemon, sess, nextId, th, ended, svc>>

Ends == {"no", "unknown session", "no long lived session",
         "not finalized", "no node", "dispatch none", "blocking in main",
         "own dispatch thread", "dispatch failed"}

\* Type invariant: what a session, a thread and the library can hold, and that no
\* count passes what was asked for (clm_driver.c:25-52, 118-127).
TypeOK ==
    /\ ServiceTypeOK
    /\ daemon \in Daemons
    /\ sess \in [Ids -> Sessions]
    /\ nextId \in 1 .. MaxSessions + 1
    /\ th \in [Threads -> ThreadRecs]
    /\ ended \in Ends

Init ==
    /\ ServiceInit
    /\ daemon \in Daemons
    /\ sess = [s \in Ids |-> NewSession]
    /\ nextId = 1
    /\ th = [t \in Threads |-> IdleThread]
    /\ ended = "no"

-----------------------------------------------------------------------------
\* Lists and lookups.  A list is ordered by session id.

FirstOf(S) == CHOOSE s \in S : \A u \in S : s <= u
On(list) == {s \in Ids : sess[s].home = list}
Visible(t) == On("global") \cup On(t)

\* A lookup that forgets the global list.
FirstSeen_OwnList(t, S) ==
    IF S \cap On(t) # {} THEN FirstOf(S \cap On(t)) ELSE 0

\* The first session of S on the global list, else on the thread's own; or 0.
FirstSeen(t, S) ==
    IF S \cap On("global") # {} THEN FirstOf(S \cap On("global"))
    ELSE IF S \cap On(t) # {} THEN FirstOf(S \cap On(t)) ELSE 0

\* Any session that has ever asked will do.
ByInvocation_AnyAsker(t, i) == FirstSeen(t, {s \in Ids : sess[s].inv # 0})

ByInvocation(t, i) == FirstSeen(t, {s \in Ids : sess[s].inv = i})

LongLivedWithTrackCallback == {s \in Ids : sess[s].long /\ "track" \in sess[s].cbs}

\* New sessions are put first on the list.
Main_Newest(t) ==
    LET S == LongLivedWithTrackCallback \cap On(t)
    IN IF S = {} THEN 0 ELSE CHOOSE s \in S : \A u \in S : u <= s

\* lookup_long_lived_clm_session_with_track_callback: it does not look at the
\* global list.
Main(t) ==
    LET S == LongLivedWithTrackCallback \cap On(t)
    IN IF S = {} THEN 0 ELSE FirstOf(S)

End(why) == ended' = why /\ UNCHANGED <<daemon, sess, nextId, th, svc>>

-----------------------------------------------------------------------------
\* How the test cases behave (CLMTestDriver.rb, cases/clm).  The framework
\* creates the long-lived sessions and initialises them before anything else: one
\* global session if the daemon has several threads, otherwise sessions of the
\* main thread.  Test cases take an invocation no other session has, or one they
\* have used on the session before; wait for the answers before they take
\* another; get no selection object for a session they dispatch themselves;
\* and track by callback on the first long-lived session only, as the comment in
\* the track callback asks of them.  Careful = FALSE lifts all of it.

SingleThreaded == daemon = {MainThread}
StartedUp == \A s \in Ids : sess[s].home # "none" => sess[s].long /\ sess[s].cbs # {}

MayCreate(t, where, long) ==
    Careful => /\ t = MainThread
               /\ (where = "global") = ~SingleThreaded
               /\ long => StartedUp
               /\ ~SingleThreaded => nextId = 1 /\ long
               /\ ~long => \E s \in Ids : sess[s].home # "none" /\ sess[s].cbs # {}
MayInitialize(s, f, cbs) ==
    Careful => /\ sess[s].handle = 0
               /\ (f = "BLOCKING") = (sess[s].home = "global")
               /\ cbs = Kinds \/ (cbs = {} /\ ~sess[s].long)
MayWatch(s) == Careful => sess[s].flags \in {"ONE", "ALL"}
MayDispatch(t, s, f) ==
    Careful => /\ (f = "BLOCKING") = (sess[s].flags = "BLOCKING")
               /\ f # "NONE" /\ (f = "BLOCKING" => t # MainThread)
MayAsk(s, i) ==
    Careful => /\ \A u \in Ids \ {s} : sess[u].inv # i
               /\ \/ sess[s].inv = i
                  \/ \A j \in Invocations : Owed(sess[s].handle, NodeCb(j)) = 0
MayTrack(t, s) ==
    Careful => /\ SingleThreaded \/ ThreadedTrack
               /\ s = FirstSeen(t, LongLivedWithTrackCallback)

\* The bound on counts: a session is asked for no more before a reset.
CanCount(s, cb) == sess[s].count[cb.kind] + Owed(sess[s].handle, cb) < MaxCount

-----------------------------------------------------------------------------
\* Request handlers.  "left" counts the ready clients, one request each.

Serving(t) == th[t].pc = "serve" /\ th[t].left > 0
Served(t) == th' = [th EXCEPT ![t].left = @ - 1]
Refused == UNCHANGED svc       \* the library call returns an error

CreateSession(t) ==
    /\ Serving(t)
    /\ nextId \in Ids
    /\ \E where \in {"global", t}, long \in BOOLEAN :
        /\ MayCreate(t, where, long)
        /\ sess' = [sess EXCEPT ![nextId] = [NewSession EXCEPT !.home = where,
                                                               !.long = long]]
    /\ nextId' = nextId + 1
    /\ Served(t)
    /\ UNCHANGED <<daemon, ended, svc>>

\* A request that names a session on neither list ends the daemon; this one
\* stands for all of them.
DeleteSession(t, s) ==
    /\ Serving(t)
    /\ Careful => s \in Visible(t) /\ sess[s].handle = 0
    /\ IF s \notin Visible(t) THEN End("unknown session")
       ELSE IF sess[s].handle # 0 THEN End("not finalized")
       ELSE /\ sess' = [sess EXCEPT ![s] = NewSession]
            /\ Served(t)
            /\ UNCHANGED <<daemon, nextId, ended, svc>>

\* The callbacks and the flags are stored whether or not the call succeeds.
Initialize(t, s) ==
    /\ Serving(t)
    /\ \E f \in DispatchFlags, cbs \in SUBSET Kinds :
        /\ MayInitialize(s, f, cbs)
        /\ \/ \E h \in Handles :
                /\ saClmInitialize(h, cbs)
                /\ sess' = [sess EXCEPT ![s].handle = h, ![s].flags = f, ![s].cbs = cbs]
           \/ /\ Refused
              /\ sess' = [sess EXCEPT ![s].flags = f, ![s].cbs = cbs]
    /\ Served(t)
    /\ UNCHANGED <<daemon, nextId, ended>>

SelectionObjectGet(t, s) ==
    /\ Serving(t)
    /\ MayWatch(s)
    /\ sess' = IF Live(sess[s].handle)
               THEN [sess EXCEPT ![s].selobj = sess[s].handle] ELSE sess
    /\ Served(t)
    /\ UNCHANGED <<daemon, nextId, ended, svc>>

\* In the blocking case no reply is sent and the thread stays in the library.
Dispatch(t, s) ==
    /\ Serving(t)
    /\ \E f \in DispatchFlags :
        /\ MayDispatch(t, s, f)
        /\ IF f = "NONE" THEN End("dispatch none")
           ELSE IF f = "BLOCKING" /\ t = MainThread THEN End("blocking in main")
           ELSE /\ th' = [th EXCEPT ![t].left = @ - 1, ![t].pc = "dispatch",
                                    ![t].h = sess[s].handle, ![t].how = f,
                                    ![t].back = "serve"]
                /\ UNCHANGED <<daemon, sess, nextId, ended, svc>>

\* The selection object is kept.
Finalize_KeepsSelobj(t, s) ==
    /\ Serving(t)
    /\ saClmFinalize(sess[s].handle)
    /\ sess' = [sess EXCEPT ![s].handle = 0]
    /\ Served(t)
    /\ UNCHANGED <<daemon, nextId, ended>>

\* The handle is forgotten whether or not the library let it go.
Finalize(t, s) ==
    /\ Serving(t)
    /\ \/ saClmFinalize(sess[s].handle)
       \/ (Careful => ~Live(sess[s].handle)) /\ Refused
    /\ sess' = [sess EXCEPT ![s].handle = 0, ![s].selobj = 0]
    /\ Served(t)
    /\ UNCHANGED <<daemon, nextId, ended>>

ClusterNodeGet(t, s) ==
    /\ Serving(t)
    /\ \E ok, file, node \in BOOLEAN :
        /\ ok => Live(sess[s].handle)
        /\ Careful => (ok /\ file => node)
        /\ IF ok /\ file /\ ~node THEN End("no node")
           ELSE Served(t) /\ UNCHANGED <<daemon, sess, nextId, ended, svc>>

\* The invocation is stored after the call, if it succeeded.
ClusterNodeGetAsync_Forgets(t, s) ==
    /\ Serving(t)
    /\ \E i \in Invocations :
        /\ MayAsk(s, i) /\ CanCount(s, NodeCb(i))
        /\ saClmClusterNodeGetAsync(sess[s].handle, i)
    /\ Served(t)
    /\ UNCHANGED <<daemon, sess, nextId, ended>>

ClusterNodeGetAsync(t, s) ==
    /\ Serving(t)
    /\ \E i \in Invocations :
        /\ MayAsk(s, i) /\ CanCount(s, NodeCb(i))
        /\ sess' = [sess EXCEPT ![s].inv = i]
        /\ saClmClusterNodeGetAsync(sess[s].handle, i) \/ Refused
    /\ Served(t)
    /\ UNCHANGED <<daemon, nextId, ended>>

\* INVALID_TRACK_FLAGS sets all bits.
ClusterTrack(t, s) ==
    /\ Serving(t)
    /\ \E flags \in SUBSET {"CURRENT", "CHANGES", "CHANGES_ONLY"}, buffer \in BOOLEAN :
        /\ buffer => "CURRENT" \in flags
        /\ \/ /\ flags # {"CURRENT"} \/ ~buffer => MayTrack(t, s)
              /\ CanCount(s, TrackCb)
              /\ saClmClusterTrack(sess[s].handle, flags, buffer)
           \/ Refused
    /\ Served(t)
    /\ UNCHANGED <<daemon, sess, nextId, ended>>

ClusterTrackStop(t, s) ==
    /\ Serving(t)
    /\ saClmClusterTrackStop(sess[s].handle) \/ Refused
    /\ Served(t)
    /\ UNCHANGED <<daemon, sess, nextId, ended>>

\* The resets of the two callback counts.
ResetCount(t, s) ==
    /\ Serving(t)
    /\ \E k \in Kinds : sess' = [sess EXCEPT ![s].count[k] = 0]
    /\ Served(t)
    /\ UNCHANGED <<daemon, nextId, ended, svc>>

\* STATUS, the two counts and the invocation are read.
Read(t) ==
    /\ Serving(t)
    /\ Served(t)
    /\ UNCHANGED <<daemon, sess, nextId, ended, svc>>

Request(t) ==
    \/ CreateSession(t) \/ Read(t)
    \/ \E s \in Ids : DeleteSession(t, s)
    \/ \E s \in Visible(t) :
        \/ Initialize(t, s) \/ SelectionObjectGet(t, s)
        \/ Dispatch(t, s) \/ Finalize(t, s)
        \/ ClusterNodeGet(t, s) \/ ClusterNodeGetAsync(t, s) \/ ResetCount(t, s)
        \/ ClusterTrack(t, s) \/ ClusterTrackStop(t, s)

-----------------------------------------------------------------------------
\* The select loop.

\* The thread's own sessions are watched, unless a thread of their own is to wait
\* in saClmDispatch for them.  Which of the callbacks a handle is owed have come
\* by now is up to the library.
Select(t) ==
    /\ th[t].pc = "select"
    /\ \E n \in 0 .. MaxServed,
          ready \in SUBSET {sess[s].selobj : s \in {u \in On(t) :
                                /\ sess[u].flags # "BLOCKING" /\ Live(sess[u].selobj)
                                /\ \E cb \in Callbacks : Owed(sess[u].selobj, cb) > 0}} :
        /\ n > 0 \/ ready # {}
        /\ th' = [th EXCEPT ![t].pc = "serve", ![t].mask = ready, ![t].left = n]
    /\ UNCHANGED <<daemon, sess, nextId, ended, svc>>

EndServe(t) ==
    /\ th[t].pc = "serve"
    /\ th[t].left = 0
    /\ th' = [th EXCEPT ![t].pc = "check", ![t].todo = On(t)]
    /\ UNCHANGED <<daemon, sess, nextId, ended, svc>>

\* The next of the thread's sessions whose selection object select() found
\* readable is dispatched with the flags and the handle it has now; if the
\* library refuses them, the daemon exits.
Check(t) ==
    LET due == {s \in th[t].todo : sess[s].selobj \in th[t].mask}
        s   == FirstOf(due)
    IN /\ th[t].pc = "check"
       /\ IF due = {} THEN /\ th' = [th EXCEPT ![t] = IdleThread]
                           /\ UNCHANGED <<daemon, sess, nextId, ended, svc>>
          ELSE IF sess[s].flags = "BLOCKING" THEN End("own dispatch thread")
          ELSE IF sess[s].flags = "NONE" \/ ~Live(sess[s].handle)
               THEN End("dispatch failed")
          ELSE /\ th' = [th EXCEPT ![t].pc = "dispatch", ![t].todo = @ \ {s},
                                   ![t].h = sess[s].handle,
                                   ![t].how = sess[s].flags, ![t].back = "check"]
               /\ UNCHANGED <<daemon, sess, nextId, ended, svc>>

-----------------------------------------------------------------------------
\* saClmDispatch and the callbacks it runs.

\* saftest_daemon_cluster_node_get_callback and ..._cluster_track_callback: the
\* session they count on, and their end if there is none.
SessionOf(t, cb) == IF cb.kind = "node" THEN ByInvocation(t, cb.inv) ELSE Main(t)
Unfound(cb) == IF cb.kind = "node" THEN "unknown session" ELSE "no long lived session"

\* The count is raised on every pass over the session list.
Callback_Twice(t, cb) ==
    sess' = [sess EXCEPT ![SessionOf(t, cb)].count[cb.kind] = @ + 2]

Callback(t, cb) ==
    sess' = [sess EXCEPT ![SessionOf(t, cb)].count[cb.kind] = @ + 1]

TakeOne(t) ==
    LET h == th[t].h
    IN /\ th[t].pc = "dispatch"
       /\ Live(h)
       /\ th[t].how # "NONE"
       /\ \E cb \in Callbacks :
            /\ svc[h].owed[cb] > 0
            /\ IF SessionOf(t, cb) = 0 THEN End(Unfound(cb))
               ELSE /\ Deliver(h, cb)
                    /\ Callback(t, cb)
                    /\ th' = [th EXCEPT ![t].how = IF @ = "ONE" THEN "NONE" ELSE @]
                    /\ UNCHANGED <<daemon, nextId, ended>>

\* It returns when it has delivered what had come, or the one it was asked for,
\* or at once if the handle is none; the blocking one when the handle is finalized.
DispatchReturn(t) ==
    /\ th[t].pc = "dispatch"
    /\ th[t].how # "BLOCKING" \/ ~Live(th[t].h)
    /\ th' = [th EXCEPT ![t].pc = th[t].back, ![t].h = 0, ![t].how = "NONE",
                        ![t].back = "serve"]
    /\ UNCHANGED <<daemon, sess, nextId, ended, svc>>

Loop(t) ==
    \/ Select(t) \/ EndServe(t) \/ Check(t) \/ TakeOne(t) \/ DispatchReturn(t)

-----------------------------------------------------------------------------
\* Clients learn of a change of the cluster as of an answer: one at a time, as
\* long as the first long-lived session can count it.
Change ==
    /\ ClusterChange
    /\ \A s \in Ids : Live(sess[s].handle) /\ svc[sess[s].handle].changes
                         => CanCount(s, TrackCb)
    /\ UNCHANGED <<daemon, sess, nextId, th, ended>>

Next ==
    /\ ended = "no"
    /\ \/ \E t \in daemon : Request(t) \/ Loop(t)
       \/ Change

Spec == Init /\ [][Next]_vars

-----------------------------------------------------------------------------
(***************************************************************************)
(* Properties.                                                             *)
(***************************************************************************)

\* Clients that behave as the test cases do, one session's answers coming late
\* while other sessions are finalized, never drive the daemon into one of its
\* assertions, aborts or exits (clm_driver.c:217, 248, 521, 696, 1091, 1098).
NoAbort == ended = "no"

\* A count rises, by one, exactly when a callback of the kind is delivered that was
\* asked for through the session's handle; it never rises on another's account.
CountedOnAsker(kind) ==
    \A s \in Ids :
        LET old == sess[s].count[kind]
            new == sess'[s].count[kind]
        IN IF sess'[s].handle = sess[s].handle
           THEN new = old + 1 <=>
                    \E cb \in Callbacks : /\ cb.kind = kind
                                          /\ Owed(sess[s].handle, cb)
                                                = Owed(sess[s].handle, cb)' + 1
           ELSE new <= old

\* An answer to an asynchronous node request is counted on the session that asked
\* for it and on no other, whichever thread delivers it, although all the driver
\* has to tell is the invocation, which stays behind on sessions whose handles
\* are gone (clm_driver.c:402-429; dispatchAll and dispatchOne expect exact counts).
NodeAnswersAreCounted == [][CountedOnAsker("node")]_vars

\* As long as clients keep to the convention, the session the track callback is
\* counted on is the one that tracks, though sessions come and go around it
\* (clm_driver.c:440-449; clusterTrackCurrentMultiple expects an exact count).
TrackCallbacksAreCounted == [][CountedOnAsker("track")]_vars

\* A client that tracks on the daemon's first long-lived session is told on that
\* session (clm_driver.c:441-447): the callback finds one.
FirstLongLivedCounts == ended # "no long lived session"
=============================================================================
