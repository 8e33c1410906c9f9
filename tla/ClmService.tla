------------------------------ MODULE ClmService ------------------------------
(***************************************************************************)
(* The AIS cluster membership library as the CLM driver sees it (external: *)
(* saftest tests it, src/trunk/cases/clm/driver/clm_driver.c calls it).    *)
(* What a callback says of the cluster is left out; which handle it is     *)
(* queued for, and with which invocation, is kept.                         *)
(***************************************************************************)
EXTENDS Naturals

CONSTANTS
    MaxHandles,   \* bound: handles the library hands out in a run
    Invocations   \* the invocation numbers clients choose from

ASSUME ServiceAssumption == MaxHandles \in Nat /\ 0 \notin Invocations

Handles == 1 .. MaxHandles
Kinds   == {"node", "track"}
\* A track callback carries nothing that tells whose it is.
TrackCb   == [kind |-> "track", inv |-> 0]
NodeCb(i) == [kind |-> "node", inv |-> i]
Callbacks == {TrackCb} \cup {NodeCb(i) : i \in Invocations}

HandleRecs == [st       : {"unused", "live", "dead"},
               cbs      : SUBSET Kinds,        \* the callbacks registered
               changes  : BOOLEAN,             \* tracks changes of the cluster
               owed     : [Callbacks -> Nat]]  \* callbacks not yet delivered
UnusedHandle == [st |-> "unused", cbs |-> {}, changes |-> FALSE,
                 owed |-> [cb \in Callbacks |-> 0]]

VARIABLE svc       \* [Handles -> HandleRecs]

ServiceTypeOK == svc \in [Handles -> HandleRecs]
ServiceInit == svc = [h \in Handles |-> UnusedHandle]

-----------------------------------------------------------------------------
Live(h) == h \in Handles /\ svc[h].st = "live"

\* How often handle h is still to get a callback.
Owed(h, cb) == IF h \in Handles THEN svc[h].owed[cb] ELSE 0

\* The calls, each the effect of a successful one.  A call that returns an
\* error changes none of the library's state.
saClmInitialize(h, cbs) ==
    /\ svc[h].st = "unused"
    /\ \A g \in Handles : g < h => svc[g].st # "unused"
    /\ svc' = [svc EXCEPT ![h] = [UnusedHandle EXCEPT !.st = "live", !.cbs = cbs]]

saClmFinalize(h) ==
    /\ Live(h)
    /\ svc' = [svc EXCEPT ![h] = [UnusedHandle EXCEPT !.st = "dead"]]

saClmClusterNodeGetAsync(h, i) ==
    /\ Live(h) /\ "node" \in svc[h].cbs
    /\ svc' = [svc EXCEPT ![h].owed[NodeCb(i)] = @ + 1]

\* SA_TRACK_CURRENT is answered through the buffer, or by a callback if there is
\* none; a subscription to changes lasts until it is stopped.
saClmClusterTrack(h, flags, buffer) ==
    LET calls == "CURRENT" \in flags /\ ~buffer
        subscribes == flags \cap {"CHANGES", "CHANGES_ONLY"} # {}
    IN /\ Live(h)
       /\ flags # {} /\ ~({"CHANGES", "CHANGES_ONLY"} \subseteq flags)
       /\ calls \/ subscribes => "track" \in svc[h].cbs
       /\ svc' = [svc EXCEPT ![h].owed[TrackCb] = IF calls THEN @ + 1 ELSE @,
                             ![h].changes = @ \/ subscribes]

saClmClusterTrackStop(h) ==
    /\ Live(h) /\ svc[h].changes
    /\ svc' = [svc EXCEPT ![h].changes = FALSE]

\* saClmDispatch delivers a callback.
Deliver(h, cb) ==
    /\ Live(h) /\ svc[h].owed[cb] > 0
    /\ svc' = [svc EXCEPT ![h].owed[cb] = @ - 1]

\* The cluster changes, and everyone who tracks it is to be told.
ClusterChange ==
    /\ \E h \in Handles : svc[h].changes
    /\ svc' = [h \in Handles |-> IF svc[h].changes
                                 THEN [svc[h] EXCEPT !.owed[TrackCb] = @ + 1]
                                 ELSE svc[h]]
=============================================================================
