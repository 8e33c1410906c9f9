----------------------------- MODULE TestEngineProofs -----------------------------
(***************************************************************************)
(* The test engine, for any bundles, scripts and bounds.  What its log,    *)
(* status file and report say of a run is proved in three layers:          *)
(*   EInv       actions and jobs (AInv), and where each engine is          *)
(*   StatusInv, ReportInv   what of it is in the status file and the log   *)
(*   FInv       how much of the bundle's lists each engine has begun       *)
(***************************************************************************)
EXTENDS TestEngine, SequenceTheorems, FiniteSetTheorems, WellFoundedInduction, TLAPS

-----------------------------------------------------------------------------
\* Numbers and scripts.

\* A set of numbers that is not empty has a lowest one.
LEMMA LowestExists ==
    ASSUME NEW S \in SUBSET Nat, S # {}
    PROVE  \E n \in S : \A m \in S : n <= m
<1> DEFINE R == {p \in Nat \X Nat : p[1] < p[2]}
<1>1. R = OpToRel(<, Nat)
  BY DEF OpToRel
<1>2. IsWellFoundedOn(R, Nat)
  BY <1>1, NatLessThanWellFounded
<1>3. PICK n \in S : \A m \in S : ~(<<m, n>> \in R)
  BY <1>2, WFMin
<1>4. \A m \in S : ~(m < n)
  BY <1>3
<1> QED BY <1>4

LEMMA NewIdIsNew ==
    ASSUME ActionsTypeOK, NEW t \in Testers, Room(t)
    PROVE  NewId(t) \in ActionIds /\ NewId(t) \notin tester[t].known
<1> DEFINE S == ActionIds \ tester[t].known
<1>1. tester[t].known \subseteq ActionIds
  BY DEF ActionsTypeOK, TesterRecs
<1>2. S \in SUBSET Nat
  BY ActionsAssumption DEF ActionIds
<1>3. S # {}
  BY <1>1 DEF Room
<1>4. \E n \in S : \A m \in S : n <= m
  BY <1>2, <1>3, LowestExists
<1> QED BY <1>4 DEF NewId

\* The steps of a script are counted one by one.
LEMMA OfNothing ==
    ASSUME NEW s, NEW w
    PROVE  Of(s, 0, w) = 0
<1>1. {i \in 1 .. 0 : s[i] = w} = {}
  OBVIOUS
<1> QED BY <1>1, FS_EmptySet DEF Of

LEMMA OfIsNat ==
    ASSUME NEW s, NEW n \in Nat, NEW w
    PROVE  Of(s, n, w) \in Nat /\ IsFiniteSet({i \in 1 .. n : s[i] = w})
<1>1. IsFiniteSet(1 .. n)
  BY FS_Interval
<1>2. IsFiniteSet({i \in 1 .. n : s[i] = w})
  BY <1>1, FS_Subset
<1> QED BY <1>2, FS_CardinalityType DEF Of

LEMMA OfOneMore ==
    ASSUME NEW s, NEW n \in Nat, NEW w
    PROVE  Of(s, n + 1, w) = IF s[n + 1] = w THEN Of(s, n, w) + 1 ELSE Of(s, n, w)
<1> DEFINE S == {i \in 1 .. n : s[i] = w}
           T == {i \in 1 .. n + 1 : s[i] = w}
<1>1. IsFiniteSet(S)
  BY OfIsNat
<1>2. CASE s[n + 1] = w
  <2>1. T = S \cup {n + 1} /\ n + 1 \notin S
    BY <1>2
  <2>2. Cardinality(T) = Cardinality(S) + 1
    BY <1>1, <2>1, FS_AddElement
  <2> QED BY <1>2, <2>2 DEF Of
<1>3. CASE s[n + 1] # w
  <2>1. T = S
    BY <1>3
  <2> QED BY <1>3, <2>1 DEF Of
<1> QED BY <1>2, <1>3

\* What is left of a sequence after n elements.
LEMMA RestOfSeq ==
    ASSUME NEW S, NEW s \in Seq(S), NEW n \in Nat, n < Len(s)
    PROVE  /\ SubSeq(s, n + 1, Len(s)) \in Seq(S) /\ SubSeq(s, n + 1, Len(s)) # <<>>
           /\ Head(SubSeq(s, n + 1, Len(s))) = s[n + 1]
           /\ Tail(SubSeq(s, n + 1, Len(s))) = SubSeq(s, (n + 1) + 1, Len(s))
<1>1. Len(s) \in Nat /\ n + 1 \in 1 .. Len(s) /\ Len(s) \in n + 1 .. Len(s)
  OBVIOUS
<1>2. SubSeq(s, n + 1, Len(s)) \in Seq(S) /\ Len(SubSeq(s, n + 1, Len(s))) # 0
  BY <1>1
<1>3. Len(<<>>) = 0
  OBVIOUS
<1> QED BY <1>1, <1>2, <1>3, HeadTailOfSubSeq

-----------------------------------------------------------------------------
\* Background actions: a directory belongs to one job.

\* The states a job is in once its action is "done".
Finished == {"stopped", "rewriting", "ended"}
Making   == {"command", "start"}
Loading  == {"loadAction", "loadCommand", "loadAgain"}

\* The actions of a test case are numbered in the order it started them; one more may
\* be in the making, or was when the test case ended.
Slots ==
    /\ \A t \in Testers :
        /\ tester[t].pc = "none" => tester[t] = NoTester
        /\ tester[t].pc \in Making => tester[t].jobs < MaxJobs
    /\ \A t \in Testers : \A n \in 1 .. MaxJobs :
        /\ job[<<t, n>>].pc # "none" <=> n <= tester[t].jobs
        /\ job[<<t, n>>].pc # "none" => job[<<t, n>>].id # 0
        /\ n > tester[t].jobs /\ job[<<t, n>>].id # 0 =>
            n = tester[t].jobs + 1 /\ tester[t].pc \in Making \cup Over
        /\ n = tester[t].jobs + 1 /\ tester[t].pc \in Making => job[<<t, n>>].id # 0

\* A test case has done the first n steps of its script.
Did(t, n) ==
    LET s == Script[tester[t].name]
    IN /\ n \in 0 .. Len(s)
       /\ tester[t].left = SubSeq(s, n + 1, Len(s))
       /\ tester[t].jobs = Of(s, n, "start") /\ tester[t].waited = Of(s, n, "wait")
       /\ tester[t].pc \in {"adding"} \cup Making => n < Len(s) /\ s[n + 1] = "start"
       /\ tester[t].pc \in Loading => n < Len(s) /\ s[n + 1] = "wait"
FollowsScript ==
    \A t \in Testers : Alive(t) =>
        /\ tester[t].name \in Cases
        /\ \E n \in 0 .. Len(Script[tester[t].name]) : Did(t, n)

\* A directory belongs to one job ...
OneJob == \A j, k \in Jobs : job[j].id # 0 /\ job[j].id = job[k].id => j = k

\* ... and its files tell how far that is.
Tells(j) ==
    LET a == action[job[j].id]
    IN /\ job[j].pc \in {"none", "started", "refused", "raised"} =>
            a.state = "pending" /\ a.command \notin Codes
       /\ job[j].pc = "running" => a.state = "running" /\ a.command \notin Codes
       /\ job[j].pc \in {"stored"} \cup Finished => job[j].code \in Codes
       /\ job[j].pc = "stored" => a.state = "running" /\ a.command = job[j].code
       /\ job[j].pc \in Finished => a.state = "done" /\ a.command \in {job[j].code, "empty"}
FilesTell ==
    /\ \A a \in ActionIds : action[a].state = "none" => action[a].command = "none"
    /\ \A j \in Jobs : job[j].id # 0 => Tells(j)

\* What a test case has waited for returned what it expected, and what it has
\* loaded is what the job stored.
WaitedFor ==
    \A t \in Testers :
        /\ \A n \in 1 .. tester[t].waited :
            job[<<t, n>>].pc \in Finished /\ job[<<t, n>>].code = "expected"
        /\ tester[t].pc \in {"loadCommand", "loadAgain"} =>
            job[<<t, tester[t].waited + 1>>].pc \in Finished
        /\ tester[t].result # NoResult =>
            /\ tester[t].pc = "loadAgain"
            /\ tester[t].result = job[<<t, tester[t].waited + 1>>].code

AInv == ActionsTypeOK /\ Slots /\ FollowsScript /\ OneJob /\ FilesTell /\ WaitedFor
LEMMA DirNumbers == ActionIds \subseteq Nat \ {0}
BY ActionsAssumption DEF ActionIds

LEMMA InSlots ==
    ASSUME NEW t \in Testers, NEW n \in 1 .. MaxJobs
    PROVE  <<t, n>> \in Jobs
BY DEF Jobs

\* A script waits only for what it has started.
LEMMA WaitsForOneStarted ==
    ASSUME AInv, NEW t \in Testers, tester[t].pc \in Loading
    PROVE  /\ tester[t].waited + 1 \in 1 .. MaxJobs
           /\ <<t, tester[t].waited + 1>> \in Jobs
           /\ job[<<t, tester[t].waited + 1>>].pc # "none"
           /\ WaitsFor(t) \in ActionIds
<1> DEFINE s == Script[tester[t].name]
<1>1. Alive(t)
  BY DEF Alive, Loading, Over
<1>2. PICK n \in 0 .. Len(s) : Did(t, n)
  BY <1>1 DEF AInv, FollowsScript
<1>3. tester[t].name \in Cases /\ s \in Seq({"start", "wait"})
  BY <1>1, EngineAssumption DEF AInv, FollowsScript
<1>4. n < Len(s) /\ s[n + 1] = "wait" /\ n \in Nat /\ n + 1 \in 0 .. Len(s)
  BY <1>2, <1>3 DEF Did
<1>5. Of(s, n + 1, "wait") = tester[t].waited + 1 /\ Of(s, n + 1, "start") = tester[t].jobs
  BY <1>2, <1>4, OfOneMore DEF Did
<1>6. Of(s, n + 1, "wait") <= Of(s, n + 1, "start")
  BY <1>3, <1>4, EngineAssumption
<1>7. tester[t].waited \in 0 .. MaxJobs /\ tester[t].jobs \in 0 .. MaxJobs
  BY DEF AInv, ActionsTypeOK, TesterRecs
<1>8. tester[t].waited + 1 \in 1 .. MaxJobs /\ tester[t].waited + 1 <= tester[t].jobs
  BY <1>5, <1>6, <1>7, ActionsAssumption
<1>9. job[<<t, tester[t].waited + 1>>].pc # "none" /\ job[<<t, tester[t].waited + 1>>].id # 0
  BY <1>8 DEF AInv, Slots
<1>10. <<t, tester[t].waited + 1>> \in Jobs
  BY <1>8, InSlots
<1> QED BY <1>8, <1>9, <1>10 DEF AInv, ActionsTypeOK, JobRecs, WaitsFor

\* The action being made is one of its own.
LEMMA MakesItsOwn ==
    ASSUME AInv, NEW t \in Testers, tester[t].pc \in Making
    PROVE  /\ tester[t].jobs \in 0 .. MaxJobs /\ tester[t].jobs + 1 \in 1 .. MaxJobs
           /\ <<t, tester[t].jobs + 1>> \in Jobs
           /\ job[<<t, tester[t].jobs + 1>>].pc = "none"
           /\ Mine(t) \in ActionIds
<1>1. tester[t].jobs \in 0 .. MaxJobs /\ tester[t].jobs < MaxJobs
  BY DEF AInv, ActionsTypeOK, TesterRecs, Slots
<1>2. tester[t].jobs + 1 \in 1 .. MaxJobs /\ ~(tester[t].jobs + 1 <= tester[t].jobs)
  BY <1>1, ActionsAssumption
<1>3. <<t, tester[t].jobs + 1>> \in Jobs
  BY <1>2, InSlots
<1>4. job[<<t, tester[t].jobs + 1>>].pc = "none" /\ job[<<t, tester[t].jobs + 1>>].id # 0
  BY <1>2 DEF AInv, Slots
<1> QED BY <1>1, <1>2, <1>3, <1>4 DEF AInv, ActionsTypeOK, JobRecs, Mine

\* What another test case does is nothing to a script.
LEMMA OthersFollow ==
    ASSUME AInv, NEW t \in Testers, \A u \in Testers \ {t} : tester'[u] = tester[u],
           Alive(t)' => /\ tester'[t].name \in Cases
                        /\ \E n \in 0 .. Len(Script[tester'[t].name]) : Did(t, n)'
    PROVE  FollowsScript'
<1> SUFFICES ASSUME NEW u \in Testers, u # t, Alive(u)'
             PROVE  /\ tester'[u].name \in Cases
                    /\ \E n \in 0 .. Len(Script[tester'[u].name]) : Did(u, n)'
  BY DEF FollowsScript
<1>1. tester'[u] = tester[u]
  OBVIOUS
<1>2. Alive(u)
  BY <1>1 DEF Alive
<1>3. PICK n \in 0 .. Len(Script[tester[u].name]) : Did(u, n)
  BY <1>2 DEF AInv, FollowsScript
<1>4. Did(u, n)'
  BY <1>1, <1>3 DEF Did
<1> QED BY <1>1, <1>2, <1>3, <1>4 DEF AInv, FollowsScript

\* A test case ends, of itself or killed.
LEMMA EndStep ==
    ASSUME AInv, NEW t \in Testers, Alive(t), NEW how \in Over, Over_(t, how),
           UNCHANGED <<action, job>>
    PROVE  AInv'
<1>1. /\ tester \in [Testers -> TesterRecs]
      /\ tester' = [tester EXCEPT ![t] = [tester[t] EXCEPT !.pc = how, !.left = <<>>,
                        !.known = {}, !.loaded = FALSE, !.result = NoResult]]
  BY DEF AInv, ActionsTypeOK, Over_
<1>2. /\ tester'[t].pc = how /\ tester'[t].jobs = tester[t].jobs
      /\ tester'[t].waited = tester[t].waited /\ tester'[t].result = NoResult
      /\ \A u \in Testers \ {t} : tester'[u] = tester[u]
  BY <1>1 DEF TesterRecs
<1>3. how \notin Making \cup {"none", "loadCommand", "loadAgain"} /\ tester[t].pc # "none"
  BY DEF Making, Over, Alive
<1>4. ActionsTypeOK'
  <2>1. tester'[t] \in TesterRecs
    BY <1>1, EmptySeq DEF TesterRecs, Results, Over
  <2> QED BY <1>1, <2>1 DEF AInv, ActionsTypeOK
<1>5. Slots'
  BY <1>2, <1>3 DEF AInv, Slots
<1>6. FollowsScript'
  BY <1>2, OthersFollow DEF Alive
<1>7. OneJob' /\ FilesTell'
  BY DEF AInv, OneJob, FilesTell, Tells
<1>8. WaitedFor'
  BY <1>2, <1>3 DEF AInv, WaitedFor
<1> QED BY <1>4, <1>5, <1>6, <1>7, <1>8 DEF AInv

\* A test case goes on to a state in which it does not make an action, at the same
\* step of its script.
LEMMA SameStep ==
    ASSUME AInv, NEW t \in Testers, Alive(t), tester' \in [Testers -> TesterRecs],
           \A u \in Testers \ {t} : tester'[u] = tester[u], UNCHANGED <<action, job>>,
           NEW pc \in {"adding"} \cup Loading, tester'[t].pc = pc,
           /\ tester'[t].name = tester[t].name /\ tester'[t].left = tester[t].left
           /\ tester'[t].jobs = tester[t].jobs /\ tester'[t].waited = tester[t].waited,
           tester[t].left # <<>>,
           pc = "adding" => Head(tester[t].left) = "start",
           pc # "adding" => Head(tester[t].left) = "wait",
           tester[t].pc \notin Making,
           pc \in {"loadCommand", "loadAgain"} =>
                job[<<t, tester[t].waited + 1>>].pc \in Finished,
           tester'[t].result # NoResult =>
                /\ pc = "loadAgain"
                /\ tester'[t].result = job[<<t, tester[t].waited + 1>>].code
    PROVE  AInv'
<1>2. \A u \in Testers \ {t} : tester'[u] = tester[u]
  OBVIOUS
<1>3. /\ pc \notin Making \cup {"none"} \cup Over /\ tester[t].pc \notin {"none"} \cup Over
      /\ pc \in Loading => pc # "adding"
  BY DEF Making, Loading, Over, Alive
<1>4. ActionsTypeOK'
  BY DEF AInv, ActionsTypeOK
<1>5. Slots'
  <2>1. \A u \in Testers : tester'[u].jobs = tester[u].jobs
    BY <1>2
  <2>2. \A u \in Testers :
            /\ tester'[u].pc = "none" => tester'[u] = tester[u]
            /\ tester'[u].pc = "none" <=> tester[u].pc = "none"
            /\ tester'[u].pc \in Making <=> tester[u].pc \in Making
            /\ tester'[u].pc \in Over <=> tester[u].pc \in Over
    BY <1>2, <1>3
  <2> QED BY <2>1, <2>2 DEF AInv, Slots
<1>6. FollowsScript'
  <2> DEFINE s == Script[tester[t].name]
  <2>1. PICK n \in 0 .. Len(s) : Did(t, n)
    BY DEF AInv, FollowsScript
  <2>2. tester[t].name \in Cases /\ s \in Seq({"start", "wait"})
    BY EngineAssumption DEF AInv, FollowsScript
  <2>3. n < Len(s) /\ s[n + 1] = Head(tester[t].left)
    <3>1. tester[t].left = SubSeq(s, n + 1, Len(s))
      BY <2>1 DEF Did
    <3>2. n \in Nat /\ Len(s) \in Nat
      BY <2>1, <2>2 DEF Did
    <3>3. n < Len(s)
      BY <2>2, <3>1, <3>2
    <3> QED BY <2>2, <3>1, <3>2, <3>3
  <2>4. Did(t, n)'
    BY <1>2, <1>3, <2>1, <2>3 DEF Did
  <2> QED BY <1>2, <2>1, <2>2, <2>4, OthersFollow
<1>7. OneJob' /\ FilesTell'
  BY DEF AInv, OneJob, FilesTell, Tells
<1>8. WaitedFor'
  <2> SUFFICES ASSUME NEW u \in Testers
               PROVE  /\ \A n \in 1 .. tester'[u].waited :
                           job[<<u, n>>].pc \in Finished /\ job[<<u, n>>].code = "expected"
                      /\ tester'[u].pc \in {"loadCommand", "loadAgain"} =>
                           job[<<u, tester'[u].waited + 1>>].pc \in Finished
                      /\ tester'[u].result # NoResult =>
                           /\ tester'[u].pc = "loadAgain"
                           /\ tester'[u].result = job[<<u, tester'[u].waited + 1>>].code
    BY DEF WaitedFor
  <2>1. CASE u = t
    BY <1>2, <2>1 DEF AInv, WaitedFor
  <2>2. CASE u # t
    BY <1>2, <2>2 DEF AInv, WaitedFor
  <2> QED BY <2>1, <2>2
<1> QED BY <1>4, <1>5, <1>6, <1>7, <1>8 DEF AInv

LEMMA InstanceStep ==
    ASSUME AInv, NEW t \in Testers, Instance(t)
    PROVE  AInv'
<1>1. /\ tester \in [Testers -> TesterRecs] /\ tester[t].pc = "script"
      /\ tester[t].left # <<>> /\ Head(tester[t].left) = "start" /\ UNCHANGED <<action, job>>
  BY DEF AInv, ActionsTypeOK, Instance, NextIs
<1>2. Alive(t) /\ tester[t].pc \notin Making /\ tester[t].pc # "loadAgain"
  BY <1>1 DEF Alive, Over, Making
<1>3. CASE Over_(t, "raised")
  BY <1>1, <1>2, <1>3, EndStep DEF Over
<1>4. CASE ~Over_(t, "raised")
  <2>1. tester' = [tester EXCEPT ![t].pc = "adding", ![t].loaded = TRUE,
                        ![t].known = IF tester[t].loaded THEN @ ELSE Dirs]
    BY <1>4 DEF Instance
  <2>2. (IF tester[t].loaded THEN tester[t].known ELSE Dirs) \in SUBSET ActionIds
    BY <1>1 DEF Dirs, TesterRecs
  <2>3. tester' \in [Testers -> TesterRecs]
    <3>1. \A u \in Testers : tester'[u] \in TesterRecs
      BY <1>1, <2>1, <2>2 DEF TesterRecs
    <3> QED BY <1>1, <2>1, <3>1
  <2>4. /\ \A u \in Testers \ {t} : tester'[u] = tester[u]
        /\ tester'[t].pc = "adding" /\ tester'[t].name = tester[t].name
        /\ tester'[t].left = tester[t].left /\ tester'[t].jobs = tester[t].jobs
        /\ tester'[t].waited = tester[t].waited /\ tester'[t].result = tester[t].result
    BY <1>1, <2>1 DEF TesterRecs
  <2>5. tester[t].result = NoResult
    BY <1>2 DEF AInv, WaitedFor
  <2> QED BY <1>1, <1>2, <2>3, <2>4, <2>5, SameStep
<1> QED BY <1>3, <1>4

LEMMA BeginWaitStep ==
    ASSUME AInv, NEW t \in Testers, BeginWait(t)
    PROVE  AInv'
<1>1. /\ tester \in [Testers -> TesterRecs] /\ tester[t].pc = "script"
      /\ tester[t].left # <<>> /\ Head(tester[t].left) = "wait" /\ UNCHANGED <<action, job>>
      /\ tester' = [tester EXCEPT ![t].pc = "loadAction"]
  BY DEF AInv, ActionsTypeOK, BeginWait, NextIs
<1>2. Alive(t) /\ tester[t].pc \notin Making /\ tester[t].pc # "loadAgain"
  BY <1>1 DEF Alive, Over, Making
<1>3. tester' \in [Testers -> TesterRecs]
  BY <1>1 DEF TesterRecs
<1>4. /\ \A u \in Testers \ {t} : tester'[u] = tester[u]
      /\ tester'[t].pc = "loadAction" /\ tester'[t].name = tester[t].name
      /\ tester'[t].left = tester[t].left /\ tester'[t].jobs = tester[t].jobs
      /\ tester'[t].waited = tester[t].waited /\ tester'[t].result = tester[t].result
  BY <1>1 DEF TesterRecs
<1>5. tester[t].result = NoResult
  BY <1>2 DEF AInv, WaitedFor
<1> QED BY <1>1, <1>2, <1>3, <1>4, <1>5, SameStep DEF Loading

\* While a test case waits the next step of its script is a wait.
LEMMA NextIsWait ==
    ASSUME AInv, NEW t \in Testers, tester[t].pc \in Loading
    PROVE  /\ Alive(t) /\ tester[t].left # <<>> /\ Head(tester[t].left) = "wait"
           /\ tester[t].pc \notin Making
<1> DEFINE s == Script[tester[t].name]
<1>1. Alive(t) /\ tester[t].pc \notin Making
  BY DEF Alive, Loading, Making, Over
<1>2. PICK n \in 0 .. Len(s) : Did(t, n)
  BY <1>1 DEF AInv, FollowsScript
<1>3. tester[t].name \in Cases /\ s \in Seq({"start", "wait"})
  BY <1>1, EngineAssumption DEF AInv, FollowsScript
<1>4. n < Len(s) /\ s[n + 1] = "wait" /\ tester[t].left = SubSeq(s, n + 1, Len(s))
  BY <1>2, <1>3 DEF Did
<1>5. n \in Nat /\ Len(s) \in Nat
  BY <1>3
<1>6. tester[t].left # <<>> /\ Head(tester[t].left) = "wait"
  BY <1>3, <1>4, <1>5, RestOfSeq
<1> QED BY <1>1, <1>6

LEMMA LoadActionStep ==
    ASSUME AInv, NEW t \in Testers, LoadAction(t)
    PROVE  AInv'
<1>1. /\ tester \in [Testers -> TesterRecs] /\ tester[t].pc = "loadAction"
      /\ UNCHANGED <<action, job>>
  BY DEF AInv, ActionsTypeOK, LoadAction
<1>2. tester[t].pc \in Loading /\ tester[t].pc # "loadAgain"
  BY <1>1 DEF Loading
<1>3. CASE action[WaitsFor(t)].state # "done"
  <2>1. Over_(t, "failed")
    BY <1>3 DEF LoadAction
  <2> QED BY <1>1, <1>2, <2>1, NextIsWait, EndStep DEF Over
<1>4. CASE action[WaitsFor(t)].state = "done"
  <2>1. tester' = [tester EXCEPT ![t].pc = "loadCommand"]
    BY <1>4 DEF LoadAction
  <2>2. tester' \in [Testers -> TesterRecs]
    BY <1>1, <2>1 DEF TesterRecs
  <2>3. /\ \A u \in Testers \ {t} : tester'[u] = tester[u]
        /\ tester'[t].pc = "loadCommand" /\ tester'[t].name = tester[t].name
        /\ tester'[t].left = tester[t].left /\ tester'[t].jobs = tester[t].jobs
        /\ tester'[t].waited = tester[t].waited /\ tester'[t].result = tester[t].result
    BY <1>1, <2>1 DEF TesterRecs
  <2>4. tester[t].result = NoResult
    BY <1>2 DEF AInv, WaitedFor
  <2>5. job[<<t, tester[t].waited + 1>>].pc \in Finished
    <3> DEFINE j == <<t, tester[t].waited + 1>>
    <3>1. j \in Jobs /\ job[j].id = WaitsFor(t) /\ job[j].id # 0
      BY <1>2, WaitsForOneStarted, DirNumbers DEF WaitsFor
    <3>2. job[j] \in JobRecs
      BY <3>1 DEF AInv, ActionsTypeOK
    <3>3. /\ job[j].pc \notin {"none", "started", "refused", "raised"}
          /\ job[j].pc # "running" /\ job[j].pc # "stored"
      BY <1>4, <3>1 DEF AInv, FilesTell, Tells
    <3> QED BY <3>2, <3>3 DEF JobRecs, Finished
  <2> QED BY <1>1, <1>2, <2>2, <2>3, <2>4, <2>5, NextIsWait, SameStep DEF Loading
<1> QED BY <1>3, <1>4

\* A result in the file of a command that has ended is its result.
LEMMA ResultIsStored ==
    ASSUME AInv, NEW t \in Testers, tester[t].pc \in {"loadCommand", "loadAgain"}
    PROVE  /\ ResultIn(WaitsFor(t)) \in {NoResult, job[<<t, tester[t].waited + 1>>].code}
           /\ job[<<t, tester[t].waited + 1>>].code \in Codes
           /\ job[<<t, tester[t].waited + 1>>].pc \in Finished
<1> DEFINE j == <<t, tester[t].waited + 1>>
<1>1. tester[t].pc \in Loading
  BY DEF Loading
<1>2. j \in Jobs /\ job[j].id = WaitsFor(t) /\ job[j].id # 0
  BY <1>1, WaitsForOneStarted, DirNumbers DEF WaitsFor
<1>3. job[j].pc \in Finished
  BY DEF AInv, WaitedFor
<1>4. job[j].code \in Codes /\ action[WaitsFor(t)].command \in {job[j].code, "empty"}
  BY <1>2, <1>3 DEF AInv, FilesTell, Tells
<1> QED BY <1>3, <1>4 DEF ResultIn, Codes

LEMMA LoadCommandStep ==
    ASSUME AInv, NEW t \in Testers, LoadCommand(t)
    PROVE  AInv'
<1>1. /\ tester \in [Testers -> TesterRecs] /\ tester[t].pc = "loadCommand"
      /\ UNCHANGED <<action, job>>
      /\ tester' = [tester EXCEPT ![t].pc = "loadAgain", ![t].result = ResultIn(WaitsFor(t))]
  BY DEF AInv, ActionsTypeOK, LoadCommand
<1>2. tester[t].pc \in Loading
  BY <1>1 DEF Loading
<1>3. /\ ResultIn(WaitsFor(t)) \in {NoResult, job[<<t, tester[t].waited + 1>>].code}
      /\ job[<<t, tester[t].waited + 1>>].code \in Codes
      /\ job[<<t, tester[t].waited + 1>>].pc \in Finished
  BY <1>1, ResultIsStored
<1>4. tester' \in [Testers -> TesterRecs]
  <2>1. ResultIn(WaitsFor(t)) \in Results
    BY <1>3 DEF Results
  <2> QED BY <1>1, <2>1 DEF TesterRecs
<1>5. /\ \A u \in Testers \ {t} : tester'[u] = tester[u]
      /\ tester'[t].pc = "loadAgain" /\ tester'[t].name = tester[t].name
      /\ tester'[t].left = tester[t].left /\ tester'[t].jobs = tester[t].jobs
      /\ tester'[t].waited = tester[t].waited /\ tester'[t].result = ResultIn(WaitsFor(t))
  BY <1>1 DEF TesterRecs
<1> QED BY <1>1, <1>2, <1>3, <1>4, <1>5, NextIsWait, SameStep DEF Loading

\* One step of a script done: an action started or waited for.
LEMMA NextStepOfScript ==
    ASSUME AInv, NEW t \in Testers, Alive(t), \A u \in Testers \ {t} : tester'[u] = tester[u],
           tester'[t].pc = "script", tester'[t].name = tester[t].name,
           tester'[t].left = Tail(tester[t].left),
           \/ /\ tester[t].pc \in Loading
              /\ tester'[t].waited = tester[t].waited + 1 /\ tester'[t].jobs = tester[t].jobs
           \/ /\ tester[t].pc \in Making
              /\ tester'[t].jobs = tester[t].jobs + 1 /\ tester'[t].waited = tester[t].waited
    PROVE  FollowsScript' /\ tester'[t].left \in Seq({"start", "wait"})
<1> DEFINE s == Script[tester[t].name]
<1>1. PICK n \in 0 .. Len(s) : Did(t, n)
  BY DEF AInv, FollowsScript
<1>2. tester[t].name \in Cases /\ s \in Seq({"start", "wait"})
  BY EngineAssumption DEF AInv, FollowsScript
<1>3. /\ n \in Nat /\ n < Len(s) /\ tester[t].left = SubSeq(s, n + 1, Len(s))
      /\ s[n + 1] = IF tester[t].pc \in Loading THEN "wait" ELSE "start"
  BY <1>1, <1>2 DEF Did
<1>4. tester'[t].left = SubSeq(s, (n + 1) + 1, Len(s)) /\ n + 1 \in 0 .. Len(s)
  <2>1. Len(s) \in Nat
    BY <1>2
  <2>2. \A S, r, m : r \in Seq(S) /\ m \in Nat /\ m < Len(r) =>
            Tail(SubSeq(r, m + 1, Len(r))) = SubSeq(r, (m + 1) + 1, Len(r))
    BY RestOfSeq
  <2> HIDE DEF s
  <2>3. Tail(SubSeq(s, n + 1, Len(s))) = SubSeq(s, (n + 1) + 1, Len(s))
    BY <1>2, <1>3, <2>2
  <2> QED BY <1>3, <2>1, <2>3
<1>5. /\ Of(s, n + 1, "wait") = tester'[t].waited
      /\ Of(s, n + 1, "start") = tester'[t].jobs
  <2>1. Of(s, n, "wait") = tester[t].waited /\ Of(s, n, "start") = tester[t].jobs
    BY <1>1 DEF Did
  <2>2. tester[t].pc \in Making => tester[t].pc \notin Loading
    BY DEF Making, Loading
  <2> QED BY <1>3, <2>1, <2>2, OfOneMore
<1>6. Did(t, n + 1)'
  BY <1>4, <1>5 DEF Did, Making, Loading
<1>7. FollowsScript'
  BY <1>2, <1>4, <1>6, OthersFollow
<1>8. tester'[t].left \in Seq({"start", "wait"})
  BY <1>2, <1>3, RestOfSeq, HeadTailProperties
<1> QED BY <1>7, <1>8

LEMMA LoadAgainStep ==
    ASSUME AInv, NEW t \in Testers, LoadAgain(t)
    PROVE  AInv'
<1> DEFINE ret == IF ResultIn(WaitsFor(t)) # NoResult THEN ResultIn(WaitsFor(t))
                  ELSE tester[t].result
           j   == <<t, tester[t].waited + 1>>
<1>1. /\ tester \in [Testers -> TesterRecs] /\ tester[t].pc = "loadAgain"
      /\ UNCHANGED <<action, job>>
  BY DEF AInv, ActionsTypeOK, LoadAgain
<1>2. tester[t].pc \in Loading
  BY <1>1 DEF Loading
<1>3. Alive(t) /\ tester[t].pc \notin Making \cup Over
  BY <1>1, <1>2, NextIsWait DEF Over, Making
<1>4. CASE ret # "expected"
  <2>1. Over_(t, "raised")
    BY <1>4 DEF LoadAgain
  <2> QED BY <1>1, <1>3, <2>1, EndStep DEF Over
<1>5. CASE ret = "expected"
  <2>1. tester' = [tester EXCEPT ![t].pc = "script", ![t].left = Tail(@),
                                 ![t].waited = @ + 1, ![t].result = NoResult]
    BY <1>5 DEF LoadAgain
  <2>2. /\ \A u \in Testers \ {t} : tester'[u] = tester[u]
        /\ tester'[t].pc = "script" /\ tester'[t].name = tester[t].name
        /\ tester'[t].left = Tail(tester[t].left) /\ tester'[t].jobs = tester[t].jobs
        /\ tester'[t].waited = tester[t].waited + 1 /\ tester'[t].result = NoResult
    BY <1>1, <2>1 DEF TesterRecs
  <2>3. FollowsScript' /\ Tail(tester[t].left) \in Seq({"start", "wait"})
    BY <1>2, <1>3, <2>2, NextStepOfScript
  <2>4. tester[t].waited + 1 \in 1 .. MaxJobs /\ j \in Jobs
    BY <1>2, WaitsForOneStarted
  <2>5. ActionsTypeOK'
    <3>1. tester[t].waited + 1 \in 0 .. MaxJobs /\ NoResult \in Results
      BY <2>4 DEF Results
    <3>2. \A u \in Testers : tester'[u] \in TesterRecs
      <4>1. tester'[t] = [tester[t] EXCEPT !.pc = "script", !.left = Tail(tester[t].left),
                              !.waited = tester[t].waited + 1, !.result = NoResult]
        BY <1>1, <2>1
      <4>2. /\ tester[t] \in TesterRecs /\ Tail(tester[t].left) \in Seq({"start", "wait"})
            /\ tester[t].waited + 1 \in 0 .. MaxJobs /\ NoResult \in Results
        BY <1>1, <2>3, <3>1
      <4>3. tester'[t] \in TesterRecs
        BY ONLY <4>1, <4>2 DEF TesterRecs
      <4> QED BY <1>1, <2>2, <4>3
    <3>3. tester' \in [Testers -> TesterRecs]
      BY <1>1, <2>1, <3>2
    <3> QED BY <1>1, <3>3 DEF AInv, ActionsTypeOK
  <2>6. Slots'
    <3>1. \A u \in Testers :
              /\ tester'[u].jobs = tester[u].jobs
              /\ tester'[u].pc = "none" => tester'[u] = tester[u]
              /\ tester'[u].pc \in Making <=> tester[u].pc \in Making
              /\ tester'[u].pc \in Over <=> tester[u].pc \in Over
      BY <1>3, <2>2 DEF Making, Over
    <3> QED BY <1>1, <3>1 DEF AInv, Slots
  <2>7. OneJob' /\ FilesTell'
    BY <1>1 DEF AInv, OneJob, FilesTell, Tells
  <2>8. job[j].pc \in Finished /\ job[j].code = "expected"
    <3>1. /\ ResultIn(WaitsFor(t)) \in {NoResult, job[j].code}
          /\ job[j].code \in Codes /\ job[j].pc \in Finished
      BY <1>1, ResultIsStored
    <3>2. tester[t].result # NoResult => tester[t].result = job[j].code
      BY DEF AInv, WaitedFor
    <3> QED BY <1>5, <3>1, <3>2 DEF NoResult
  <2>9. WaitedFor'
    <3> SUFFICES ASSUME NEW u \in Testers
                 PROVE  /\ \A n \in 1 .. tester'[u].waited :
                             job[<<u, n>>].pc \in Finished /\ job[<<u, n>>].code = "expected"
                        /\ tester'[u].pc \in {"loadCommand", "loadAgain"} =>
                             job[<<u, tester'[u].waited + 1>>].pc \in Finished
                        /\ tester'[u].result # NoResult =>
                             /\ tester'[u].pc = "loadAgain"
                             /\ tester'[u].result = job[<<u, tester'[u].waited + 1>>].code
      BY <1>1 DEF WaitedFor
    <3>1. CASE u = t
      <4>1. tester[t].waited \in Nat
        BY <1>1, ActionsAssumption DEF TesterRecs
      <4>2. \A n \in 1 .. tester[t].waited :
                job[<<t, n>>].pc \in Finished /\ job[<<t, n>>].code = "expected"
        BY DEF AInv, WaitedFor
      <4>3. \A n \in 1 .. tester[t].waited + 1 :
                job[<<t, n>>].pc \in Finished /\ job[<<t, n>>].code = "expected"
        BY <2>8, <4>1, <4>2
      <4> QED BY <2>2, <3>1, <4>3
    <3>2. CASE u # t
      BY <2>2, <3>2 DEF AInv, WaitedFor
    <3> QED BY <3>1, <3>2
  <2> QED BY <2>3, <2>5, <2>6, <2>7, <2>9 DEF AInv
<1> QED BY <1>4, <1>5

\* The engine starts the process of a test case.
LEMMA SpawnStep ==
    ASSUME AInv, NEW t \in Testers, tester[t].pc = "none", NEW c \in Cases,
           Spawn(t, c, Script[c]), UNCHANGED <<action, job>>
    PROVE  AInv'
<1>1. /\ tester \in [Testers -> TesterRecs] /\ tester[t] = NoTester
      /\ tester' = [tester EXCEPT ![t] = [NoTester EXCEPT !.name = c, !.pc = "script",
                                                          !.left = Script[c]]]
  BY DEF AInv, ActionsTypeOK, Slots, Spawn
<1>2. /\ \A u \in Testers \ {t} : tester'[u] = tester[u]
      /\ tester'[t].pc = "script" /\ tester'[t].name = c /\ tester'[t].left = Script[c]
      /\ tester'[t].jobs = 0 /\ tester'[t].waited = 0 /\ tester'[t].result = NoResult
  BY <1>1 DEF NoTester
<1>3. Script[c] \in Seq({"start", "wait"}) /\ c \in STRING
  BY EngineAssumption
<1>4. ActionsTypeOK'
  <2>1. tester'[t] \in TesterRecs
    BY <1>1, <1>3, ActionsAssumption DEF TesterRecs, NoTester, Results
  <2>2. tester' \in [Testers -> TesterRecs]
    BY <1>1, <2>1
  <2> QED BY <2>2 DEF AInv, ActionsTypeOK
<1>5. Slots'
  <2>1. tester[t].jobs = 0 /\ tester[t].pc = "none"
    BY <1>1 DEF NoTester
  <2>2. \A u \in Testers :
            /\ tester'[u].jobs = tester[u].jobs
            /\ tester'[u].pc = "none" => tester'[u] = tester[u]
            /\ tester'[u].pc \in Making <=> tester[u].pc \in Making
            /\ tester'[u].pc \in Over <=> tester[u].pc \in Over
    BY <1>2, <2>1 DEF Making, Over
  <2> QED BY <2>2 DEF AInv, Slots
<1>6. FollowsScript'
  <2>1. Len(Script[c]) \in Nat /\ SubSeq(Script[c], 0 + 1, Len(Script[c])) = Script[c]
    BY <1>3, SubSeqFull
  <2>2. Did(t, 0)'
    BY <1>2, <2>1, OfNothing DEF Did, Making, Loading
  <2> QED BY <1>2, <2>1, <2>2, OthersFollow
<1>7. OneJob' /\ FilesTell'
  BY DEF AInv, OneJob, FilesTell, Tells
<1>8. WaitedFor'
  BY <1>2 DEF AInv, WaitedFor
<1> QED BY <1>4, <1>5, <1>6, <1>7, <1>8 DEF AInv

\* A step that writes the files of one action, for its job.
LEMMA OwnFiles ==
    ASSUME AInv, NEW j \in Jobs, NEW a \in ActionIds, job'[j].id = a,
           \A k \in Jobs \ {j} : job'[k] = job[k] /\ job[k].id # a,
           \A b \in ActionIds \ {a} : action'[b] = action[b],
           action'[a].state # "none", Tells(j)'
    PROVE  OneJob' /\ FilesTell'
<1>1. OneJob'
  BY DEF AInv, OneJob
<1>2. ASSUME NEW k \in Jobs, job'[k].id # 0 PROVE Tells(k)'
  <2>1. CASE k = j
    BY <2>1
  <2>2. CASE k # j
    <3>1. job'[k] = job[k] /\ job[k].id \in ActionIds \ {a} /\ job[k].id # 0
      BY <1>2, <2>2 DEF AInv, ActionsTypeOK, JobRecs
    <3>2. action'[job[k].id] = action[job[k].id]
      BY <3>1
    <3> QED BY <3>1, <3>2 DEF AInv, FilesTell, Tells
  <2> QED BY <2>1, <2>2
<1>3. \A b \in ActionIds : action'[b].state = "none" => action'[b].command = "none"
  BY DEF AInv, FilesTell
<1> QED BY <1>1, <1>2, <1>3 DEF FilesTell

LEMMA OneJobOf ==
    ASSUME AInv, NEW j \in Jobs, job[j].id # 0
    PROVE  job[j].id \in ActionIds /\ \A k \in Jobs \ {j} : job[k].id # job[j].id
BY DEF AInv, OneJob, ActionsTypeOK, JobRecs

\* A step of a test case that is making an action.
LEMMA MakingStep ==
    ASSUME AInv, NEW t \in Testers, tester[t].pc \in {"adding"} \cup Making,
           tester' \in [Testers -> TesterRecs], action' \in [ActionIds -> ActionRecs],
           \A u \in Testers \ {t} : tester'[u] = tester[u],
           tester'[t].name = tester[t].name, tester'[t].left = tester[t].left,
           tester'[t].jobs = tester[t].jobs, tester'[t].waited = tester[t].waited,
           tester'[t].result = tester[t].result, tester'[t].pc \in Making,
           tester[t].jobs < MaxJobs, NEW a \in ActionIds,
           job' = [job EXCEPT ![<<t, tester[t].jobs + 1>>].id = a],
           tester[t].pc \in Making => a = Mine(t),
           tester[t].pc = "adding" => action[a].state = "none",
           \A b \in ActionIds \ {a} : action'[b] = action[b],
           action'[a].state = "pending", action'[a].command \notin Codes
    PROVE  AInv'
<1> DEFINE j == <<t, tester[t].jobs + 1>>
<1>1. /\ tester[t].jobs \in 0 .. MaxJobs /\ tester[t].jobs + 1 \in 1 .. MaxJobs /\ j \in Jobs
      /\ job \in [Jobs -> JobRecs]
  <2>1. tester[t].jobs \in 0 .. MaxJobs /\ job \in [Jobs -> JobRecs]
    BY DEF AInv, ActionsTypeOK, TesterRecs
  <2>2. tester[t].jobs + 1 \in 1 .. MaxJobs
    BY <2>1, ActionsAssumption
  <2> QED BY <2>1, <2>2, InSlots
<1>2. job[j].pc = "none" /\ ~(tester[t].jobs + 1 <= tester[t].jobs)
  BY <1>1 DEF AInv, Slots
<1>3. /\ \A k \in Jobs \ {j} : job'[k] = job[k]
      /\ job'[j].id = a /\ job'[j].pc = "none" /\ job'[j].code = job[j].code
      /\ job' \in [Jobs -> JobRecs]
  BY <1>1, <1>2 DEF JobRecs
<1>4. /\ tester[t].pc \notin {"none", "loadCommand", "loadAgain"} \cup Over \cup Loading
      /\ tester'[t].pc \notin {"none", "loadCommand", "loadAgain"} \cup Over \cup Loading
  BY DEF Making, Over, Loading
<1>5. \A k \in Jobs \ {j} : job[k].id # a
  <2>1. CASE tester[t].pc \in Making
    BY <1>1, <2>1, DirNumbers DEF AInv, OneJob, Mine
  <2>2. CASE tester[t].pc = "adding"
    <3> SUFFICES ASSUME NEW k \in Jobs, job[k].id = a PROVE FALSE
      OBVIOUS
    <3>1. Tells(k) /\ job[k].pc \in {"none", "started", "refused", "raised", "running", "stored"} \cup Finished
      BY <1>1, DirNumbers DEF AInv, FilesTell, JobRecs, Finished
    <3> QED BY <2>2, <3>1 DEF Tells
  <2> QED BY <2>1, <2>2
<1>6. OneJob' /\ FilesTell'
  <2>1. Tells(j)'
    BY <1>3 DEF Tells, Finished
  <2> QED BY <1>1, <1>3, <1>5, <2>1, OwnFiles
<1>7. ActionsTypeOK'
  BY <1>3 DEF ActionsTypeOK
<1>8. Slots'
  <2> SUFFICES ASSUME NEW u \in Testers, NEW n \in 1 .. MaxJobs
               PROVE  /\ tester'[u].pc = "none" => tester'[u] = NoTester
                      /\ tester'[u].pc \in Making => tester'[u].jobs < MaxJobs
                      /\ job'[<<u, n>>].pc # "none" <=> n <= tester'[u].jobs
                      /\ job'[<<u, n>>].pc # "none" => job'[<<u, n>>].id # 0
                      /\ n > tester'[u].jobs /\ job'[<<u, n>>].id # 0 =>
                            n = tester'[u].jobs + 1 /\ tester'[u].pc \in Making \cup Over
                      /\ n = tester'[u].jobs + 1 /\ tester'[u].pc \in Making =>
                            job'[<<u, n>>].id # 0
    BY <1>1, <1>4 DEF Slots, AInv
  <2>1. <<u, n>> \in Jobs
    BY InSlots
  <2>2. CASE u # t
    <3>1. tester'[u] = tester[u] /\ job'[<<u, n>>] = job[<<u, n>>]
      BY <1>3, <2>1, <2>2
    <3> QED BY <3>1 DEF AInv, Slots
  <2>3. CASE u = t /\ n # tester[t].jobs + 1
    <3>1. job'[<<u, n>>] = job[<<u, n>>]
      BY <1>3, <2>1, <2>3
    <3>2. ~(n > tester[t].jobs /\ job[<<t, n>>].id # 0)
      BY <2>3 DEF AInv, Slots
    <3> QED BY <1>4, <2>3, <3>1, <3>2 DEF AInv, Slots
  <2>4. CASE u = t /\ n = tester[t].jobs + 1
    BY <1>1, <1>2, <1>3, <1>4, <2>4, DirNumbers
  <2> QED BY <2>2, <2>3, <2>4
<1>9. FollowsScript'
  <2>1. Alive(t)
    BY <1>4 DEF Alive
  <2>2. PICK n \in 0 .. Len(Script[tester[t].name]) : Did(t, n)
    BY <2>1 DEF AInv, FollowsScript
  <2>3. Did(t, n)'
    BY <1>4, <2>2 DEF Did
  <2> QED BY <2>1, <2>2, <2>3, OthersFollow DEF AInv, FollowsScript
<1>10. WaitedFor'
  <2> SUFFICES ASSUME NEW u \in Testers
               PROVE  /\ \A n \in 1 .. tester'[u].waited :
                            job'[<<u, n>>].pc \in Finished /\ job'[<<u, n>>].code = "expected"
                      /\ tester'[u].pc \in {"loadCommand", "loadAgain"} =>
                            job'[<<u, tester'[u].waited + 1>>].pc \in Finished
                      /\ tester'[u].result # NoResult =>
                            /\ tester'[u].pc = "loadAgain"
                            /\ tester'[u].result = job'[<<u, tester'[u].waited + 1>>].code
    BY DEF WaitedFor
  <2>1. tester[u].waited \in Nat /\ tester[u].waited <= MaxJobs /\ tester'[u].waited = tester[u].waited
    <3>1. tester[u].waited \in 0 .. MaxJobs
      BY DEF AInv, ActionsTypeOK, TesterRecs
    <3>2. tester'[u].waited = tester[u].waited
      OBVIOUS
    <3> QED BY <3>1, <3>2, ActionsAssumption
  <2>2. \A n \in 1 .. tester[u].waited : <<u, n>> \in Jobs /\ <<u, n>> # j
    <3> SUFFICES ASSUME NEW n \in 1 .. tester[u].waited PROVE <<u, n>> \in Jobs /\ <<u, n>> # j
      OBVIOUS
    <3>1. n \in 1 .. MaxJobs
      BY <2>1, ActionsAssumption
    <3>2. <<u, n>> \in Jobs /\ job[<<u, n>>].pc \in Finished
      BY <3>1, InSlots DEF AInv, WaitedFor
    <3> QED BY <1>2, <3>2 DEF Finished
  <2>3. CASE u = t
    <3>1. tester[t].result = NoResult
      BY <1>4 DEF AInv, WaitedFor
    <3> QED BY <1>3, <1>4, <2>1, <2>2, <2>3, <3>1 DEF AInv, WaitedFor
  <2>4. CASE u # t
    <3>1. tester'[u] = tester[u]
      BY <2>4
    <3>2. \A n : <<u, n>> # j
      BY <2>4
    <3>3. tester[u].pc \in {"loadCommand", "loadAgain"} => <<u, tester[u].waited + 1>> \in Jobs
      BY WaitsForOneStarted DEF Loading
    <3>4. tester[u].result # NoResult => tester[u].pc \in {"loadCommand", "loadAgain"}
      BY DEF AInv, WaitedFor
    <3> QED BY <1>3, <2>2, <3>1, <3>2, <3>3, <3>4 DEF AInv, WaitedFor
  <2> QED BY <2>3, <2>4
<1> QED BY <1>6, <1>7, <1>8, <1>9, <1>10 DEF AInv

LEMMA AddActionStep ==
    ASSUME AInv, NEW t \in Testers, AddAction(t)
    PROVE  AInv'
<1>1. /\ tester \in [Testers -> TesterRecs] /\ tester[t].pc = "adding" /\ Room(t)
      /\ action \in [ActionIds -> ActionRecs]
  BY DEF AInv, ActionsTypeOK, AddAction
<1>2. CASE NewId(t) \in Dirs
  <2>1. Over_(t, "raised") /\ UNCHANGED <<action, job>>
    BY <1>2 DEF AddAction
  <2> QED BY <1>1, <2>1, EndStep DEF Alive, Over
<1>3. CASE NewId(t) \notin Dirs
  <2> DEFINE a == NewId(t)
  <2>1. a \in ActionIds
    BY <1>1, NewIdIsNew DEF AInv
  <2>2. /\ action' = [action EXCEPT ![a].state = "pending"]
        /\ job' = [job EXCEPT ![<<t, tester[t].jobs + 1>>].id = a]
        /\ tester' = [tester EXCEPT ![t].pc = "command", ![t].known = @ \cup {a}]
    BY <1>3 DEF AddAction
  <2>3. /\ action' \in [ActionIds -> ActionRecs]
        /\ \A b \in ActionIds \ {a} : action'[b] = action[b]
        /\ action'[a].state = "pending" /\ action'[a].command = action[a].command
    BY <1>1, <2>1, <2>2 DEF ActionRecs
  <2>4. action[a].state = "none" /\ action[a].command = "none"
    BY <1>3, <2>1 DEF AInv, FilesTell, Dirs
  <2>5. tester' \in [Testers -> TesterRecs]
    <3>1. tester[t].known \cup {a} \in SUBSET ActionIds
      BY <1>1, <2>1 DEF TesterRecs
    <3> QED BY <1>1, <2>2, <3>1 DEF TesterRecs
  <2>6. /\ \A u \in Testers \ {t} : tester'[u] = tester[u]
        /\ tester'[t].pc = "command" /\ tester'[t].name = tester[t].name
        /\ tester'[t].left = tester[t].left /\ tester'[t].jobs = tester[t].jobs
        /\ tester'[t].waited = tester[t].waited /\ tester'[t].result = tester[t].result
    BY <1>1, <2>2 DEF TesterRecs
  <2>7. tester[t].pc \notin Making /\ tester'[t].pc \in Making /\ action'[a].command \notin Codes
        /\ tester[t].jobs < MaxJobs
    BY <1>1, <2>3, <2>4, <2>6 DEF Making, Codes, Room
  <2>8. tester[t].pc \in {"adding"} \cup Making
    BY <1>1
  <2> QED BY <2>1, <2>2, <2>3, <2>4, <2>5, <2>6, <2>7, <2>8, MakingStep
<1> QED BY <1>2, <1>3

LEMMA AddCommandStep ==
    ASSUME AInv, NEW t \in Testers, AddCommand(t)
    PROVE  AInv'
<1>1. /\ tester \in [Testers -> TesterRecs] /\ tester[t].pc = "command"
      /\ action \in [ActionIds -> ActionRecs] /\ job \in [Jobs -> JobRecs]
      /\ action' = [action EXCEPT ![Mine(t)].command = "made"]
      /\ tester' = [tester EXCEPT ![t].pc = "start"] /\ job' = job
  BY DEF AInv, ActionsTypeOK, AddCommand
<1>2. tester[t].pc \in Making /\ "start" \in Making /\ "made" \notin Codes
  BY <1>1 DEF Making, Codes
<1> DEFINE j == <<t, tester[t].jobs + 1>>
<1>3. /\ tester[t].jobs \in 0 .. MaxJobs /\ tester[t].jobs + 1 \in 1 .. MaxJobs /\ j \in Jobs
      /\ job[j].pc = "none" /\ Mine(t) \in ActionIds /\ job[j].id = Mine(t)
  BY <1>2, MakesItsOwn DEF Mine
<1>4. tester[t].jobs < MaxJobs
  BY <1>2 DEF AInv, Slots
<1>5. action[Mine(t)].state = "pending"
  BY <1>3, DirNumbers DEF AInv, FilesTell, Tells
<1>6. /\ action' \in [ActionIds -> ActionRecs]
      /\ \A b \in ActionIds \ {Mine(t)} : action'[b] = action[b]
      /\ action'[Mine(t)].state = "pending" /\ action'[Mine(t)].command = "made"
  BY <1>1, <1>3, <1>5 DEF ActionRecs
<1>7. tester' \in [Testers -> TesterRecs]
  BY <1>1 DEF TesterRecs
<1>8. /\ \A u \in Testers \ {t} : tester'[u] = tester[u]
      /\ tester'[t].pc = "start" /\ tester'[t].name = tester[t].name
      /\ tester'[t].left = tester[t].left /\ tester'[t].jobs = tester[t].jobs
      /\ tester'[t].waited = tester[t].waited /\ tester'[t].result = tester[t].result
  BY <1>1 DEF TesterRecs
<1>9. job' = [job EXCEPT ![j].id = Mine(t)]
  BY <1>1, <1>3 DEF JobRecs
<1>10. tester[t].pc # "adding"
  BY <1>1
<1> QED BY <1>2, <1>3, <1>4, <1>6, <1>7, <1>8, <1>9, <1>10, MakingStep

LEMMA StartStep ==
    ASSUME AInv, NEW t \in Testers, Start(t)
    PROVE  AInv'
<1> DEFINE a == Mine(t)
<1>0. tester[t].pc \in Making
  BY DEF Start, Making
<1> PICK j \in Jobs : j = <<t, tester[t].jobs + 1>>
  BY <1>0, MakesItsOwn
<1>1. /\ tester \in [Testers -> TesterRecs] /\ tester[t].pc = "start"
      /\ action \in [ActionIds -> ActionRecs] /\ job \in [Jobs -> JobRecs]
      /\ action' = [action EXCEPT ![a] = [state |-> "pending", command |-> "pending"]]
      /\ job' = [job EXCEPT ![j].pc = "started"]
      /\ tester' = [tester EXCEPT ![t].pc = "script", ![t].left = Tail(@), ![t].jobs = @ + 1]
  BY DEF AInv, ActionsTypeOK, Start
<1>2. tester[t].pc \in Making /\ tester[t].pc \notin {"none"} \cup Over \cup Loading
  BY <1>1 DEF Making, Over, Loading
<1>3. /\ tester[t].jobs \in 0 .. MaxJobs /\ tester[t].jobs + 1 \in 1 .. MaxJobs /\ j \in Jobs
      /\ job[j].pc = "none" /\ a \in ActionIds /\ job[j].id = a /\ a # 0
  BY <1>2, MakesItsOwn, DirNumbers DEF Mine
<1>4. /\ action' \in [ActionIds -> ActionRecs]
      /\ \A b \in ActionIds \ {a} : action'[b] = action[b]
      /\ action'[a].state = "pending" /\ action'[a].command = "pending"
  BY <1>1, <1>3 DEF ActionRecs
<1>5. /\ \A k \in Jobs \ {j} : job'[k] = job[k]
      /\ job'[j].id = a /\ job'[j].pc = "started" /\ job'[j].code = job[j].code
      /\ job' \in [Jobs -> JobRecs]
  BY <1>1, <1>3 DEF JobRecs
<1>6. /\ \A u \in Testers \ {t} : tester'[u] = tester[u]
      /\ tester'[t].pc = "script" /\ tester'[t].name = tester[t].name
      /\ tester'[t].left = Tail(tester[t].left) /\ tester'[t].jobs = tester[t].jobs + 1
      /\ tester'[t].waited = tester[t].waited /\ tester'[t].result = tester[t].result
  BY <1>1 DEF TesterRecs
<1>7. FollowsScript' /\ tester'[t].left \in Seq({"start", "wait"})
  BY <1>2, <1>6, NextStepOfScript DEF Alive
<1>8. OneJob' /\ FilesTell'
  <2>1. Tells(j)'
    BY <1>4, <1>5 DEF Tells, Finished, Codes
  <2>2. \A k \in Jobs \ {j} : job[k].id # a
    BY <1>3, OneJobOf
  <2> QED BY <1>3, <1>4, <1>5, <2>1, <2>2, OwnFiles
<1>9. ActionsTypeOK'
  <2>1. tester'[t] = [tester[t] EXCEPT !.pc = "script", !.left = Tail(tester[t].left),
                                       !.jobs = tester[t].jobs + 1]
    BY <1>1
  <2>2. /\ tester[t] \in TesterRecs /\ Tail(tester[t].left) \in Seq({"start", "wait"})
        /\ tester[t].jobs + 1 \in 0 .. MaxJobs
    BY <1>1, <1>3, <1>6, <1>7, ActionsAssumption
  <2>3. tester'[t] \in TesterRecs
    BY ONLY <2>1, <2>2 DEF TesterRecs
  <2>4. tester' \in [Testers -> TesterRecs]
    BY <1>1, <2>3
  <2> QED BY <1>4, <1>5, <2>4 DEF ActionsTypeOK
<1>10. Slots'
  <2> SUFFICES ASSUME NEW u \in Testers
               PROVE  /\ tester'[u].pc = "none" => tester'[u] = NoTester
                      /\ tester'[u].pc \in Making => tester'[u].jobs < MaxJobs
                      /\ \A n \in 1 .. MaxJobs :
                            /\ job'[<<u, n>>].pc # "none" <=> n <= tester'[u].jobs
                            /\ job'[<<u, n>>].pc # "none" => job'[<<u, n>>].id # 0
                            /\ n > tester'[u].jobs /\ job'[<<u, n>>].id # 0 =>
                                n = tester'[u].jobs + 1 /\ tester'[u].pc \in Making \cup Over
                            /\ n = tester'[u].jobs + 1 /\ tester'[u].pc \in Making =>
                                job'[<<u, n>>].id # 0
    BY DEF Slots
  <2>1. CASE u # t
    <3>1. tester'[u] = tester[u] /\ \A n \in 1 .. MaxJobs : job'[<<u, n>>] = job[<<u, n>>]
      BY <1>5, <1>6, <2>1, InSlots
    <3> QED BY <3>1 DEF AInv, Slots
  <2>2. CASE u = t
    <3>1. tester'[t].pc \notin {"none"} \cup Making
      BY <1>6 DEF Making
    <3> SUFFICES ASSUME NEW n \in 1 .. MaxJobs
                 PROVE  /\ job'[<<t, n>>].pc # "none" <=> n <= tester[t].jobs + 1
                        /\ job'[<<t, n>>].pc # "none" => job'[<<t, n>>].id # 0
                        /\ n > tester[t].jobs + 1 => job'[<<t, n>>].id = 0
      BY <1>6, <2>2, <3>1
    <3>2. CASE n = tester[t].jobs + 1
      BY <1>3, <1>5, <3>2
    <3>3. CASE n # tester[t].jobs + 1
      <4>1. job'[<<t, n>>] = job[<<t, n>>]
        BY <1>5, <3>3, InSlots
      <4>2. /\ job[<<t, n>>].pc # "none" <=> n <= tester[t].jobs
            /\ job[<<t, n>>].pc # "none" => job[<<t, n>>].id # 0
            /\ n > tester[t].jobs /\ job[<<t, n>>].id # 0 => n = tester[t].jobs + 1
        BY DEF AInv, Slots
      <4> QED BY <1>3, <3>3, <4>1, <4>2, ActionsAssumption
    <3> QED BY <3>2, <3>3
  <2> QED BY <2>1, <2>2
<1>11. WaitedFor'
  <2> SUFFICES ASSUME NEW u \in Testers
               PROVE  /\ \A n \in 1 .. tester'[u].waited :
                            job'[<<u, n>>].pc \in Finished /\ job'[<<u, n>>].code = "expected"
                      /\ tester'[u].pc \in {"loadCommand", "loadAgain"} =>
                            job'[<<u, tester'[u].waited + 1>>].pc \in Finished
                      /\ tester'[u].result # NoResult =>
                            /\ tester'[u].pc = "loadAgain"
                            /\ tester'[u].result = job'[<<u, tester'[u].waited + 1>>].code
    BY DEF WaitedFor
  <2>1. /\ tester[u].waited \in 0 .. MaxJobs /\ tester'[u].waited = tester[u].waited
        /\ tester'[u].result = tester[u].result
    BY <1>1, <1>6 DEF TesterRecs
  <2>2. \A n \in 1 .. tester[u].waited : <<u, n>> \in Jobs /\ <<u, n>> # j
    <3> SUFFICES ASSUME NEW n \in 1 .. tester[u].waited PROVE <<u, n>> \in Jobs /\ <<u, n>> # j
      OBVIOUS
    <3>1. n \in 1 .. MaxJobs
      BY <2>1, ActionsAssumption
    <3>2. <<u, n>> \in Jobs /\ job[<<u, n>>].pc \in Finished
      BY <3>1, InSlots DEF AInv, WaitedFor
    <3> QED BY <1>3, <3>2 DEF Finished
  <2>3. CASE u = t
    <3>1. tester[t].result = NoResult
      BY <1>1 DEF AInv, WaitedFor
    <3> QED BY <1>5, <1>6, <2>1, <2>2, <2>3, <3>1 DEF AInv, WaitedFor
  <2>4. CASE u # t
    <3>1. tester'[u] = tester[u]
      BY <1>6, <2>4
    <3>2. \A n : <<u, n>> # j
      BY <2>4
    <3>3. tester[u].pc \in {"loadCommand", "loadAgain"} => <<u, tester[u].waited + 1>> \in Jobs
      BY WaitsForOneStarted DEF Loading
    <3>4. tester[u].result # NoResult => tester[u].pc \in {"loadCommand", "loadAgain"}
      BY DEF AInv, WaitedFor
    <3> QED BY <1>5, <2>2, <3>1, <3>2, <3>3, <3>4 DEF AInv, WaitedFor
  <2> QED BY <2>3, <2>4
<1> QED BY <1>7, <1>8, <1>9, <1>10, <1>11 DEF AInv

\* A step of a job that is running, on its own files.
LEMMA JobStep ==
    ASSUME AInv, NEW j \in Jobs, job[j].pc # "none", UNCHANGED tester,
           job' \in [Jobs -> JobRecs], action' \in [ActionIds -> ActionRecs],
           \A k \in Jobs \ {j} : job'[k] = job[k],
           job'[j].id = job[j].id, job'[j].pc # "none",
           job[j].pc \in Finished => job'[j].pc \in Finished /\ job'[j].code = job[j].code,
           \A b \in ActionIds \ {job[j].id} : action'[b] = action[b],
           action'[job[j].id].state # "none", Tells(j)'
    PROVE  AInv'
<1>1. job[j].id # 0
  <2>1. PICK t \in Testers, n \in 1 .. MaxJobs : j = <<t, n>>
    BY DEF Jobs
  <2> QED BY <2>1 DEF AInv, Slots
<1>2. OneJob' /\ FilesTell'
  BY <1>1, OneJobOf, OwnFiles
<1>3. ActionsTypeOK'
  BY DEF AInv, ActionsTypeOK
<1>4. \A k \in Jobs :
          /\ job'[k].pc # "none" <=> job[k].pc # "none"
          /\ job'[k].id = job[k].id
          /\ job[k].pc \in Finished => job'[k].pc \in Finished /\ job'[k].code = job[k].code
  OBVIOUS
<1>5. Slots'
  <2>1. \A t \in Testers : \A n \in 1 .. MaxJobs :
            /\ job'[<<t, n>>].pc # "none" <=> job[<<t, n>>].pc # "none"
            /\ job'[<<t, n>>].id = job[<<t, n>>].id
    BY <1>4, InSlots
  <2> QED BY <2>1 DEF AInv, Slots
<1>6. FollowsScript'
  BY DEF AInv, FollowsScript, Did, Alive
<1>7. WaitedFor'
  <2> SUFFICES ASSUME NEW u \in Testers
               PROVE  /\ \A n \in 1 .. tester[u].waited :
                            job'[<<u, n>>].pc \in Finished /\ job'[<<u, n>>].code = "expected"
                      /\ tester[u].pc \in {"loadCommand", "loadAgain"} =>
                            job'[<<u, tester[u].waited + 1>>].pc \in Finished
                      /\ tester[u].result # NoResult =>
                            /\ tester[u].pc = "loadAgain"
                            /\ tester[u].result = job'[<<u, tester[u].waited + 1>>].code
    BY DEF WaitedFor
  <2>1. tester[u].waited \in 0 .. MaxJobs
    BY DEF AInv, ActionsTypeOK, TesterRecs
  <2>2. \A n \in 1 .. tester[u].waited : <<u, n>> \in Jobs
    BY <2>1, InSlots, ActionsAssumption
  <2>3. tester[u].pc \in {"loadCommand", "loadAgain"} => <<u, tester[u].waited + 1>> \in Jobs
    BY WaitsForOneStarted DEF Loading
  <2> QED BY <1>4, <2>2, <2>3 DEF AInv, WaitedFor
<1> QED BY <1>2, <1>3, <1>5, <1>6, <1>7 DEF AInv

LEMMA LoadAndRunStep ==
    ASSUME AInv, NEW j \in Jobs, LoadAndRun(j)
    PROVE  AInv'
<1> DEFINE a == job[j].id
<1>1. /\ job \in [Jobs -> JobRecs] /\ action \in [ActionIds -> ActionRecs]
      /\ job[j].pc = "started" /\ tester' = tester
  BY DEF AInv, ActionsTypeOK, LoadAndRun
<1>2. a \in ActionIds /\ a # 0 /\ Tells(j)
  <2>1. PICK t \in Testers, n \in 1 .. MaxJobs : j = <<t, n>>
    BY DEF Jobs
  <2>2. a # 0
    BY <1>1, <2>1 DEF AInv, Slots
  <2> QED BY <1>1, <2>2 DEF AInv, FilesTell, JobRecs
<1>3. action[a].state = "pending" /\ action[a].command \notin Codes
  BY <1>1, <1>2 DEF Tells
<1>4. ASSUME NEW pc \in {"raised", "refused"}, JobTo(j, pc), action' = action
      PROVE  AInv'
  <2>1. job' \in [Jobs -> JobRecs] /\ (\A k \in Jobs \ {j} : job'[k] = job[k])
        /\ job'[j].id = a /\ job'[j].pc = pc
    BY <1>1, <1>4 DEF JobTo, JobRecs
  <2>2. Tells(j)'
    BY <1>3, <1>4, <2>1 DEF Tells, Finished
  <2> QED BY <1>1, <1>3, <1>4, <2>1, <2>2, JobStep DEF Finished
<1>5. CASE /\ action' = [action EXCEPT ![a] = [state |-> "running", command |-> "running"]]
           /\ JobTo(j, "running")
  <2>1. job' \in [Jobs -> JobRecs] /\ (\A k \in Jobs \ {j} : job'[k] = job[k])
        /\ job'[j].id = a /\ job'[j].pc = "running"
    BY <1>1, <1>5 DEF JobTo, JobRecs
  <2>2. /\ action' \in [ActionIds -> ActionRecs]
        /\ \A b \in ActionIds \ {a} : action'[b] = action[b]
        /\ action'[a].state = "running" /\ action'[a].command = "running"
    BY <1>1, <1>2, <1>5 DEF ActionRecs
  <2>3. Tells(j)'
    BY <2>1, <2>2 DEF Tells, Finished, Codes
  <2> QED BY <1>1, <2>1, <2>2, <2>3, JobStep DEF Finished
<1> QED BY <1>4, <1>5 DEF LoadAndRun

\* What the files tell of a job that has started its command.
LEMMA StartedJob ==
    ASSUME AInv, NEW j \in Jobs, job[j].pc \in {"running", "stored"} \cup Finished
    PROVE  /\ job \in [Jobs -> JobRecs] /\ action \in [ActionIds -> ActionRecs]
           /\ job[j].id \in ActionIds /\ job[j].id # 0 /\ Tells(j)
<1>1. job \in [Jobs -> JobRecs] /\ action \in [ActionIds -> ActionRecs]
  BY DEF AInv, ActionsTypeOK
<1>2. PICK t \in Testers, n \in 1 .. MaxJobs : j = <<t, n>>
  BY DEF Jobs
<1>3. job[j].id # 0
  BY <1>2 DEF AInv, Slots, Finished
<1> QED BY <1>1, <1>3 DEF AInv, FilesTell, JobRecs

LEMMA CommandEndsStep ==
    ASSUME AInv, NEW j \in Jobs, CommandEnds(j)
    PROVE  AInv'
<1> DEFINE a == job[j].id
<1>1. PICK code \in Codes :
          /\ job' = [job EXCEPT ![j].pc = "stored", ![j].code = code]
          /\ action' = [action EXCEPT ![a].command = code]
  BY DEF CommandEnds
<1>2. job[j].pc = "running" /\ tester' = tester
  BY DEF CommandEnds
<1>3. /\ job \in [Jobs -> JobRecs] /\ action \in [ActionIds -> ActionRecs]
      /\ a \in ActionIds /\ a # 0 /\ Tells(j)
  BY <1>2, StartedJob
<1>4. job' \in [Jobs -> JobRecs] /\ (\A k \in Jobs \ {j} : job'[k] = job[k])
      /\ job'[j].id = a /\ job'[j].pc = "stored" /\ job'[j].code = code
  BY <1>1, <1>3 DEF JobRecs, Results
<1>5. /\ action' \in [ActionIds -> ActionRecs]
      /\ \A b \in ActionIds \ {a} : action'[b] = action[b]
      /\ action'[a].state = action[a].state /\ action'[a].command = code
  BY <1>1, <1>3 DEF ActionRecs
<1>6. action[a].state = "running"
  BY <1>2, <1>3 DEF Tells
<1>7. Tells(j)'
  BY <1>4, <1>5, <1>6 DEF Tells, Finished
<1> QED BY <1>2, <1>4, <1>5, <1>6, <1>7, JobStep DEF Finished

\* The stores that follow it.
LEMMA StoreStep ==
    ASSUME AInv, NEW j \in Jobs, StoreAction(j) \/ Truncate(j) \/ StoreCommand(j)
    PROVE  AInv'
<1> DEFINE a == job[j].id
<1>1. job[j].pc \in {"stored", "stopped", "rewriting"} /\ tester' = tester
  BY DEF StoreAction, Truncate, StoreCommand
<1>2. /\ job \in [Jobs -> JobRecs] /\ action \in [ActionIds -> ActionRecs]
      /\ a \in ActionIds /\ a # 0 /\ Tells(j)
  BY <1>1, StartedJob DEF Finished
<1>3. /\ job[j].code \in Codes
      /\ action[a].state = IF job[j].pc = "stored" THEN "running" ELSE "done"
      /\ action[a].command \in {job[j].code, "empty"}
  BY <1>1, <1>2 DEF Tells, Finished
<1>4. PICK pc \in Finished : job' = [job EXCEPT ![j].pc = pc]
  BY DEF StoreAction, Truncate, StoreCommand, JobTo, Finished
<1>5. job' \in [Jobs -> JobRecs] /\ (\A k \in Jobs \ {j} : job'[k] = job[k])
      /\ job'[j].id = a /\ job'[j].pc = pc /\ job'[j].code = job[j].code
  BY <1>2, <1>4 DEF JobRecs, Finished
<1>6. /\ action' \in [ActionIds -> ActionRecs]
      /\ \A b \in ActionIds \ {a} : action'[b] = action[b]
      /\ action'[a].state = "done" /\ action'[a].command \in {job[j].code, "empty"}
  <2>1. CASE StoreAction(j)
    <3>1. job[j].pc = "stored" /\ action' = [action EXCEPT ![a].state = "done"]
      BY <2>1 DEF StoreAction
    <3> QED BY <1>2, <1>3, <3>1 DEF ActionRecs
  <2>2. CASE Truncate(j)
    <3>1. job[j].pc = "stopped" /\ action' = [action EXCEPT ![a].command = "empty"]
      BY <2>2 DEF Truncate
    <3> QED BY <1>2, <1>3, <3>1 DEF ActionRecs
  <2>3. CASE StoreCommand(j)
    <3>1. job[j].pc = "rewriting" /\ action' = [action EXCEPT ![a].command = job[j].code]
      BY <2>3 DEF StoreCommand
    <3> QED BY <1>2, <1>3, <3>1 DEF ActionRecs
  <2> QED BY <2>1, <2>2, <2>3
<1>7. Tells(j)'
  BY <1>3, <1>5, <1>6 DEF Tells, Finished
<1>8. job[j].pc # "none" /\ job'[j].pc # "none"
  BY <1>1, <1>5 DEF Finished
<1> QED BY <1>1, <1>5, <1>6, <1>7, <1>8, JobStep

LEMMA ActionsInitially == ActionsInit => AInv
<1> SUFFICES ASSUME ActionsInit PROVE AInv
  OBVIOUS
<1>1. ActionsTypeOK
  <2>1. NoAction \in ActionRecs /\ NoJob \in JobRecs
    BY DEF NoAction, NoJob, ActionRecs, JobRecs, Results
  <2>2. NoTester \in TesterRecs
    <3>1. "none" \in STRING /\ <<>> \in Seq({"start", "wait"})
      BY EngineAssumption DEF NoName
    <3>2. 0 \in 0 .. MaxJobs /\ {} \in SUBSET ActionIds /\ NoResult \in Results
      BY ActionsAssumption DEF Results
    <3> QED BY <3>1, <3>2 DEF NoTester, TesterRecs
  <2> QED BY <2>1, <2>2 DEF ActionsInit, ActionsTypeOK
<1>2. \A t \in Testers : /\ tester[t] = NoTester /\ tester[t].pc = "none" /\ tester[t].jobs = 0
                         /\ tester[t].waited = 0 /\ tester[t].result = NoResult
  BY DEF ActionsInit, NoTester
<1>3. \A j \in Jobs : job[j].pc = "none" /\ job[j].id = 0
  BY DEF ActionsInit, NoJob
<1>4. \A a \in ActionIds : action[a].command = "none"
  BY DEF ActionsInit, NoAction
<1>5. Slots
  <2>1. "none" \notin Making
    BY DEF Making
  <2> QED BY <1>2, <1>3, <2>1, InSlots DEF Slots
<1>6. FollowsScript
  BY <1>2 DEF FollowsScript, Alive
<1>7. OneJob /\ FilesTell
  BY <1>3, <1>4 DEF OneJob, FilesTell
<1>8. WaitedFor
  BY <1>2 DEF WaitedFor
<1> QED BY <1>1, <1>5, <1>6, <1>7, <1>8 DEF AInv

-----------------------------------------------------------------------------
\* The bundle: what writeToXML makes of the cases at the top and of those of the
\* specifications.

\* Induction up to a number, on the set of the numbers a fact holds of.
LEMMA UpTo ==
    ASSUME NEW n \in Nat, NEW T, 0 \in T, \A m \in 0 .. n : m < n /\ m \in T => m + 1 \in T
    PROVE  \A m \in 0 .. n : m \in T
<1> DEFINE Left == {m \in 0 .. n : m \notin T}
<1> SUFFICES ASSUME Left # {} PROVE FALSE
  OBVIOUS
<1>0. Left \in SUBSET Nat
  OBVIOUS
<1>1. PICK m \in Left : \A k \in Left : m <= k
  BY <1>0, LowestExists
<1>2. m \in Nat /\ m # 0 /\ m - 1 \in 0 .. n /\ m - 1 \notin Left
  BY <1>1
<1>3. (m - 1) + 1 \in T
  BY <1>1, <1>2
<1> QED BY <1>1, <1>2, <1>3

\* The recursive function in FlattenSeq is there.
FlatOf(ss, f, n) == f = [i \in 1 .. n |-> IF i = 1 THEN ss[i] ELSE f[i - 1] \o ss[i]]

LEMMA FlatExists ==
    ASSUME NEW ss, NEW n \in Nat
    PROVE  \E f : FlatOf(ss, f, n)
<1> DEFINE T == {m \in 0 .. n : \E f : FlatOf(ss, f, m)}
<1>1. 0 \in T
  <2> DEFINE g == [i \in 1 .. 0 |-> 0]
  <2>1. g = [i \in 1 .. 0 |-> IF i = 1 THEN ss[i] ELSE g[i - 1] \o ss[i]]
    OBVIOUS
  <2>2. FlatOf(ss, g, 0)
    BY <2>1 DEF FlatOf
  <2> QED BY <2>2
<1>2. ASSUME NEW m \in 0 .. n, m < n, m \in T PROVE m + 1 \in T
  <2>1. PICK f : FlatOf(ss, f, m)
    BY <1>2
  <2> DEFINE last == IF m + 1 = 1 THEN ss[m + 1] ELSE f[m] \o ss[m + 1]
             g    == [i \in 1 .. m + 1 |-> IF i = m + 1 THEN last ELSE f[i]]
  <2>2. ASSUME NEW i \in 1 .. m + 1
        PROVE  g[i] = IF i = 1 THEN ss[i] ELSE g[i - 1] \o ss[i]
    <3>1. CASE i = m + 1
      <4>1. g[i] = last
        BY <3>1
      <4>2. i # 1 => g[i - 1] = f[m]
        BY <3>1, <1>2
      <4> QED BY <3>1, <4>1, <4>2
    <3>2. CASE i # m + 1
      <4>1. i \in 1 .. m /\ g[i] = f[i]
        BY <3>2, <1>2
      <4>2. f[i] = IF i = 1 THEN ss[i] ELSE f[i - 1] \o ss[i]
        BY <2>1, <4>1 DEF FlatOf
      <4>3. i # 1 => g[i - 1] = f[i - 1]
        BY <4>1, <1>2
      <4> QED BY <4>1, <4>2, <4>3
    <3> QED BY <3>1, <3>2
  <2>3. g = [i \in 1 .. m + 1 |-> IF i = 1 THEN ss[i] ELSE g[i - 1] \o ss[i]]
    <3> HIDE DEF last
    <3> QED BY <2>2
  <2>4. FlatOf(ss, g, m + 1)
    BY <2>3 DEF FlatOf
  <2> QED BY <1>2, <2>4
<1> HIDE DEF T
<1>3. \A m \in 0 .. n : m \in T
  BY <1>1, <1>2, UpTo
<1>4. n \in T
  BY <1>3
<1> QED BY <1>4 DEF T

\* Where the sequences are in the flat one: off[i] elements are in the first i.
Flattens(s, ss, n, off) ==
    /\ off \in [0 .. n -> Nat] /\ off[0] = 0 /\ off[n] = Len(s)
    /\ \A i \in 0 .. n : off[i] <= off[n]
    /\ \A i \in 1 .. n :
        /\ off[i] = off[i - 1] + Len(ss[i])
        /\ \A k \in 1 .. Len(ss[i]) : s[off[i - 1] + k] = ss[i][k]

LEMMA FlattensOneMore ==
    ASSUME NEW S, NEW s \in Seq(S), NEW n \in Nat, NEW ss,
           \A i \in 1 .. n + 1 : ss[i] \in Seq(S), NEW o, Flattens(s, ss, n, o)
    PROVE  /\ s \o ss[n + 1] \in Seq(S)
           /\ \E off : Flattens(s \o ss[n + 1], ss, n + 1, off)
<1> DEFINE r   == s \o ss[n + 1]
           off == [i \in 0 .. n + 1 |-> IF i = n + 1 THEN o[n] + Len(ss[n + 1]) ELSE o[i]]
<1>1. ss[n + 1] \in Seq(S) /\ n + 1 \in 1 .. n + 1
  OBVIOUS
<1>2. /\ Len(s) \in Nat /\ Len(ss[n + 1]) \in Nat /\ o[n] = Len(s) /\ o \in [0 .. n -> Nat]
      /\ o[0] = 0
  BY <1>1 DEF Flattens
<1>3. /\ r \in Seq(S) /\ Len(r) = o[n] + Len(ss[n + 1])
      /\ \A j \in 1 .. o[n] : r[j] = s[j]
      /\ \A k \in 1 .. Len(ss[n + 1]) : r[o[n] + k] = ss[n + 1][k]
  BY <1>1, <1>2
<1>4. /\ off \in [0 .. n + 1 -> Nat]
      /\ off[n + 1] = o[n] + Len(ss[n + 1]) /\ \A i \in 0 .. n : off[i] = o[i]
  <2>1. \A i \in 0 .. n : o[i] \in Nat /\ i \in 0 .. n + 1 /\ i # n + 1
    BY <1>2
  <2>2. o[n] \in Nat /\ n + 1 \in 0 .. n + 1 /\ \A i \in 0 .. n + 1 : i # n + 1 => i \in 0 .. n
    BY <1>2
  <2> QED BY <1>2, <2>1, <2>2
<1> HIDE DEF off, r
<1>5. off[0] = 0
  BY <1>2, <1>4
<1>6. \A i \in 0 .. n + 1 : off[i] <= off[n + 1]
  <2>1. \A i \in 0 .. n : o[i] <= o[n] /\ o[i] \in Nat
    BY <1>2 DEF Flattens
  <2> QED BY <1>2, <1>4, <2>1
<1>7. ASSUME NEW i \in 1 .. n + 1
      PROVE  /\ off[i] = off[i - 1] + Len(ss[i])
             /\ \A k \in 1 .. Len(ss[i]) : r[off[i - 1] + k] = ss[i][k]
  <2>1. CASE i = n + 1
    <3>1. i - 1 = n /\ off[i - 1] = o[n]
      BY <1>4, <2>1
    <3> QED BY <1>3, <1>4, <2>1, <3>1
  <2>2. CASE i # n + 1
    <3>1. i \in 1 .. n /\ i - 1 \in 0 .. n /\ i \in 0 .. n
      BY <2>2
    <3>2. /\ o[i] = o[i - 1] + Len(ss[i]) /\ off[i] = o[i] /\ off[i - 1] = o[i - 1]
          /\ \A k \in 1 .. Len(ss[i]) : s[o[i - 1] + k] = ss[i][k]
      BY <1>4, <3>1 DEF Flattens
    <3>3. o[i] <= o[n] /\ o[i] \in Nat /\ o[i - 1] \in Nat /\ o[n] \in Nat
      BY <1>2, <3>1 DEF Flattens
    <3>4. ASSUME NEW k \in 1 .. Len(ss[i]) PROVE r[off[i - 1] + k] = ss[i][k]
      <4>1. Len(ss[i]) \in Nat
        OBVIOUS
      <4>2. o[i - 1] + k \in 1 .. o[n]
        BY <3>2, <3>3, <4>1
      <4> QED BY <1>3, <3>2, <4>2
    <3> QED BY <3>2, <3>4
  <2> QED BY <2>1, <2>2
<1>8. Flattens(r, ss, n + 1, off)
  BY <1>3, <1>4, <1>5, <1>6, <1>7 DEF Flattens
<1> QED BY <1>3, <1>8 DEF r

LEMMA FlattenIs ==
    ASSUME NEW S, NEW ss \in Seq(Seq(S))
    PROVE  /\ FlattenSeq(ss) \in Seq(S)
           /\ \E off : Flattens(FlattenSeq(ss), ss, Len(ss), off)
<1> DEFINE n == Len(ss)
           f == CHOOSE h : FlatOf(ss, h, n)
<1>1. n \in Nat /\ \A i \in 1 .. n : ss[i] \in Seq(S)
  OBVIOUS
<1>2. <<>> \in Seq(S) /\ \E off : Flattens(<<>>, ss, 0, off)
  <2> DEFINE off == [i \in 0 .. 0 |-> 0]
  <2>1. Flattens(<<>>, ss, 0, off)
    BY DEF Flattens
  <2> QED BY <2>1
<1>3. CASE n = 0
  <2>1. ss = <<>> /\ FlattenSeq(ss) = ss
    BY <1>3, EmptySeq DEF FlattenSeq
  <2> QED BY <1>2, <1>3, <2>1
<1>4. CASE n # 0
  <2>1. FlatOf(ss, f, n)
    BY <1>1, FlatExists
  <2>2. FlattenSeq(ss) = f[n]
    <3>1. f = CHOOSE h : h = [i \in 1 .. Len(ss) |-> IF i = 1 THEN ss[i] ELSE h[i - 1] \o ss[i]]
      BY DEF FlatOf
    <3> QED BY <1>4, <3>1 DEF FlattenSeq
  <2> DEFINE V(m) == IF m = 0 THEN <<>> ELSE f[m]
             T == {m \in 0 .. n : V(m) \in Seq(S) /\ \E off : Flattens(V(m), ss, m, off)}
  <2> HIDE DEF f
  <2>3. ASSUME NEW m \in 0 .. n, m < n, m \in T PROVE m + 1 \in T
    <3>1. m \in Nat /\ m + 1 \in 1 .. n /\ m + 1 \in 0 .. n /\ m + 1 # 0 /\ (m + 1) - 1 = m
      BY <1>1, <2>3
    <3>2. \A i \in 1 .. m + 1 : ss[i] \in Seq(S)
      BY <1>1, <3>1
    <3>3. V(m + 1) = V(m) \o ss[m + 1]
      <4>1. f[m + 1] = IF m + 1 = 1 THEN ss[m + 1] ELSE f[m] \o ss[m + 1]
        BY <2>1, <3>1 DEF FlatOf
      <4>2. <<>> \o ss[m + 1] = ss[m + 1]
        BY <1>1, <3>1, ConcatEmptySeq
      <4>3. m + 1 = 1 <=> m = 0
        BY <3>1
      <4> QED BY <3>1, <4>1, <4>2, <4>3
    <3>4. PICK o : Flattens(V(m), ss, m, o)
      BY <2>3
    <3>5. V(m) \in Seq(S)
      BY <2>3
    <3> HIDE DEF V
    <3>6. V(m) \o ss[m + 1] \in Seq(S) /\ \E off : Flattens(V(m) \o ss[m + 1], ss, m + 1, off)
      BY <3>1, <3>2, <3>4, <3>5, FlattensOneMore
    <3> QED BY <3>1, <3>3, <3>6
  <2>4. 0 \in T
    BY <1>1, <1>2
  <2> HIDE DEF T
  <2>5. \A m \in 0 .. n : m \in T
    BY <1>1, <2>3, <2>4, UpTo
  <2>6. n \in T
    BY <1>1, <2>5
  <2> QED BY <1>4, <2>2, <2>6 DEF T
<1> QED BY <1>3, <1>4
-----------------------------------------------------------------------------
\* What holds of the actions holds after any step.

LEMMA TesterStep ==
    ASSUME AInv, NEW t \in Testers,
           RunScript(t) \/ Fails(t) \/ Skips(t) \/ KillTester(t)
    PROVE  AInv'
<1>1. ASSUME NEW how \in {"passed", "failed", "skipped"}, tester[t].pc = "script",
             Over_(t, how), UNCHANGED <<action, job>>
      PROVE  AInv'
  <2>1. Alive(t) /\ how \in Over
    BY <1>1 DEF Alive, Over
  <2> QED BY <1>1, <2>1, EndStep
<1>2. CASE Passes(t)
  BY <1>1, <1>2 DEF Passes
<1>3. CASE Fails(t)
  BY <1>1, <1>3 DEF Fails
<1>4. CASE Skips(t)
  BY <1>1, <1>4 DEF Skips
<1>5. CASE KillTester(t)
  <2>1. "killed" \in Over
    BY DEF Over
  <2> QED BY <1>5, <2>1, EndStep DEF KillTester
<1> QED BY <1>2, <1>3, <1>4, <1>5, InstanceStep, AddActionStep, AddCommandStep, StartStep,
           BeginWaitStep, LoadActionStep, LoadCommandStep, LoadAgainStep DEF RunScript

LEMMA AnyJobStep ==
    ASSUME AInv, NEW j \in Jobs, Job(j) \/ CommandEnds(j)
    PROVE  AInv'
BY LoadAndRunStep, CommandEndsStep, StoreStep DEF Job

LEMMA SameActions == AInv /\ UNCHANGED actionVars => AInv'
BY DEF actionVars, AInv, ActionsTypeOK, Slots, FollowsScript, Did, Alive, OneJob, FilesTell, Tells,
       WaitedFor

-----------------------------------------------------------------------------
\* The engines run one after the other, each with a case in hand that is its own.

InHand == {"begin", "truncate", "status", "run"}

InTurn ==
    /\ \A d, e \in Engines : d < e /\ eng[e].pc # "none" => eng[d].pc \in Ended
    /\ \A e \in Engines : eng[e].pc = "none" => eng[e] = NoEngine /\ Begun(e) = {}
CaseInHand ==
    \A e \in Engines :
        /\ eng[e].pc \in InHand => eng[e].case \in Cases \ Disabled
        /\ eng[e].pc = "run" => /\ eng[e].tester \in Testers
                                /\ tester[eng[e].tester].pc # "none"
                                /\ tester[eng[e].tester].name = eng[e].case

\* A case begun after the stop was chosen before it: then the next is not chosen.
LateOnce ==
    \A e \in Engines : eng[e].late # 0 =>
        eng[e].late = 1 /\ eng[e].halt /\ (InOrder(e) \/ eng[e].pc # "begin")

EInv == AInv /\ TypeOK /\ InTurn /\ CaseInHand /\ LateOnce
\* A bundle and the file made of it.
LEMMA PhasesAre == Range(Phases) = {"initial", "main", "final"}
<1>1. DOMAIN Phases = {1, 2, 3} /\ Phases[1] = "initial" /\ Phases[2] = "main"
      /\ Phases[3] = "final"
  BY DEF Phases
<1>2. Range(Phases) = {Phases[i] : i \in DOMAIN Phases}
  BY DEF Range
<1> QED BY <1>1, <1>2

Lists == [initial : Seq(Cases), main : Seq(Cases), final : Seq(Cases)]

LEMMA BundleIs ==
    ASSUME NEW b \in Bundles
    PROVE  /\ b.mode \in Modes /\ b.top \in Lists
           /\ b.specs \in Seq(Lists) /\ Len(b.specs) \in Nat
           /\ \A i \in 1 .. Len(b.specs) : b.specs[i] \in Lists
<1>1. b \in [mode : Modes, top : Lists, specs : Seq(Lists)]
  BY EngineAssumption DEF BundleRecs, Lists
<1>2. b.mode \in Modes /\ b.top \in Lists /\ b.specs \in Seq(Lists)
  BY <1>1
<1> QED BY <1>2

LEMMA ListOfPhase ==
    ASSUME NEW l \in Lists, NEW p \in Range(Phases)
    PROVE  l[p] \in Seq(Cases)
BY PhasesAre DEF Lists

LEMMA OrderIs ==
    ASSUME NEW n \in Nat, NEW o \in Orders(n)
    PROVE  /\ DOMAIN o = 1 .. n /\ \A i \in 1 .. n : o[i] \in 1 .. n
           /\ \A i, j \in 1 .. n : o[i] = o[j] => i = j
BY DEF Orders

\* What the file has of the specifications, and where.
InSpecs(b, o, p) == [i \in DOMAIN o |-> b.specs[o[i]][p]]

LEMMA SpecCasesAre ==
    ASSUME NEW b \in Bundles, NEW o \in Orders(Len(b.specs)), NEW p \in Range(Phases)
    PROVE  /\ SpecCases(b, o, p) \in Seq(Cases)
           /\ Len(InSpecs(b, o, p)) = Len(b.specs)
           /\ \E off : Flattens(SpecCases(b, o, p), InSpecs(b, o, p), Len(b.specs), off)
<1> DEFINE n == Len(b.specs)
           ss == InSpecs(b, o, p)
<1>1. n \in Nat /\ \A i \in 1 .. n : b.specs[i] \in Lists
  BY BundleIs
<1>2. DOMAIN o = 1 .. n /\ \A i \in 1 .. n : o[i] \in 1 .. n
  BY <1>1, OrderIs
<1>3. \A i \in 1 .. n : b.specs[o[i]][p] \in Seq(Cases)
  BY <1>1, <1>2, ListOfPhase
<1>4. ss = [i \in 1 .. n |-> b.specs[o[i]][p]]
  BY <1>2 DEF InSpecs
<1>5. ss \in Seq(Seq(Cases)) /\ Len(ss) = n
  BY <1>1, <1>3, <1>4
<1>6. SpecCases(b, o, p) = FlattenSeq(ss)
  BY DEF SpecCases, InSpecs
<1> HIDE DEF ss
<1>7. /\ FlattenSeq(ss) \in Seq(Cases)
      /\ \E off : Flattens(FlattenSeq(ss), ss, Len(ss), off)
  BY <1>5, FlattenIs
<1>8. \E off : Flattens(SpecCases(b, o, p), ss, n, off)
  BY <1>5, <1>6, <1>7
<1> QED BY <1>5, <1>6, <1>7, <1>8 DEF ss

LEMMA MergeIs ==
    ASSUME NEW b \in Bundles, NEW o \in Orders(Len(b.specs))
    PROVE  /\ Merge(b, o).from = b /\ Merge(b, o).mode = b.mode
           /\ Merge(b, o).list \in [Range(Phases) -> Seq(Cases)]
<1>1. ASSUME NEW p \in Range(Phases)
      PROVE  SpecCases(b, o, p) \in Seq(Cases) /\ b.top[p] \in Seq(Cases)
  BY BundleIs, ListOfPhase, SpecCasesAre
<1>2. \A p \in Range(Phases) : SpecCases(b, o, p) \o b.top[p] \in Seq(Cases)
                               /\ b.top[p] \o SpecCases(b, o, p) \in Seq(Cases)
  BY <1>1
<1> QED BY <1>2 DEF Merge

-----------------------------------------------------------------------------
\* Types, and the engines' turns.

LEMMA EngineNumbers == Engines \subseteq Nat \ {0} /\ \A d, e \in Engines : d < e \/ d = e \/ e < d
BY EngineAssumption DEF Engines

LEMMA Alone ==
    ASSUME EInv, NEW e \in Engines, Running(e), NEW d \in Engines \ {e}
    PROVE  eng[d].pc \in Ended \cup {"none"}
<1>1. eng[e].pc # "none" /\ eng[e].pc \notin Ended
  BY DEF Running
<1>2. d < e \/ e < d
  BY EngineNumbers
<1> QED BY <1>1, <1>2 DEF EInv, InTurn

LEMMA EngineStep ==
    ASSUME EInv, NEW e \in Engines, Running(e), UNCHANGED bundle,
           NEW r \in EngineRecs, eng' = [eng EXCEPT ![e] = r], r.pc # "none",
           \A d \in Engines \ {e} : Begun(d)' = Begun(d),
           r.pc \in InHand => r.case \in Cases \ Disabled,
           r.pc = "run" => /\ r.tester \in Testers
                           /\ tester'[r.tester].pc # "none" /\ tester'[r.tester].name = r.case,
           r.late # 0 =>
                /\ r.late = 1 /\ r.halt
                /\ r.phase # "main" \/ bundle.mode = "sequential" \/ r.pc # "begin"
    PROVE  eng' \in [Engines -> EngineRecs] /\ InTurn' /\ CaseInHand' /\ LateOnce'
<1>1. /\ eng' \in [Engines -> EngineRecs] /\ eng'[e] = r
      /\ \A d \in Engines \ {e} : eng'[d] = eng[d]
  BY DEF EInv, TypeOK
<1>2. eng[e].pc # "none" /\ eng[e].pc \notin Ended
  BY DEF Running
<1>3. \A d \in Engines \ {e} : eng'[d].pc \in Ended \cup {"none"}
  BY <1>1, Alone
<1>4. InTurn'
  <2>1. ASSUME NEW c \in Engines, NEW d \in Engines, c < d, eng'[d].pc # "none"
        PROVE  eng'[c].pc \in Ended
    <3>1. eng[d].pc # "none"
      BY <1>1, <1>2, <2>1
    <3>2. eng[c].pc \in Ended
      BY <2>1, <3>1 DEF EInv, InTurn
    <3> QED BY <1>1, <1>2, <3>2
  <2>2. ASSUME NEW d \in Engines, eng'[d].pc = "none"
        PROVE  eng'[d] = NoEngine /\ Begun(d)' = {}
    <3>1. d # e /\ eng'[d] = eng[d]
      BY <1>1, <2>2
    <3> QED BY <2>2, <3>1 DEF EInv, InTurn
  <2> QED BY <2>1, <2>2 DEF InTurn
<1>5. CaseInHand'
  BY <1>1, <1>3 DEF CaseInHand, InHand, Ended
<1>6. LateOnce'
  BY <1>1 DEF LateOnce, EInv, InOrder
<1> QED BY <1>1, <1>4, <1>5, <1>6

\* The log grows by a line.
Lines == [what : {"BEGIN", "END"}, case : Cases, code : Nat, by : Nat]

LEMMA LogGrows ==
    ASSUME EInv, NEW l \in Lines, log' = Append(log, l)
    PROVE  /\ log' \in Seq(Lines) /\ Len(log) \in Nat /\ Len(log') = Len(log) + 1
           /\ log'[Len(log) + 1] = l /\ \A n \in 1 .. Len(log) : log'[n] = log[n]
           /\ \A d : l.what = "BEGIN" /\ l.by = d => Begun(d)' = Begun(d) \cup {Len(log) + 1}
           /\ \A d : ~(l.what = "BEGIN" /\ l.by = d) => Begun(d)' = Begun(d)
<1>1. log \in Seq(Lines)
  BY DEF EInv, TypeOK, Lines
<1>2. /\ log' \in Seq(Lines) /\ Len(log) \in Nat /\ Len(log') = Len(log) + 1
      /\ log'[Len(log) + 1] = l /\ \A n \in 1 .. Len(log) : log'[n] = log[n]
  BY <1>1
<1>3. DOMAIN log = 1 .. Len(log) /\ DOMAIN log' = 1 .. Len(log) + 1
  BY <1>1, <1>2
<1>4. \A d : Begun(d)' = {n \in DOMAIN log' : log'[n].what = "BEGIN" /\ log'[n].by = d}
  BY DEF Begun
<1>5. ASSUME NEW d
      PROVE  /\ l.what = "BEGIN" /\ l.by = d => Begun(d)' = Begun(d) \cup {Len(log) + 1}
             /\ ~(l.what = "BEGIN" /\ l.by = d) => Begun(d)' = Begun(d)
  BY <1>2, <1>3, <1>4 DEF Begun
<1> QED BY <1>2, <1>5

LEMMA SameLog ==
    ASSUME UNCHANGED log
    PROVE  \A d : Begun(d)' = Begun(d)
BY DEF Begun

-----------------------------------------------------------------------------
\* The steps of an engine.

Statuses == [state : States \cup {"none", "empty"}, case : Cases \cup {NoName}]

LEMMA EInvNext ==
    ASSUME EInv, AInv', UNCHANGED bundle, eng' \in [Engines -> EngineRecs],
           pidFile' \in {0} \cup Engines, statusFile' \in Statuses, log' \in Seq(Lines),
           kills' \in 0 .. MaxKills, InTurn', CaseInHand', LateOnce'
    PROVE  EInv'
BY DEF EInv, AInv, TypeOK, Statuses, Lines

LEMMA EInvIs ==
    ASSUME EInv
    PROVE  /\ AInv /\ eng \in [Engines -> EngineRecs] /\ pidFile \in {0} \cup Engines
           /\ statusFile \in Statuses /\ log \in Seq(Lines) /\ kills \in 0 .. MaxKills
BY DEF EInv, TypeOK, Statuses, Lines

\* Most steps of an engine change itself and what it writes.
LEMMA Move ==
    ASSUME EInv, NEW e \in Engines, Running(e), UNCHANGED <<bundle, actionVars>>,
           NEW r \in EngineRecs, eng' = [eng EXCEPT ![e] = r], r.pc # "none",
           pidFile' \in {0} \cup Engines, statusFile' \in Statuses, log' \in Seq(Lines),
           kills' \in 0 .. MaxKills, \A d \in Engines \ {e} : Begun(d)' = Begun(d),
           r.pc \in InHand => r.case \in Cases \ Disabled,
           r.pc = "run" => eng[e].pc = "run" /\ r.tester = eng[e].tester /\ r.case = eng[e].case,
           r.late # 0 =>
                /\ r.late = 1 /\ r.halt
                /\ r.phase # "main" \/ bundle.mode = "sequential" \/ r.pc # "begin"
    PROVE  EInv'
<1>1. AInv'
  BY SameActions DEF EInv
<1>2. tester' = tester
  BY DEF actionVars
<1>3. r.pc = "run" => /\ r.tester \in Testers
                      /\ tester'[r.tester].pc # "none" /\ tester'[r.tester].name = r.case
  BY <1>2 DEF EInv, CaseInHand
<1>4. eng' \in [Engines -> EngineRecs] /\ InTurn' /\ CaseInHand' /\ LateOnce'
  BY <1>3, EngineStep
<1> QED BY <1>1, <1>4, EInvNext

LEMMA NextOf ==
    ASSUME EInv, NEW e \in Engines
    PROVE  /\ eng[e] \in EngineRecs /\ Cur(e) \in Seq(Cases) /\ Len(Cur(e)) \in Nat
           /\ InOrder(e) <=> eng[e].phase # "main" \/ bundle.mode = "sequential"
           /\ eng[e].late # 0 => /\ eng[e].late = 1 /\ eng[e].halt
                                 /\ InOrder(e) \/ eng[e].pc # "begin"
           /\ eng[e].pc \in InHand => eng[e].case \in Cases \ Disabled
<1>1. eng[e] \in EngineRecs
  BY EInvIs
<1>2. eng[e].phase \in Range(Phases)
  BY <1>1, PhasesAre DEF EngineRecs
<1>3. bundle.list \in [Range(Phases) -> Seq(Cases)]
  BY DEF EInv, TypeOK
<1>4. Cur(e) \in Seq(Cases)
  BY <1>2, <1>3 DEF Cur
<1> QED BY <1>1, <1>4 DEF InOrder, EInv, LateOnce, CaseInHand

\* Another program counter, nothing else.
LEMMA MoveTo ==
    ASSUME EInv, NEW e \in Engines, Running(e), UNCHANGED <<bundle, actionVars, log>>,
           NEW pc \in {"next", "status", "finish"} \cup Ended, To(e, pc),
           pc = "status" => eng[e].pc = "truncate",
           pidFile' \in {0} \cup Engines, statusFile' \in Statuses, kills' \in 0 .. MaxKills
    PROVE  EInv'
<1> DEFINE r == [eng[e] EXCEPT !.pc = pc]
<1>1. eng[e] \in EngineRecs
  BY NextOf
<1>2. /\ r \in EngineRecs /\ r.pc = pc /\ r.case = eng[e].case /\ r.late = eng[e].late
      /\ r.halt = eng[e].halt /\ r.phase = eng[e].phase
  BY <1>1 DEF EngineRecs
<1>3. eng' = [eng EXCEPT ![e] = r]
  BY DEF To
<1>4. pc # "none" /\ pc # "run" /\ pc # "begin" /\ (pc \in InHand => eng[e].pc \in InHand)
  BY DEF InHand, Ended
<1>5. r.pc \in InHand => r.case \in Cases \ Disabled
  BY <1>2, <1>4, NextOf
<1>6. r.late # 0 => r.late = 1 /\ r.halt
  BY <1>2, NextOf
<1>7. log' \in Seq(Lines) /\ \A d \in Engines \ {e} : Begun(d)' = Begun(d)
  BY SameLog, EInvIs
<1> HIDE DEF r
<1> QED BY <1>2, <1>3, <1>4, <1>5, <1>6, <1>7, Move

LEMMA WritePidStep ==
    ASSUME EInv, NEW e \in Engines, WritePid(e)
    PROVE  EInv'
<1>1. Running(e)
  BY DEF WritePid, Running, Ended
<1>2. statusFile' \in Statuses /\ kills' \in 0 .. MaxKills
  BY EInvIs DEF WritePid
<1> QED BY <1>1, <1>2, MoveTo DEF WritePid

LEMMA TruncateStatusStep ==
    ASSUME EInv, NEW e \in Engines, TruncateStatus(e)
    PROVE  EInv'
<1>1. Running(e)
  BY DEF TruncateStatus, Running, Ended
<1>2. EmptyStatus \in Statuses
  BY DEF EmptyStatus, Statuses
<1>3. statusFile' \in Statuses /\ kills' \in 0 .. MaxKills /\ pidFile' \in {0} \cup Engines
  BY <1>2, EInvIs DEF TruncateStatus
<1> QED BY <1>1, <1>3, MoveTo DEF TruncateStatus

LEMMA CompleteStep ==
    ASSUME EInv, NEW e \in Engines, Complete(e)
    PROVE  EInv'
<1>1. Running(e)
  BY DEF Complete, Running, Ended
<1>2. [state |-> "COMPLETED", case |-> NoName] \in Statuses
  BY DEF Statuses, States
<1>3. statusFile' \in Statuses /\ kills' \in 0 .. MaxKills /\ pidFile' \in {0} \cup Engines
  BY <1>2, EInvIs DEF Complete
<1>4. "completed" \in Ended
  BY DEF Ended
<1> QED BY <1>1, <1>3, <1>4, MoveTo DEF Complete

LEMMA KillEngineStep ==
    ASSUME EInv, NEW e \in Engines, KillEngine(e)
    PROVE  EInv'
<1>1. kills' \in 0 .. MaxKills
  BY EInvIs, EngineAssumption DEF KillEngine
<1>2. statusFile' \in Statuses /\ pidFile' \in {0} \cup Engines
  BY EInvIs DEF KillEngine
<1>3. "killed" \in Ended
  BY DEF Ended
<1> QED BY <1>1, <1>2, <1>3, MoveTo DEF KillEngine

LEMMA NextInOrderStep ==
    ASSUME EInv, NEW e \in Engines, NextInOrder(e)
    PROVE  EInv'
<1> DEFINE c == Cur(e)[eng[e].idx]
           r == [eng[e] EXCEPT !.idx = @ + 1, !.case = c,
                               !.pc = IF c \in Disabled THEN "next" ELSE "begin"]
<1>1. Running(e) /\ InOrder(e)
  BY DEF NextInOrder, Running, Ended
<1>2. eng[e] \in EngineRecs /\ eng[e].idx \in Nat \ {0}
  BY NextOf DEF EngineRecs
<1>3. /\ eng' = [eng EXCEPT ![e] = r] /\ eng[e].idx <= Len(Cur(e))
      /\ UNCHANGED <<bundle, pidFile, statusFile, log, kills, actionVars>>
  BY DEF NextInOrder
<1>4. c \in Cases
  BY <1>2, <1>3, NextOf
<1>5. eng[e].idx + 1 \in Nat \ {0}
  BY <1>2
<1> HIDE DEF c
<1>6. /\ r \in EngineRecs /\ r.pc \in {"next", "begin"} /\ r.case = c /\ r.late = eng[e].late
      /\ r.halt = eng[e].halt /\ r.phase = eng[e].phase /\ (r.pc = "begin" => c \notin Disabled)
  BY <1>2, <1>4, <1>5 DEF EngineRecs
<1> HIDE DEF r
<1>7. r.pc # "none" /\ r.pc # "run" /\ (r.pc \in InHand => r.case \in Cases \ Disabled)
  BY <1>4, <1>6 DEF InHand
<1>8. r.late # 0 =>
        r.late = 1 /\ r.halt /\ (r.phase # "main" \/ bundle.mode = "sequential" \/ r.pc # "begin")
  BY <1>1, <1>6, NextOf
<1>9. /\ pidFile' \in {0} \cup Engines /\ statusFile' \in Statuses /\ log' \in Seq(Lines)
      /\ kills' \in 0 .. MaxKills /\ \A d \in Engines \ {e} : Begun(d)' = Begun(d)
  BY <1>3, EInvIs, SameLog
<1> QED BY <1>1, <1>3, <1>6, <1>7, <1>8, <1>9, Move

LEMMA NextAtRandomStep ==
    ASSUME EInv, NEW e \in Engines, NextAtRandom(e)
    PROVE  EInv'
<1>1. Running(e) /\ ~InOrder(e) /\ ~eng[e].halt
  BY DEF NextAtRandom, Running, Ended
<1>2. /\ pidFile' \in {0} \cup Engines /\ statusFile' \in Statuses /\ log' \in Seq(Lines)
      /\ kills' \in 0 .. MaxKills /\ \A d \in Engines \ {e} : Begun(d)' = Begun(d)
      /\ UNCHANGED <<bundle, log, actionVars>>
  BY EInvIs, SameLog DEF NextAtRandom
<1>3. CASE To(e, "crashed")
  <2>1. "crashed" \in Ended
    BY DEF Ended
  <2> QED BY <1>1, <1>2, <1>3, <2>1, MoveTo
<1>4. ASSUME NEW c \in EnabledCases(e), eng' = [eng EXCEPT ![e].case = c, ![e].pc = "begin"]
      PROVE  EInv'
  <2> DEFINE r == [eng[e] EXCEPT !.case = c, !.pc = "begin"]
  <2>1. eng[e] \in EngineRecs /\ eng[e].late = 0
    BY <1>1, NextOf
  <2>2. c \in Cases \ Disabled
    <3>1. \A x \in Range(Cur(e)) : x \in Cases
      BY NextOf DEF Range
    <3> QED BY <1>4, <3>1 DEF EnabledCases
  <2>3. r \in EngineRecs /\ r.pc = "begin" /\ r.case = c /\ r.late = 0
    BY <2>1, <2>2 DEF EngineRecs
  <2>4. eng' = [eng EXCEPT ![e] = r]
    BY <1>4
  <2> HIDE DEF r
  <2> QED BY <1>1, <1>2, <2>2, <2>3, <2>4, Move
<1> QED BY <1>3, <1>4 DEF NextAtRandom

LEMMA PhaseOverStep ==
    ASSUME EInv, NEW e \in Engines, PhaseOver(e)
    PROVE  EInv'
<1>1. Running(e) /\ eng[e].pc = "next"
  BY DEF PhaseOver, Running, Ended
<1>2. /\ pidFile' \in {0} \cup Engines /\ log' \in Seq(Lines)
      /\ kills' \in 0 .. MaxKills /\ \A d \in Engines \ {e} : Begun(d)' = Begun(d)
      /\ UNCHANGED <<bundle, log, actionVars>>
  BY EInvIs, SameLog DEF PhaseOver
<1>3. CASE To(e, "finish") /\ statusFile' = EmptyStatus
  <2>1. statusFile' \in Statuses
    BY <1>3 DEF EmptyStatus, Statuses
  <2> QED BY <1>1, <1>2, <1>3, <2>1, MoveTo
<1>4. CASE eng' = [eng EXCEPT ![e].phase = NextPhase(e), ![e].idx = 1] /\ UNCHANGED statusFile
  <2> DEFINE r == [eng[e] EXCEPT !.phase = NextPhase(e), !.idx = 1]
  <2>1. eng[e] \in EngineRecs /\ (eng[e].late # 0 => eng[e].late = 1 /\ eng[e].halt)
    BY NextOf
  <2>6. NextPhase(e) \in {"main", "final"} /\ 1 \in Nat \ {0}
    BY DEF NextPhase
  <2>2. r \in EngineRecs /\ r.pc = "next" /\ r.late = eng[e].late /\ r.halt = eng[e].halt
    <3> HIDE DEF NextPhase
    <3> QED BY <1>1, <2>1, <2>6 DEF EngineRecs
  <2>3. eng' = [eng EXCEPT ![e] = r]
    BY <1>4
  <2>4. statusFile' \in Statuses
    BY <1>4, EInvIs
  <2> HIDE DEF r
  <2>5. r.pc \notin InHand
    BY <2>2 DEF InHand
  <2> QED BY <1>1, <1>2, <2>1, <2>2, <2>3, <2>4, <2>5, Move
<1> QED BY <1>3, <1>4 DEF PhaseOver

LEMMA BeginCaseStep ==
    ASSUME EInv, NEW e \in Engines, BeginCase(e)
    PROVE  EInv'
<1> DEFINE main == IF eng[e].phase = "main" THEN 1 ELSE 0
           late == IF eng[e].halt /\ ~InOrder(e) THEN eng[e].late + 1 ELSE eng[e].late
           r == [eng[e] EXCEPT !.pc = "truncate", !.mains = @ + main, !.late = late]
           l == Begin(eng[e].case, e)
<1>1. Running(e) /\ eng[e].pc = "begin"
  BY DEF BeginCase, Running, Ended
<1>2. eng[e] \in EngineRecs /\ eng[e].mains + main \in Nat /\ eng[e].late \in Nat
  BY NextOf DEF EngineRecs
<1>3. eng[e].case \in Cases \ Disabled
  BY <1>1, NextOf DEF InHand
<1>4. late \in Nat /\ (late # 0 => late = 1 /\ eng[e].halt)
  BY <1>1, <1>2, NextOf
<1>5. eng' = [eng EXCEPT ![e] = r] /\ log' = Append(log, l)
      /\ UNCHANGED <<bundle, pidFile, statusFile, kills, actionVars>>
  BY DEF BeginCase
<1> HIDE DEF late, main
<1>6. /\ r \in EngineRecs /\ r.pc = "truncate" /\ r.case = eng[e].case /\ r.late = late
      /\ r.halt = eng[e].halt
  BY <1>2, <1>4 DEF EngineRecs
<1>7. l \in Lines /\ l.by = e
  BY <1>3, EngineNumbers DEF Lines, Begin
<1> HIDE DEF r, l
<1>8. log' \in Seq(Lines) /\ \A d \in Engines \ {e} : Begun(d)' = Begun(d)
  BY <1>5, <1>7, LogGrows
<1>9. /\ pidFile' \in {0} \cup Engines /\ statusFile' \in Statuses /\ kills' \in 0 .. MaxKills
  BY <1>5, EInvIs
<1> QED BY <1>1, <1>3, <1>4, <1>5, <1>6, <1>8, <1>9, Move

LEMMA EndCaseStep ==
    ASSUME EInv, NEW e \in Engines, EndCase(e)
    PROVE  EInv'
<1> DEFINE t == eng[e].tester
           random == eng[e].phase = "main" /\ bundle.mode = "random"
<1>1. /\ Running(e) /\ eng[e].pc = "run" /\ tester[t].pc \in Over
      /\ UNCHANGED <<bundle, pidFile, statusFile, kills, actionVars>>
  BY DEF EndCase, Running, Ended
<1>2. PICK code \in ExitCodes(tester[t].pc) : log' = Append(log, End(eng[e].case, code, t))
  BY DEF EndCase
<1>3. PICK over \in BOOLEAN :
        eng' = [eng EXCEPT ![e].pc = "next", ![e].tester = 0, ![e].case = NoName,
                           ![e].halt = IF random THEN NeedToHalt(e, over) ELSE @]
  BY DEF EndCase
<1> DEFINE halt == IF random THEN NeedToHalt(e, over) ELSE eng[e].halt
           r == [eng[e] EXCEPT !.pc = "next", !.tester = 0, !.case = NoName, !.halt = halt]
<1>4. eng[e] \in EngineRecs /\ eng[e].case \in Cases
  BY <1>1, NextOf DEF InHand
<1>5. halt \in BOOLEAN /\ (eng[e].halt => halt)
  BY <1>4 DEF EngineRecs, NeedToHalt
<1>6. eng' = [eng EXCEPT ![e] = r]
  BY <1>3
<1> HIDE DEF halt
<1>7. r \in EngineRecs /\ r.pc = "next" /\ r.late = eng[e].late /\ r.halt = halt
  BY <1>4, <1>5 DEF EngineRecs
<1>8. r.late # 0 => r.late = 1 /\ r.halt
  BY <1>5, <1>7, NextOf
<1>9. code \in Nat
  BY <1>1, <1>2 DEF ExitCodes, Over
<1>10. t \in Testers /\ t \in Nat
  <2>1. t \in Testers
    BY <1>1 DEF EInv, CaseInHand
  <2> QED BY <2>1, ActionsAssumption DEF Testers
<1>11. End(eng[e].case, code, t) \in Lines /\ End(eng[e].case, code, t).what = "END"
  BY <1>4, <1>9, <1>10 DEF End, Lines
<1>12. log' \in Seq(Lines) /\ \A d \in Engines \ {e} : Begun(d)' = Begun(d)
  BY <1>2, <1>11, LogGrows
<1>13. pidFile' \in {0} \cup Engines /\ statusFile' \in Statuses /\ kills' \in 0 .. MaxKills
  BY <1>1, EInvIs
<1> HIDE DEF r
<1>14. r.pc \notin InHand
  BY <1>7 DEF InHand
<1> QED BY <1>1, <1>6, <1>7, <1>8, <1>12, <1>13, <1>14, Move

\* The process of the case is one that has not run.
LEMMA WriteStatusStep ==
    ASSUME EInv, NEW e \in Engines, WriteStatus(e)
    PROVE  EInv'
<1> DEFINE c == eng[e].case
<1>1. Running(e) /\ eng[e].pc = "status"
  BY DEF WriteStatus, Running, Ended
<1>2. PICK t \in Unstarted :
        Spawn(t, c, Script[c]) /\ eng' = [eng EXCEPT ![e].pc = "run", ![e].tester = t]
  BY DEF WriteStatus
<1>3. /\ UNCHANGED <<bundle, pidFile, log, kills, action, job>>
      /\ statusFile' = [state |-> StateOf(e), case |-> c]
  BY DEF WriteStatus
<1>4. c \in Cases \ Disabled
  BY <1>1, NextOf DEF InHand
<1>5. t \in Testers /\ tester[t].pc = "none"
  BY <1>2 DEF Unstarted
<1>6. AInv'
  BY <1>2, <1>3, <1>4, <1>5, SpawnStep DEF EInv
<1>7. tester'[t].pc = "script" /\ tester'[t].name = c
  <2>1. tester \in [Testers -> TesterRecs]
    BY DEF EInv, AInv, ActionsTypeOK
  <2>2. tester'[t] = [NoTester EXCEPT !.name = c, !.pc = "script", !.left = Script[c]]
    BY <1>2, <1>5, <2>1 DEF Spawn
  <2> QED BY <2>2 DEF NoTester
<1> DEFINE r == [eng[e] EXCEPT !.pc = "run", !.tester = t]
<1>8. eng[e] \in EngineRecs
  BY NextOf
<1>9. /\ r \in EngineRecs /\ r.pc = "run" /\ r.tester = t /\ r.case = c
      /\ r.late = eng[e].late /\ r.halt = eng[e].halt
  BY <1>5, <1>8 DEF EngineRecs
<1>10. eng' = [eng EXCEPT ![e] = r]
  BY <1>2
<1> HIDE DEF r
<1>11. r.late # 0 => r.late = 1 /\ r.halt
  BY <1>9, NextOf
<1>12. \A d \in Engines \ {e} : Begun(d)' = Begun(d)
  BY <1>3, SameLog
<1>13. eng' \in [Engines -> EngineRecs] /\ InTurn' /\ CaseInHand' /\ LateOnce'
  BY <1>1, <1>3, <1>4, <1>5, <1>7, <1>9, <1>10, <1>11, <1>12, EngineStep
<1>14. statusFile' \in Statuses
  <2>1. eng[e].phase \in {"initial", "main", "final"}
    BY <1>8 DEF EngineRecs
  <2>2. StateOf(e) \in States
    BY <2>1 DEF StateOf, States, StateIn
  <2> QED BY <1>3, <1>4, <2>2 DEF Statuses
<1> QED BY <1>3, <1>6, <1>13, <1>14, EInvIs, EInvNext

LEMMA StartEngineStep ==
    ASSUME EInv, NEW e \in Engines, StartEngine(e)
    PROVE  EInv'
<1> DEFINE r == [eng[e] EXCEPT !.pc = "pid"]
<1>1. /\ eng[e].pc = "none" /\ \A d \in 1 .. e - 1 : eng[d].pc \in Ended
      /\ eng' = [eng EXCEPT ![e] = r] /\ pidFile' = 0
      /\ UNCHANGED <<bundle, statusFile, log, kills, actionVars>>
  BY DEF StartEngine, To
<1>2. eng[e] \in EngineRecs /\ eng \in [Engines -> EngineRecs] /\ eng[e].late = 0
  <2>1. eng[e] = NoEngine
    BY <1>1 DEF EInv, InTurn
  <2>2. NoEngine.late = 0
    BY DEF NoEngine
  <2> QED BY <2>1, <2>2, EInvIs
<1>3. r \in EngineRecs /\ r.pc = "pid" /\ r.late = 0
  BY <1>2 DEF EngineRecs
<1> HIDE DEF r
<1>4. eng' \in [Engines -> EngineRecs] /\ eng'[e] = r /\ \A d \in Engines \ {e} : eng'[d] = eng[d]
  BY <1>1, <1>2, <1>3
<1>5. InTurn'
  <2>1. \A d \in Engines : d < e => eng[d].pc \in Ended
    BY <1>1, EngineNumbers DEF Engines
  <2>2. ASSUME NEW c \in Engines, NEW d \in Engines, c < d, eng'[d].pc # "none"
        PROVE  eng'[c].pc \in Ended
    <3>1. CASE d = e
      BY <1>4, <2>1, <2>2, <3>1, EngineNumbers
    <3>2. CASE d # e
      <4>1. eng[d].pc # "none" /\ eng[c].pc \in Ended
        BY <1>4, <2>2, <3>2 DEF EInv, InTurn
      <4>2. c # e
        BY <1>1, <4>1 DEF Ended
      <4> QED BY <1>4, <4>1, <4>2
    <3> QED BY <3>1, <3>2
  <2>3. ASSUME NEW d \in Engines, eng'[d].pc = "none"
        PROVE  eng'[d] = NoEngine /\ Begun(d)' = {}
    <3>1. d # e
      BY <1>3, <1>4, <2>3
    <3> QED BY <1>1, <1>4, <2>3, <3>1, SameLog DEF EInv, InTurn
  <2> QED BY <2>2, <2>3 DEF InTurn
<1>6. tester' = tester
  BY <1>1 DEF actionVars
<1>7. CaseInHand'
  BY <1>3, <1>4, <1>6 DEF EInv, CaseInHand, InHand
<1>8. LateOnce'
  BY <1>1, <1>3, <1>4 DEF EInv, LateOnce, InOrder
<1>9. AInv'
  BY <1>1, SameActions DEF EInv
<1> QED BY <1>1, <1>4, <1>5, <1>7, <1>8, <1>9, EInvIs, EInvNext

LEMMA StopStep ==
    ASSUME EInv, Stop
    PROVE  EInv'
<1> DEFINE e == pidFile
           r == [eng[e] EXCEPT !.halt = TRUE]
<1>1. /\ e \in Engines /\ Running(e) /\ eng' = [eng EXCEPT ![e] = r]
      /\ UNCHANGED <<bundle, pidFile, statusFile, log, kills, actionVars>>
  BY EInvIs DEF Stop
<1> HIDE DEF e
<1>2. eng[e] \in EngineRecs
  BY <1>1, NextOf
<1>3. /\ r \in EngineRecs /\ r.pc = eng[e].pc /\ r.tester = eng[e].tester /\ r.case = eng[e].case
      /\ r.late = eng[e].late /\ r.halt /\ r.phase = eng[e].phase
  BY <1>2 DEF EngineRecs
<1> HIDE DEF r
<1>4. r.late # 0 =>
        r.late = 1 /\ r.halt /\ (r.phase # "main" \/ bundle.mode = "sequential" \/ r.pc # "begin")
  BY <1>1, <1>3, NextOf
<1>5. r.pc # "none" /\ (r.pc \in InHand => r.case \in Cases \ Disabled)
  BY <1>1, <1>3, NextOf DEF Running
<1>6. /\ pidFile' \in {0} \cup Engines /\ statusFile' \in Statuses /\ log' \in Seq(Lines)
      /\ kills' \in 0 .. MaxKills /\ \A d \in Engines \ {e} : Begun(d)' = Begun(d)
  BY <1>1, EInvIs, SameLog
<1> QED BY <1>1, <1>3, <1>4, <1>5, <1>6, Move

\* A process goes on with its case.
LEMMA SameCase ==
    ASSUME AInv, NEW t \in Testers,
           RunScript(t) \/ Fails(t) \/ Skips(t) \/ KillTester(t)
    PROVE  /\ Alive(t) /\ tester'[t].name = tester[t].name /\ tester'[t].pc # "none"
           /\ \A u \in Testers \ {t} : tester'[u] = tester[u]
<1>1. tester \in [Testers -> TesterRecs]
  BY DEF AInv, ActionsTypeOK
<1>2. tester[t].pc # "none" /\ tester[t].pc \notin Over
  BY DEF RunScript, Passes, Fails, Skips, KillTester, Instance, NextIs, AddAction, AddCommand,
         Start, BeginWait, LoadAction, LoadCommand, LoadAgain, Alive, Over
<1>3. ASSUME NEW how, how \in Over, Over_(t, how)
      PROVE  /\ tester'[t].name = tester[t].name /\ tester'[t].pc # "none"
             /\ \A u \in Testers \ {t} : tester'[u] = tester[u]
  BY <1>1, <1>3 DEF Over_, TesterRecs, Over
<1>4. \A how \in {"passed", "failed", "skipped", "raised", "killed"} : how \in Over
  BY DEF Over
<1>5. CASE Passes(t) \/ Fails(t) \/ Skips(t) \/ KillTester(t)
  BY <1>2, <1>3, <1>4, <1>5 DEF Passes, Fails, Skips, KillTester, Alive
<1>6. CASE Instance(t)
  <2>1. CASE Over_(t, "raised")
    BY <1>2, <1>3, <1>4, <2>1 DEF Alive
  <2>2. CASE ~Over_(t, "raised")
    BY <1>1, <1>2, <1>6, <2>2 DEF Instance, TesterRecs, Alive
  <2> QED BY <2>1, <2>2
<1>7. CASE AddAction(t)
  <2>1. CASE Over_(t, "raised")
    BY <1>2, <1>3, <1>4, <2>1 DEF Alive
  <2>2. CASE ~Over_(t, "raised")
    BY <1>1, <1>2, <1>7, <2>2 DEF AddAction, TesterRecs, Alive
  <2> QED BY <2>1, <2>2
<1>8. CASE AddCommand(t) \/ Start(t) \/ BeginWait(t) \/ LoadCommand(t)
  BY <1>1, <1>2, <1>8 DEF AddCommand, Start, BeginWait, LoadCommand, TesterRecs, Alive
<1>9. CASE LoadAction(t)
  <2>1. CASE Over_(t, "failed")
    BY <1>2, <1>3, <1>4, <2>1 DEF Alive
  <2>2. CASE ~Over_(t, "failed")
    BY <1>1, <1>2, <1>9, <2>2 DEF LoadAction, TesterRecs, Alive
  <2> QED BY <2>1, <2>2
<1>10. CASE LoadAgain(t)
  <2>1. CASE Over_(t, "raised")
    BY <1>2, <1>3, <1>4, <2>1 DEF Alive
  <2>2. CASE ~Over_(t, "raised")
    BY <1>1, <1>2, <1>10, <2>2 DEF LoadAgain, TesterRecs, Alive
  <2> QED BY <2>1, <2>2
<1> QED BY <1>5, <1>6, <1>7, <1>8, <1>9, <1>10 DEF RunScript

LEMMA OnlyActions ==
    ASSUME EInv, AInv', UNCHANGED <<bundle, eng, pidFile, statusFile, log>>,
           kills' \in 0 .. MaxKills,
           \A t \in Testers : tester[t].pc # "none" =>
               tester'[t].pc # "none" /\ tester'[t].name = tester[t].name
    PROVE  EInv'
<1>1. InTurn'
  BY SameLog DEF EInv, InTurn
<1>2. CaseInHand'
  BY DEF EInv, CaseInHand
<1>3. LateOnce'
  BY DEF EInv, LateOnce, InOrder
<1> QED BY <1>1, <1>2, <1>3, EInvIs, EInvNext

LEMMA CaseStep ==
    ASSUME EInv, NEW t \in Testers, CaseRuns(t) \/ KillCase(t)
    PROVE  EInv'
<1>1. RunScript(t) \/ Fails(t) \/ Skips(t) \/ KillTester(t)
  BY DEF CaseRuns, KillCase
<1>2. /\ AInv /\ AInv' /\ tester'[t].name = tester[t].name /\ tester'[t].pc # "none"
      /\ \A u \in Testers \ {t} : tester'[u] = tester[u]
  BY <1>1, TesterStep, SameCase DEF EInv
<1>3. UNCHANGED <<bundle, eng, pidFile, statusFile, log>> /\ kills' \in 0 .. MaxKills
  BY EInvIs, EngineAssumption DEF CaseRuns, KillCase, engineVars
<1> QED BY <1>2, <1>3, OnlyActions

LEMMA JobsStep ==
    ASSUME EInv, NEW j \in Jobs, JobRuns(j) \/ CommandOfJobEnds(j)
    PROVE  EInv'
<1>1. AInv' /\ UNCHANGED engineVars
  BY AnyJobStep DEF JobRuns, CommandOfJobEnds, EInv
<1>2. tester' = tester
  BY DEF JobRuns, CommandOfJobEnds, Job, CommandEnds, LoadAndRun, StoreAction, Truncate,
         StoreCommand
<1> QED BY <1>1, <1>2, OnlyActions, EInvIs DEF engineVars

LEMMA EngineInitially == Init => EInv
<1> SUFFICES ASSUME Init PROVE EInv
  OBVIOUS
<1>1. AInv
  BY ActionsInitially DEF Init
<1>a. PICK b \in Bundles : \E o \in Orders(Len(b.specs)) : bundle = Merge(b, o)
  BY DEF Init
<1>2. PICK o \in Orders(Len(b.specs)) : bundle = Merge(b, o)
  BY <1>a
<1>3. bundle.from \in Bundles /\ bundle.mode \in Modes /\ bundle.list \in [Range(Phases) -> Seq(Cases)]
  BY <1>2, MergeIs, BundleIs
<1>4. NoEngine \in EngineRecs
  BY DEF NoEngine, EngineRecs
<1>5. TypeOK
  BY <1>1, <1>3, <1>4, EngineAssumption DEF Init, TypeOK, AInv, NoStatus
<1>6. \A e \in Engines : eng[e] = NoEngine /\ Begun(e) = {}
  BY DEF Init, Begun
<1>7. \A e \in Engines : eng[e].pc = "none" /\ eng[e].late = 0
  BY <1>6 DEF NoEngine
<1>8. InTurn /\ CaseInHand /\ LateOnce
  BY <1>6, <1>7 DEF InTurn, CaseInHand, LateOnce, InHand
<1> QED BY <1>1, <1>5, <1>8 DEF EInv

LEMMA EngineKeeps == EInv /\ [Next]_vars => EInv'
<1> SUFFICES ASSUME EInv, [Next]_vars PROVE EInv'
  OBVIOUS
<1>1. ASSUME NEW e \in Engines, StartEngine(e) \/ Engine(e) \/ KillEngine(e) PROVE EInv'
  BY <1>1, StartEngineStep, WritePidStep, NextInOrderStep, NextAtRandomStep, PhaseOverStep,
     BeginCaseStep, TruncateStatusStep, WriteStatusStep, EndCaseStep, CompleteStep,
     KillEngineStep DEF Engine
<1>2. CASE UNCHANGED vars
  <2>1. AInv'
    BY <1>2, SameActions DEF EInv, vars
  <2> QED BY <1>2, <2>1, OnlyActions, EInvIs DEF vars, engineVars, actionVars
<1> QED BY <1>1, <1>2, StopStep, CaseStep, JobsStep DEF Next

-----------------------------------------------------------------------------
\* What holds of every run.

LEMMA EngineAlways == Spec => []EInv
BY EngineInitially, EngineKeeps, PTL DEF Spec

\* Every variable has values of its type, whatever the bundles, the scripts and the
\* bounds are.
THEOREM EngineTypeOK == Spec => []TypeOK
<1>1. EInv => TypeOK
  BY DEF EInv
<1> QED BY <1>1, EngineAlways, PTL

\* After the user has stopped a random run at most the case chosen already is begun
\* before the final ones: it is begun with the request to halt known, after which
\* none is chosen at random.
THEOREM StopHaltsSoon == Spec => []HaltsSoon
<1>1. EInv => HaltsSoon
  BY DEF EInv, TypeOK, EngineRecs, LateOnce, HaltsSoon
<1> QED BY <1>1, EngineAlways, PTL

\* A case that passed did so on what its own commands returned: a directory belongs to
\* one job, its files tell how far that job is, and a case waits only for what it
\* started.
THEOREM PassedOnItsOwn == Spec => []PassedMeansReturned
<1>1. EInv => PassedMeansReturned
  BY DEF EInv, AInv, WaitedFor, PassedMeansReturned, Finished
<1> QED BY <1>1, EngineAlways, PTL

-----------------------------------------------------------------------------
\* The status file.

Written == {"truncate", "status", "run"}

\* The line an engine wrote last is of the case it has in hand.
LastLine ==
    \A e \in Engines : eng[e].pc \in Written =>
        \E n \in Begun(e) : IsLast(e, n) /\ log[n].case = eng[e].case

\* The three parts of StatusIsTrue: while a case runs, without a case, at the end.
Shown ==
    \A e \in Engines : eng[e].pc = "run" =>
        statusFile = [state |-> StateIn[eng[e].phase], case |-> eng[e].case]
NoCaseShown == statusFile.case = NoName <=> statusFile.state \in {"none", "empty", "COMPLETED"}
AllWasRun ==
    statusFile.state = "COMPLETED" => \E e \in Engines :
        /\ eng[e].pc = "completed"
        /\ \A d \in Engines : d > e => Begun(d) = {} \/ eng[d].pc \in {"truncate", "killed"}

StatusInv == LastLine /\ Shown /\ NoCaseShown /\ AllWasRun

LEMMA StatusInvSays == StatusInv => StatusIsTrue
<1> SUFFICES ASSUME StatusInv PROVE StatusIsTrue
  OBVIOUS
<1>1. ASSUME NEW e \in Engines, eng[e].pc = "run"
      PROVE  \E n \in Begun(e) :
                IsLast(e, n) /\ statusFile = [state |-> StateIn[eng[e].phase], case |-> log[n].case]
  BY <1>1 DEF StatusInv, LastLine, Shown, Written
<1> QED BY <1>1 DEF StatusIsTrue, StatusInv, NoCaseShown, AllWasRun

\* A running engine that is not about to run a case leaves the rest alone.
LEMMA LineStays ==
    ASSUME LastLine, UNCHANGED log,
           \A e \in Engines : eng'[e].pc \in Written =>
                eng[e].pc \in Written /\ eng'[e].case = eng[e].case
    PROVE  LastLine'
<1>1. \A e, n : IsLast(e, n)' <=> IsLast(e, n)
  BY SameLog DEF IsLast
<1>2. \A e : Begun(e)' = Begun(e)
  BY SameLog
<1> QED BY <1>1, <1>2 DEF LastLine

LEMMA ToIs ==
    ASSUME EInv, NEW e \in Engines, NEW pc, To(e, pc)
    PROVE  /\ eng'[e].pc = pc /\ eng'[e].case = eng[e].case /\ eng'[e].phase = eng[e].phase
           /\ \A d \in Engines \ {e} : eng'[d] = eng[d]
<1>1. eng \in [Engines -> EngineRecs]
  BY EInvIs
<1>2. eng[e] \in EngineRecs
  BY <1>1
<1> QED BY <1>1, <1>2 DEF To, EngineRecs

LEMMA LineNext == EInv /\ LastLine /\ [Next]_vars => LastLine'
<1> SUFFICES ASSUME EInv, LastLine, [Next]_vars PROVE LastLine'
  OBVIOUS
<1>1. eng \in [Engines -> EngineRecs]
  BY EInvIs
<1>2. ASSUME NEW e \in Engines, BeginCase(e) PROVE LastLine'
  <2> DEFINE l == Begin(eng[e].case, e)
  <2>9. PICK k : k = Len(log) + 1
    OBVIOUS
  <2>1. Running(e) /\ eng[e].pc = "begin" /\ log' = Append(log, l)
    BY <1>2 DEF BeginCase, Running, Ended
  <2>2. eng'[e].pc = "truncate" /\ eng'[e].case = eng[e].case
        /\ \A d \in Engines \ {e} : eng'[d] = eng[d]
    BY <1>1, <1>2 DEF BeginCase
  <2>3. l \in Lines /\ l.by = e /\ l.case = eng[e].case /\ l.what = "BEGIN"
    BY <2>1, NextOf, EngineNumbers DEF Lines, Begin, InHand
  <2> HIDE DEF l
  <2>4. Begun(e)' = Begun(e) \cup {k} /\ log'[k] = l /\ Len(log) \in Nat
    BY <2>1, <2>3, <2>9, LogGrows
  <2>5. \A n \in Begun(e) : n <= k
    <3>1. DOMAIN log = 1 .. Len(log)
      BY EInvIs
    <3> QED BY <2>4, <2>9, <3>1 DEF Begun
  <2>6. IsLast(e, k)'
    <3>1. k \in Begun(e)' /\ \A n \in Begun(e)' : n <= k
      BY <2>4, <2>5, <2>9
    <3> QED BY <3>1 DEF IsLast
  <2>7. \A d \in Engines \ {e} : eng'[d].pc \notin Written
    BY <2>1, <2>2, Alone DEF Ended, Written
  <2>8. \E n \in Begun(e)' : IsLast(e, n)' /\ log'[n].case = eng'[e].case
    BY <2>2, <2>3, <2>4, <2>6
  <2> QED BY <2>7, <2>8 DEF LastLine
<1>3. ASSUME NEW e \in Engines, EndCase(e) PROVE LastLine'
  <2>1. Running(e)
    BY <1>3 DEF EndCase, Running, Ended
  <2>2. eng'[e].pc = "next" /\ \A d \in Engines \ {e} : eng'[d] = eng[d]
    BY <1>1, <1>3 DEF EndCase
  <2>3. \A d \in Engines : eng'[d].pc \notin Written
    BY <2>1, <2>2, Alone DEF Ended, Written
  <2> QED BY <2>3 DEF LastLine
<1>4. ASSUME NEW e \in Engines,
             StartEngine(e) \/ WritePid(e) \/ NextInOrder(e) \/ NextAtRandom(e) \/ PhaseOver(e)
             \/ Complete(e) \/ KillEngine(e)
      PROVE  LastLine'
  <2>1. UNCHANGED log /\ eng'[e].pc \notin Written /\ \A d \in Engines \ {e} : eng'[d] = eng[d]
    <3>5. ASSUME NEW pc \in {"pid", "next", "completed", "killed", "crashed", "finish"}, To(e, pc)
          PROVE  eng'[e].pc \notin Written /\ \A d \in Engines \ {e} : eng'[d] = eng[d]
      BY <3>5, ToIs DEF Written
    <3>1. CASE StartEngine(e) \/ WritePid(e) \/ Complete(e) \/ KillEngine(e)
      BY <3>1, <3>5 DEF StartEngine, WritePid, Complete, KillEngine
    <3>2. CASE NextInOrder(e)
      BY <1>1, <3>2 DEF NextInOrder, Written
    <3>3. CASE NextAtRandom(e)
      <4>1. CASE To(e, "crashed")
        BY <3>3, <3>5, <4>1 DEF NextAtRandom
      <4>2. CASE ~To(e, "crashed")
        <5>1. PICK c \in EnabledCases(e) : eng' = [eng EXCEPT ![e].case = c, ![e].pc = "begin"]
          BY <3>3, <4>2 DEF NextAtRandom
        <5>2. eng'[e].pc = "begin" /\ \A d \in Engines \ {e} : eng'[d] = eng[d]
          BY <1>1, <5>1
        <5> QED BY <3>3, <5>2 DEF NextAtRandom, Written
      <4> QED BY <4>1, <4>2
    <3>4. CASE PhaseOver(e)
      <4>1. CASE To(e, "finish")
        BY <3>4, <3>5, <4>1 DEF PhaseOver
      <4>2. CASE ~To(e, "finish")
        <5>1. eng' = [eng EXCEPT ![e].phase = NextPhase(e), ![e].idx = 1]
          BY <3>4, <4>2 DEF PhaseOver
        <5>2. eng'[e].pc = "next"
          BY <1>1, <3>4, <5>1 DEF PhaseOver
        <5> QED BY <1>1, <3>4, <5>1, <5>2 DEF PhaseOver, Written
      <4> QED BY <4>1, <4>2
    <3> QED BY <1>4, <3>1, <3>2, <3>3, <3>4
  <2> QED BY <2>1, LineStays
<1>5. ASSUME NEW e \in Engines, TruncateStatus(e) \/ WriteStatus(e) PROVE LastLine'
  <2>1. UNCHANGED log /\ eng[e].pc \in Written /\ eng'[e].case = eng[e].case
        /\ \A d \in Engines \ {e} : eng'[d] = eng[d]
    <3>1. CASE TruncateStatus(e)
      BY <1>1, <3>1 DEF TruncateStatus, To, Written
    <3>2. CASE WriteStatus(e)
      BY <1>1, <3>2 DEF WriteStatus, Written
    <3> QED BY <1>5, <3>1, <3>2
  <2> QED BY <2>1, LineStays
<1>6. CASE Stop
  <2>1. /\ UNCHANGED log
        /\ \A d \in Engines : eng'[d].pc = eng[d].pc /\ eng'[d].case = eng[d].case
    BY <1>1, <1>6 DEF Stop
  <2> QED BY <2>1, LineStays
<1>7. ASSUME UNCHANGED <<eng, log>> PROVE LastLine'
  BY <1>7, LineStays
<1>8. ASSUME NEW t \in Testers, CaseRuns(t) \/ KillCase(t) PROVE UNCHANGED <<eng, log>>
  BY <1>8 DEF CaseRuns, KillCase, engineVars
<1>9. ASSUME NEW j \in Jobs, JobRuns(j) \/ CommandOfJobEnds(j) PROVE UNCHANGED <<eng, log>>
  BY <1>9 DEF JobRuns, CommandOfJobEnds, engineVars
<1>10. UNCHANGED vars => UNCHANGED <<eng, log>>
  BY DEF vars, engineVars
<1> QED BY <1>2, <1>3, <1>4, <1>5, <1>6, <1>7, <1>8, <1>9, <1>10 DEF Next, Engine

LEMMA StatusStays ==
    ASSUME NoCaseShown, AllWasRun, Shown, UNCHANGED statusFile,
           \A e \in Engines :
              /\ Begun(e)' = Begun(e) \/ eng'[e].pc = "truncate"
              /\ eng[e].pc = "completed" => eng'[e].pc = "completed"
              /\ eng[e].pc = "killed" => eng'[e].pc = "killed"
              /\ eng[e].pc = "truncate" => eng'[e].pc \in {"truncate", "killed"}
              /\ eng'[e].pc = "run" => eng[e].pc = "run" /\ eng'[e].case = eng[e].case
                                       /\ eng'[e].phase = eng[e].phase
    PROVE  NoCaseShown' /\ AllWasRun' /\ Shown'
<1>1. NoCaseShown' /\ Shown'
  BY DEF NoCaseShown, Shown, StateIn
<1>2. ASSUME statusFile'.state = "COMPLETED" PROVE AllWasRun'
  <2>1. PICK e \in Engines :
          /\ eng[e].pc = "completed"
          /\ \A d \in Engines : d > e => Begun(d) = {} \/ eng[d].pc \in {"truncate", "killed"}
    BY <1>2 DEF AllWasRun
  <2>2. eng'[e].pc = "completed"
    BY <2>1
  <2>3. \A d \in Engines : d > e => Begun(d)' = {} \/ eng'[d].pc \in {"truncate", "killed"}
    BY <2>1
  <2> QED BY <2>2, <2>3 DEF AllWasRun
<1> QED BY <1>1, <1>2 DEF AllWasRun

\* A step of a running engine that writes the status.
LEMMA StatusNext == EInv /\ StatusInv /\ [Next]_vars => StatusInv'
<1> SUFFICES ASSUME EInv, StatusInv, [Next]_vars PROVE StatusInv'
  OBVIOUS
<1>1. eng \in [Engines -> EngineRecs] /\ LastLine' /\ LastLine /\ NoCaseShown /\ AllWasRun /\ Shown
  BY EInvIs, LineNext DEF StatusInv
<1>s. ASSUME UNCHANGED statusFile,
             \A e \in Engines :
                /\ Begun(e)' = Begun(e) \/ eng'[e].pc = "truncate"
                /\ eng[e].pc = "completed" => eng'[e].pc = "completed"
                /\ eng[e].pc = "killed" => eng'[e].pc = "killed"
                /\ eng[e].pc = "truncate" => eng'[e].pc \in {"truncate", "killed"}
                /\ eng'[e].pc = "run" => eng[e].pc = "run" /\ eng'[e].case = eng[e].case
                                         /\ eng'[e].phase = eng[e].phase
      PROVE  StatusInv'
  BY <1>1, <1>s, StatusStays DEF StatusInv
\* An engine goes from one place to another that is not "run" and not an end.
<1>m. ASSUME NEW e \in Engines, UNCHANGED statusFile, \A d \in Engines \ {e} : eng'[d] = eng[d],
             eng[e].pc \notin {"completed", "killed", "truncate"}, eng'[e].pc # "run",
             UNCHANGED log
      PROVE  StatusInv'
  <2>1. \A d \in Engines : Begun(d)' = Begun(d)
    BY <1>m, SameLog
  <2> QED BY <1>m, <2>1, <1>s
\* ... or writes a status that names no state of running cases and is none of a run
\* that completed.
<1>w. ASSUME NEW e \in Engines, Running(e), \A d \in Engines \ {e} : eng'[d] = eng[d],
             eng'[e].pc # "run", statusFile' = EmptyStatus
      PROVE  StatusInv'
  <2>1. \A d \in Engines : eng'[d].pc # "run"
    BY <1>w, Alone DEF Ended
  <2>2. Shown'
    BY <2>1 DEF Shown
  <2>3. NoCaseShown' /\ AllWasRun'
    BY <1>w DEF NoCaseShown, AllWasRun, EmptyStatus
  <2> QED BY <1>1, <2>2, <2>3 DEF StatusInv
<1>2. ASSUME NEW e \in Engines, BeginCase(e) PROVE StatusInv'
  <2>1. /\ eng[e].pc = "begin" /\ eng'[e].pc = "truncate" /\ UNCHANGED statusFile
        /\ log' = Append(log, Begin(eng[e].case, e))
        /\ \A d \in Engines \ {e} : eng'[d] = eng[d]
    BY <1>1, <1>2 DEF BeginCase
  <2>2. Begin(eng[e].case, e) \in Lines /\ Begin(eng[e].case, e).by = e
    BY <2>1, NextOf, EngineNumbers DEF Lines, Begin, InHand
  <2>3. \A d \in Engines \ {e} : Begun(d)' = Begun(d)
    BY <2>1, <2>2, LogGrows
  <2> QED BY <2>1, <2>3, <1>s
<1>3. ASSUME NEW e \in Engines, EndCase(e) PROVE StatusInv'
  <2> DEFINE t == eng[e].tester
  <2>1. PICK code \in ExitCodes(tester[t].pc) : log' = Append(log, End(eng[e].case, code, t))
    BY <1>3 DEF EndCase
  <2>2. /\ eng[e].pc = "run" /\ eng'[e].pc = "next" /\ UNCHANGED statusFile
        /\ tester[t].pc \in Over /\ \A d \in Engines \ {e} : eng'[d] = eng[d]
    BY <1>1, <1>3 DEF EndCase
  <2>3. code \in Nat
    BY <2>1, <2>2 DEF ExitCodes, Over
  <2>4. eng[e].case \in Cases /\ t \in Testers
    BY <2>2, NextOf DEF InHand, EInv, CaseInHand
  <2>5. End(eng[e].case, code, t) \in Lines /\ End(eng[e].case, code, t).what = "END"
    BY <2>3, <2>4, ActionsAssumption DEF End, Lines, Testers
  <2>6. \A d \in Engines : Begun(d)' = Begun(d)
    BY <2>1, <2>5, LogGrows
  <2> QED BY <2>2, <2>6, <1>s
<1>4. ASSUME NEW e \in Engines, StartEngine(e) \/ WritePid(e) PROVE StatusInv'
  <2>1. ASSUME NEW pc \in {"pid", "next"}, To(e, pc)
        PROVE  eng'[e].pc # "run" /\ \A d \in Engines \ {e} : eng'[d] = eng[d]
    BY <2>1, ToIs
  <2> QED BY <1>4, <2>1, <1>m DEF StartEngine, WritePid
<1>5. ASSUME NEW e \in Engines, KillEngine(e) PROVE StatusInv'
  <2>1. /\ UNCHANGED <<statusFile, log>> /\ Running(e) /\ eng'[e].pc = "killed"
        /\ \A d \in Engines \ {e} : eng'[d] = eng[d]
    BY <1>5, ToIs DEF KillEngine
  <2>2. \A d \in Engines : Begun(d)' = Begun(d)
    BY <2>1, SameLog
  <2> QED BY <2>1, <2>2, <1>s DEF Running, Ended
<1>6. ASSUME NEW e \in Engines, NextInOrder(e) \/ NextAtRandom(e) PROVE StatusInv'
  <2>1. /\ UNCHANGED <<statusFile, log>> /\ eng[e].pc = "next" /\ eng'[e].pc # "run"
        /\ \A d \in Engines \ {e} : eng'[d] = eng[d]
    <3>1. CASE NextInOrder(e)
      BY <1>1, <3>1 DEF NextInOrder
    <3>2. CASE NextAtRandom(e) /\ To(e, "crashed")
      BY <3>2, ToIs DEF NextAtRandom
    <3>3. CASE NextAtRandom(e) /\ ~To(e, "crashed")
      <4>1. PICK c \in EnabledCases(e) : eng' = [eng EXCEPT ![e].case = c, ![e].pc = "begin"]
        BY <3>3 DEF NextAtRandom
      <4>2. eng'[e].pc = "begin" /\ \A d \in Engines \ {e} : eng'[d] = eng[d]
        BY <1>1, <4>1
      <4> QED BY <3>3, <4>2 DEF NextAtRandom
    <3> QED BY <1>6, <3>1, <3>2, <3>3
  <2> QED BY <2>1, <1>m
<1>7. ASSUME NEW e \in Engines, PhaseOver(e) PROVE StatusInv'
  <2>1. eng[e].pc = "next" /\ Running(e) /\ UNCHANGED log
    BY <1>7 DEF PhaseOver, Running, Ended
  <2>2. CASE To(e, "finish") /\ statusFile' = EmptyStatus
    BY <2>1, <2>2, ToIs, <1>w
  <2>3. CASE eng' = [eng EXCEPT ![e].phase = NextPhase(e), ![e].idx = 1] /\ UNCHANGED statusFile
    <3>1. eng'[e].pc = "next" /\ \A d \in Engines \ {e} : eng'[d] = eng[d]
      BY <1>1, <2>1, <2>3
    <3> QED BY <2>1, <2>3, <3>1, <1>m
  <2> QED BY <1>7, <2>2, <2>3 DEF PhaseOver
<1>8. ASSUME NEW e \in Engines, TruncateStatus(e) PROVE StatusInv'
  <2>1. Running(e)
    BY <1>8 DEF TruncateStatus, Running, Ended
  <2>2. /\ eng'[e].pc = "status" /\ statusFile' = EmptyStatus
        /\ \A d \in Engines \ {e} : eng'[d] = eng[d]
    BY <1>8, ToIs DEF TruncateStatus
  <2> QED BY <2>1, <2>2, <1>w
<1>9. ASSUME NEW e \in Engines, WriteStatus(e) PROVE StatusInv'
  <2>1. /\ Running(e) /\ eng[e].pc = "status" /\ eng[e] \in EngineRecs
        /\ statusFile' = [state |-> StateOf(e), case |-> eng[e].case]
    BY <1>1, <1>9 DEF WriteStatus, Running, Ended
  <2>2. /\ eng'[e].pc = "run" /\ eng'[e].case = eng[e].case /\ eng'[e].phase = eng[e].phase
        /\ \A d \in Engines \ {e} : eng'[d] = eng[d]
    BY <1>1, <1>9 DEF WriteStatus
  <2>3. eng[e].phase \in {"initial", "main", "final"} /\ eng[e].case \in Cases
    BY <2>1, NextOf DEF EngineRecs, InHand
  <2>4. \A d \in Engines \ {e} : eng'[d].pc # "run"
    BY <2>1, <2>2, Alone DEF Ended
  <2>5. Shown'
    BY <2>1, <2>2, <2>4 DEF Shown, StateOf
  <2>6. StateOf(e) \notin {"none", "empty", "COMPLETED"}
    BY <2>3 DEF StateOf, StateIn
  <2>7. NoCaseShown' /\ AllWasRun'
    BY <2>1, <2>3, <2>6, EngineAssumption DEF NoCaseShown, AllWasRun
  <2> QED BY <1>1, <2>5, <2>7 DEF StatusInv
<1>10. ASSUME NEW e \in Engines, Complete(e) PROVE StatusInv'
  <2>1. /\ Running(e) /\ statusFile' = [state |-> "COMPLETED", case |-> NoName] /\ UNCHANGED log
    BY <1>10 DEF Complete, Running, Ended
  <2>2. eng'[e].pc = "completed" /\ \A d \in Engines \ {e} : eng'[d] = eng[d]
    BY <1>10, ToIs DEF Complete
  <2>3. \A d \in Engines : eng'[d].pc # "run"
    BY <2>1, <2>2, Alone DEF Ended
  <2>4. ASSUME NEW d \in Engines, d > e PROVE Begun(d)' = {}
    <3>1. eng[d].pc = "none"
      <4>1. eng[e].pc \notin Ended /\ e < d
        BY <2>1, <2>4, EngineNumbers DEF Running
      <4> QED BY <4>1 DEF EInv, InTurn
    <3>2. Begun(d) = {}
      BY <3>1 DEF EInv, InTurn
    <3> QED BY <2>1, <3>2, SameLog
  <2>5. Shown' /\ NoCaseShown' /\ AllWasRun'
    BY <2>1, <2>2, <2>3, <2>4 DEF Shown, NoCaseShown, AllWasRun
  <2> QED BY <1>1, <2>5 DEF StatusInv
<1>11. CASE Stop
  <2>1. /\ UNCHANGED <<statusFile, log>>
        /\ \A d \in Engines : /\ eng'[d].pc = eng[d].pc /\ eng'[d].case = eng[d].case
                              /\ eng'[d].phase = eng[d].phase
    BY <1>1, <1>11 DEF Stop
  <2>2. \A d \in Engines : Begun(d)' = Begun(d)
    BY <2>1, SameLog
  <2> QED BY <2>1, <2>2, <1>s
<1>12. ASSUME UNCHANGED <<eng, log, statusFile>> PROVE StatusInv'
  <2>1. \A d \in Engines : Begun(d)' = Begun(d)
    BY <1>12, SameLog
  <2> QED BY <1>12, <2>1, <1>s
<1>13. ASSUME NEW t \in Testers, CaseRuns(t) \/ KillCase(t) PROVE UNCHANGED <<eng, log, statusFile>>
  BY <1>13 DEF CaseRuns, KillCase, engineVars
<1>14. ASSUME NEW j \in Jobs, JobRuns(j) \/ CommandOfJobEnds(j) PROVE UNCHANGED <<eng, log, statusFile>>
  BY <1>14 DEF JobRuns, CommandOfJobEnds, engineVars
<1>15. UNCHANGED vars => UNCHANGED <<eng, log, statusFile>>
  BY DEF vars, engineVars
<1> QED BY <1>2, <1>3, <1>4, <1>5, <1>6, <1>7, <1>8, <1>9, <1>10, <1>11, <1>12, <1>13, <1>14, <1>15
        DEF Next, Engine

\* While a case of a running engine is under way the status names it and its phase; a
\* status without a case is one of a run that completed; and it says so only after
\* everything was run.  The engine writes the line of a case before its status, and
\* nobody else does while it runs.
THEOREM StatusTold == Spec => []StatusIsTrue
<1>1. Init => StatusInv
  <2> SUFFICES ASSUME Init PROVE StatusInv
    OBVIOUS
  <2>1. \A e \in Engines : eng[e].pc = "none"
    BY DEF Init, NoEngine
  <2> QED BY <2>1, EngineAssumption DEF Init, StatusInv, LastLine, Shown, NoCaseShown, AllWasRun, Written,
                                        NoStatus
<1>2. StatusInv => StatusIsTrue
  BY StatusInvSays
<1> QED BY <1>1, <1>2, StatusNext, EngineAlways, PTL DEF Spec

-----------------------------------------------------------------------------
\* The report, line by line.

ReportOf(lines, f, n) ==
    f = [m \in 0 .. n |-> IF m = 0 THEN NewReport ELSE ReadLine(f[m - 1], lines[m])]

LEMMA ReportExists ==
    ASSUME NEW lines, NEW n \in Nat
    PROVE  \E f : ReportOf(lines, f, n)
<1> DEFINE T == {m \in 0 .. n : \E f : ReportOf(lines, f, m)}
<1>1. 0 \in T
  <2> DEFINE g == [i \in 0 .. 0 |-> NewReport]
  <2>1. g = [m \in 0 .. 0 |-> IF m = 0 THEN NewReport ELSE ReadLine(g[m - 1], lines[m])]
    <3> HIDE DEF NewReport, ReadLine
    <3> QED OBVIOUS
  <2>2. ReportOf(lines, g, 0)
    BY <2>1 DEF ReportOf
  <2> QED BY <2>2
<1>2. ASSUME NEW m \in 0 .. n, m < n, m \in T PROVE m + 1 \in T
  <2>1. PICK f : ReportOf(lines, f, m)
    BY <1>2
  <2> DEFINE last == ReadLine(f[m], lines[m + 1])
             g    == [i \in 0 .. m + 1 |-> IF i = m + 1 THEN last ELSE f[i]]
  <2>2. ASSUME NEW i \in 0 .. m + 1
        PROVE  g[i] = IF i = 0 THEN NewReport ELSE ReadLine(g[i - 1], lines[i])
    <3>1. CASE i = m + 1
      <4>1. g[i] = last /\ i # 0
        BY <3>1
      <4>2. g[i - 1] = f[m] /\ lines[i] = lines[m + 1]
        BY <3>1, <1>2
      <4> QED BY <4>1, <4>2
    <3>2. CASE i # m + 1
      <4>1. i \in 0 .. m /\ g[i] = f[i]
        BY <3>2, <1>2
      <4>2. f[i] = IF i = 0 THEN NewReport ELSE ReadLine(f[i - 1], lines[i])
        BY <2>1, <4>1 DEF ReportOf
      <4>3. i # 0 => g[i - 1] = f[i - 1]
        BY <4>1, <1>2
      <4> QED BY <4>1, <4>2, <4>3
    <3> QED BY <3>1, <3>2
  <2>3. g = [i \in 0 .. m + 1 |-> IF i = 0 THEN NewReport ELSE ReadLine(g[i - 1], lines[i])]
    <3> HIDE DEF last
    <3> QED BY <2>2
  <2>4. ReportOf(lines, g, m + 1)
    BY <2>3 DEF ReportOf
  <2> QED BY <1>2, <2>4
<1> HIDE DEF T
<1>3. \A m \in 0 .. n : m \in T
  BY <1>1, <1>2, UpTo
<1>4. n \in T
  BY <1>3
<1> QED BY <1>4 DEF T

LEMMA ReportIs ==
    ASSUME NEW lines, Len(lines) \in Nat
    PROVE  \E f : ReportOf(lines, f, Len(lines)) /\ Report(lines) = f[Len(lines)]
<1> DEFINE f == CHOOSE g : ReportOf(lines, g, Len(lines))
<1>1. ReportOf(lines, f, Len(lines))
  BY ReportExists
<1>2. Report(lines) = f[Len(lines)]
  BY DEF Report, ReportOf
<1> QED BY <1>1, <1>2

LEMMA ReportOfNothing == Report(<<>>) = NewReport
<1>1. Len(<<>>) = 0
  OBVIOUS
<1>2. PICK f : ReportOf(<<>>, f, 0) /\ Report(<<>>) = f[0]
  BY <1>1, ReportIs
<1> QED BY <1>2 DEF ReportOf

\* A line more is read after all others.
LEMMA ReportOneMore ==
    ASSUME NEW S, NEW lines \in Seq(S), NEW l \in S
    PROVE  Report(Append(lines, l)) = ReadLine(Report(lines), l)
<1> DEFINE n    == Len(lines)
           more == Append(lines, l)
<1>1. n \in Nat /\ Len(more) = n + 1 /\ more[n + 1] = l /\ \A i \in 1 .. n : more[i] = lines[i]
  OBVIOUS
<1>2. PICK f : ReportOf(lines, f, n) /\ Report(lines) = f[n]
  BY <1>1, ReportIs
<1> HIDE DEF more
<1>3. PICK g : ReportOf(more, g, n + 1) /\ Report(more) = g[n + 1]
  BY <1>1, ReportIs
<1> DEFINE T == {m \in 0 .. n : f[m] = g[m]}
<1>4. 0 \in T
  BY <1>1, <1>2, <1>3 DEF ReportOf
<1>5. ASSUME NEW m \in 0 .. n, m < n, m \in T PROVE m + 1 \in T
  <2>1. m + 1 \in 0 .. n /\ m + 1 \in 0 .. n + 1 /\ m + 1 # 0 /\ (m + 1) - 1 = m /\ m + 1 \in 1 .. n
    BY <1>1, <1>5
  <2>2. f[m + 1] = ReadLine(f[m], lines[m + 1])
    BY <1>2, <2>1 DEF ReportOf
  <2>3. g[m + 1] = ReadLine(g[m], more[m + 1])
    BY <1>3, <2>1 DEF ReportOf
  <2> QED BY <1>1, <1>5, <2>1, <2>2, <2>3
<1> HIDE DEF T
<1>6. \A m \in 0 .. n : m \in T
  BY <1>1, <1>4, <1>5, UpTo
<1>7. f[n] = g[n]
  BY <1>1, <1>6 DEF T
<1>8. g[n + 1] = ReadLine(g[n], more[n + 1])
  <2>1. n + 1 \in 0 .. n + 1 /\ n + 1 # 0 /\ (n + 1) - 1 = n
    BY <1>1
  <2> QED BY <1>3, <2>1 DEF ReportOf
<1> QED BY <1>1, <1>2, <1>3, <1>7, <1>8 DEF more

Reports == [name : Cases \cup {NoName}, raised : BOOLEAN, count : [Cases -> [Counters -> Nat]]]

LEMMA ReadBegin ==
    ASSUME NEW r \in Reports, ~r.raised, NEW c \in Cases, NEW e
    PROVE  /\ ReadLine(r, Begin(c, e)) \in Reports /\ ~ReadLine(r, Begin(c, e)).raised
           /\ ReadLine(r, Begin(c, e)).name = c /\ ReadLine(r, Begin(c, e)).count = r.count
<1>1. ReadLine(r, Begin(c, e)) = [r EXCEPT !.name = c]
  BY DEF ReadLine, Begin, Matches
<1> QED BY <1>1 DEF Reports

\* The name that an exit status is counted under, if it has one.
NameOf(code) == CASE code = 0 -> "PASSED" [] code = 1 -> "FAILED" [] code = 2 -> "SKIPPED"
Plus(n, b) == IF b THEN n + 1 ELSE n

LEMMA ReadEnd ==
    ASSUME NEW r \in Reports, ~r.raised, NEW c \in Cases, r.name = c, NEW t,
           NEW code \in {0, 1, 2, 137}
    PROVE  LET n == ReadLine(r, End(c, code, t))
           IN /\ n \in Reports /\ ~n.raised
              /\ \A d \in Cases : \A s \in Counters :
                    n.count[d][s] = Plus(r.count[d][s], d = c /\ code # 137 /\ s = NameOf(code))
<1> DEFINE n == ReadLine(r, End(c, code, t))
           l == End(c, code, t)
<1>1. l.what = "END" /\ l.case = c /\ l.code = code
  BY DEF End
<1>2. Len(EXIT_STATUS_STRINGS) = 4 /\ (code # 137 => EXIT_STATUS_STRINGS[code + 1] = NameOf(code))
  BY DEF EXIT_STATUS_STRINGS, NameOf
<1>3. CASE code = 137
  <2>1. n = r
    BY <1>1, <1>2, <1>3 DEF ReadLine, Matches
  <2> QED BY <1>3, <2>1 DEF Plus
<1>4. CASE code # 137
  <2> DEFINE s == NameOf(code)
  <2>1. s \in Counters
    BY <1>4 DEF NameOf, Counters
  <2>2. n = [r EXCEPT !.name = NoName, !.count[c][s] = @ + 1]
    <3> DEFINE k == EXIT_STATUS_STRINGS[l.code + 1]
    <3>1. k = s
      BY <1>1, <1>2, <1>4
    <3>2. Matches(l) /\ l.case = r.name /\ l.what # "BEGIN"
      BY <1>1, <1>2, <1>4 DEF Matches
    <3> HIDE DEF l
    <3>3. ReadLine(r, l) = [r EXCEPT !.name = NoName, !.count[l.case][k] = @ + 1]
      BY <3>2 DEF ReadLine
    <3> HIDE DEF k
    <3>4. ReadLine(r, l) = [r EXCEPT !.name = NoName, !.count[c][s] = @ + 1]
      BY <1>1, <3>1, <3>3
    <3> QED BY <3>4 DEF l
  <2> HIDE DEF s, n
  <2>3. r.count \in [Cases -> [Counters -> Nat]] /\ DOMAIN r = {"name", "raised", "count"}
    BY DEF Reports
  <2>4. n.count = [r.count EXCEPT ![c][s] = @ + 1] /\ n.name = NoName /\ n.raised = r.raised
        /\ n = [name |-> NoName, raised |-> r.raised, count |-> n.count]
    BY <2>2 DEF Reports
  <2>5. n.count \in [Cases -> [Counters -> Nat]]
    BY <2>1, <2>3, <2>4
  <2>6. n \in Reports /\ ~n.raised
    BY <2>4, <2>5 DEF Reports
  <2>7. \A d \in Cases : \A k \in Counters :
            n.count[d][k] = IF d = c /\ k = s THEN r.count[d][k] + 1 ELSE r.count[d][k]
    BY <2>1, <2>3, <2>4
  <2> QED BY <1>4, <2>6, <2>7 DEF s, n, Plus
<1> QED BY <1>3, <1>4

-----------------------------------------------------------------------------
\* What the report counts.

LoggedSet == {l.by : l \in {k \in Range(log) : k.what = "END"}}
Runs(c, hows) == {t \in LoggedSet : tester[t].name = c /\ tester[t].pc \in hows}

\* A test case has one line when it is over, and none while it is under way.
Logged ==
    /\ \A t \in LoggedSet : t \in Testers /\ tester[t].pc \in Over
    /\ \A e \in Engines : eng[e].pc = "run" => eng[e].tester \notin LoggedSet
Named == \A e \in Engines : eng[e].pc \in Written => Report(log).name = eng[e].case
Counted ==
    \A c \in Cases :
        LET n == Report(log).count[c]
        IN /\ n["FAILED"] = Cardinality(Runs(c, {"failed", "raised"}))
           /\ n["SKIPPED"] = Cardinality(Runs(c, {"skipped"}))
           /\ n["NOT_CONFIGURED"] = 0
           /\ Cardinality(Runs(c, {"passed"})) <= n["PASSED"]
           /\ n["PASSED"] <= Cardinality(Runs(c, {"passed", "killed"}))

ReportInv ==
    /\ Report(log) \in Reports /\ ~Report(log).raised
    /\ Logged /\ Named /\ Counted

LEMMA LoggedFinite ==
    ASSUME Logged
    PROVE  IsFiniteSet(LoggedSet) /\ \A c, hows : /\ IsFiniteSet(Runs(c, hows))
                                                  /\ Cardinality(Runs(c, hows)) \in Nat
<1>1. IsFiniteSet(Testers)
  BY ActionsAssumption, FS_Interval DEF Testers
<1>2. LoggedSet \subseteq Testers
  BY DEF Logged
<1>3. IsFiniteSet(LoggedSet)
  BY <1>1, <1>2, FS_Subset
<1>4. \A c, hows : Runs(c, hows) \subseteq LoggedSet
  BY DEF Runs
<1>5. \A c, hows : IsFiniteSet(Runs(c, hows))
  BY <1>3, <1>4, FS_Subset
<1> QED BY <1>3, <1>5, FS_CardinalityType

LEMMA ReportSays == EInv /\ ReportInv => ReportTellsTheTruth
<1> SUFFICES ASSUME EInv, ReportInv PROVE ReportTellsTheTruth
  OBVIOUS
<1>1. ASSUME NEW c \in {l.case : l \in Range(log)} PROVE c \in Cases
  <2>1. log \in Seq(Lines)
    BY EInvIs
  <2>2. \A l \in Range(log) : l \in Lines
    BY <2>1 DEF Range
  <2> QED BY <2>2 DEF Lines
<1>2. \A c, hows : Cardinality(Runs(c, hows)) \in Nat
  BY LoggedFinite DEF ReportInv
<1>3. ASSUME NEW c \in Cases
      PROVE  /\ Report(log).count[c]["PASSED"] \in Nat
             /\ Report(log).count[c]["PASSED"] \in
                    Cardinality(Runs(c, {"passed"})) .. Cardinality(Runs(c, {"passed", "killed"}))
  <2>1. "PASSED" \in Counters
    BY DEF Counters
  <2>2. Report(log).count[c]["PASSED"] \in Nat
    BY <2>1 DEF ReportInv, Reports
  <2> QED BY <1>2, <2>2 DEF ReportInv, Counted
<1>4. \A c, hows : Cardinality({t \in LoggedSet : tester[t].name = c /\ tester[t].pc \in hows})
                   = Cardinality(Runs(c, hows))
  BY DEF Runs
<1> HIDE DEF LoggedSet
<1>5. ASSUME NEW c \in {l.case : l \in Range(log)}
      PROVE  LET n == Report(log).count[c]
             IN /\ n["FAILED"] = Cardinality(Runs(c, {"failed", "raised"}))
                /\ n["SKIPPED"] = Cardinality(Runs(c, {"skipped"}))
                /\ n["NOT_CONFIGURED"] = 0
                /\ n["PASSED"] \in
                    Cardinality(Runs(c, {"passed"})) .. Cardinality(Runs(c, {"passed", "killed"}))
  BY <1>1, <1>3 DEF ReportInv, Counted
<1> QED BY <1>5 DEF ReportTellsTheTruth, ReportInv, Runs, LoggedSet

\* Nothing that the report is about changes.
LEMMA ReportStays ==
    ASSUME EInv, ReportInv, UNCHANGED log,
           \A t \in Testers : tester[t].pc \in Over => tester'[t] = tester[t],
           \A e \in Engines :
              /\ eng'[e].pc = "run" => eng'[e].tester \notin LoggedSet
              /\ eng'[e].pc \in Written =>
                    eng[e].pc \in Written /\ eng'[e].case = eng[e].case
    PROVE  ReportInv'
<1>1. LoggedSet' = LoggedSet
  BY DEF LoggedSet
<1>2. \A t \in LoggedSet : t \in Testers /\ tester'[t] = tester[t] /\ tester[t].pc \in Over
  BY DEF ReportInv, Logged
<1>3. Logged'
  BY <1>1, <1>2 DEF Logged
<1>4. \A c, hows : Runs(c, hows)' = Runs(c, hows)
  BY <1>1, <1>2 DEF Runs
<1>5. Report(log)' = Report(log)
  OBVIOUS
<1>6. Named'
  BY <1>5 DEF Named, ReportInv
<1>7. Counted'
  BY <1>4, <1>5 DEF Counted, ReportInv
<1> QED BY <1>3, <1>5, <1>6, <1>7 DEF ReportInv

LEMMA LoggedGrows ==
    ASSUME EInv, NEW l \in Lines, log' = Append(log, l)
    PROVE  LoggedSet' = IF l.what = "END" THEN LoggedSet \cup {l.by} ELSE LoggedSet
<1>1. /\ Len(log) \in Nat /\ Len(log') = Len(log) + 1 /\ log \in Seq(Lines) /\ log' \in Seq(Lines)
      /\ log'[Len(log) + 1] = l /\ \A n \in 1 .. Len(log) : log'[n] = log[n]
  BY LogGrows, EInvIs
<1>2. Range(log') = Range(log) \cup {l}
  BY <1>1 DEF Range
<1>3. LoggedSet' = {k.by : k \in {m \in Range(log') : m.what = "END"}}
  BY DEF LoggedSet
<1>4. LoggedSet = {k.by : k \in {m \in Range(log) : m.what = "END"}}
  BY DEF LoggedSet
<1>5. CASE l.what = "END"
  BY <1>2, <1>3, <1>4, <1>5
<1>6. CASE l.what # "END"
  BY <1>2, <1>3, <1>4, <1>6
<1> QED BY <1>5, <1>6

LEMMA OverStays ==
    ASSUME EInv, [Next]_vars, NEW u \in Testers, tester[u].pc \in Over
    PROVE  tester'[u] = tester[u]
<1>1. tester \in [Testers -> TesterRecs]
  BY EInvIs DEF AInv, ActionsTypeOK
<1>2. ASSUME NEW t \in Testers, CaseRuns(t) \/ KillCase(t) PROVE tester'[u] = tester[u]
  <2>1. RunScript(t) \/ Fails(t) \/ Skips(t) \/ KillTester(t)
    BY <1>2 DEF CaseRuns, KillCase
  <2>2. Alive(t) /\ \A v \in Testers \ {t} : tester'[v] = tester[v]
    BY <2>1, SameCase, EInvIs
  <2> QED BY <2>2 DEF Alive
<1>3. ASSUME NEW j \in Jobs, JobRuns(j) \/ CommandOfJobEnds(j) PROVE tester'[u] = tester[u]
  BY <1>3 DEF JobRuns, CommandOfJobEnds, Job, CommandEnds, LoadAndRun, StoreAction, Truncate,
         StoreCommand
<1>4. ASSUME NEW e \in Engines, WriteStatus(e) PROVE tester'[u] = tester[u]
  BY <1>1, <1>4 DEF WriteStatus, Unstarted, Spawn, Over
<1>5. ASSUME NEW e \in Engines, StartEngine(e) \/ Engine(e) \/ KillEngine(e), ~WriteStatus(e)
      PROVE  tester'[u] = tester[u]
  BY <1>5 DEF StartEngine, Engine, KillEngine, WritePid, NextInOrder, NextAtRandom, PhaseOver,
         BeginCase, TruncateStatus, EndCase, Complete, actionVars
<1>6. Stop \/ UNCHANGED vars => tester'[u] = tester[u]
  BY DEF Stop, vars, actionVars
<1> QED BY <1>2, <1>3, <1>4, <1>5, <1>6 DEF Next

LEMMA ReportEndCase ==
    ASSUME EInv, ReportInv, NEW e \in Engines, EndCase(e)
    PROVE  ReportInv'
<1>0. PICK t : t = eng[e].tester
  OBVIOUS
<1>a. PICK c : c = eng[e].case
  OBVIOUS
<1>1. PICK code \in ExitCodes(tester[t].pc) : log' = Append(log, End(c, code, t))
  BY <1>0, <1>a DEF EndCase
<1>2. /\ Running(e) /\ eng[e].pc = "run" /\ tester[t].pc \in Over /\ tester' = tester
      /\ eng'[e].pc = "next" /\ \A d \in Engines \ {e} : eng'[d] = eng[d]
  <2>1. eng \in [Engines -> EngineRecs]
    BY EInvIs
  <2> QED BY <1>0, <2>1 DEF EndCase, Running, Ended, actionVars
<1>3. \A d \in Engines : eng'[d].pc \notin Written
  BY <1>2, Alone DEF Ended, Written
<1>4. c \in Cases /\ t \in Testers /\ t \in Nat /\ tester[t].name = c /\ t \notin LoggedSet
  <2>1. c \in Cases /\ t \in Testers /\ tester[t].name = c /\ t \notin LoggedSet
    BY <1>0, <1>a, <1>2, NextOf DEF InHand, EInv, CaseInHand, ReportInv, Logged
  <2> QED BY <2>1, ActionsAssumption DEF Testers
<1>5. code \in {0, 1, 2, 137} /\ code \in Nat
  BY <1>1, <1>2 DEF ExitCodes, Over
<1>6. /\ End(c, code, t) \in Lines /\ End(c, code, t).what = "END" /\ End(c, code, t).by = t
      /\ log \in Seq(Lines)
  BY <1>4, <1>5, EInvIs DEF End, Lines
<1>7. LoggedSet' = LoggedSet \cup {t}
  BY <1>1, <1>6, LoggedGrows
<1>8. Report(log)' = ReadLine(Report(log), End(c, code, t))
  BY <1>1, <1>6, ReportOneMore
<1>9. Report(log) \in Reports /\ ~Report(log).raised /\ Report(log).name = c
  BY <1>a, <1>2 DEF ReportInv, Named, Written
<1> DEFINE Pl(n, s) == Plus(n, code # 137 /\ s = NameOf(code))
<1>10. /\ Report(log)' \in Reports /\ ~Report(log)'.raised
       /\ \A d \in Cases : \A s \in Counters :
            Report(log)'.count[d][s] = Plus(Report(log).count[d][s],
                                            d = c /\ code # 137 /\ s = NameOf(code))
  BY <1>4, <1>5, <1>8, <1>9, ReadEnd
<1>11. Logged'
  BY <1>2, <1>3, <1>4, <1>7 DEF Logged, ReportInv, Written
<1>12. ASSUME NEW d, NEW hows
       PROVE  Cardinality(Runs(d, hows))' =
                Plus(Cardinality(Runs(d, hows)), d = c /\ tester[t].pc \in hows)
  <2>1. IsFiniteSet(Runs(d, hows)) /\ t \notin Runs(d, hows)
    BY <1>4, LoggedFinite DEF ReportInv, Runs
  <2>2. Runs(d, hows)' = IF d = c /\ tester[t].pc \in hows THEN Runs(d, hows) \cup {t} ELSE Runs(d, hows)
    BY <1>2, <1>4, <1>7 DEF Runs
  <2> QED BY <2>1, <2>2, FS_AddElement DEF Plus
<1>13. Counted'
  <2> SUFFICES ASSUME NEW d \in Cases
               PROVE  LET n == Report(log)'.count[d]
                      IN /\ n["FAILED"] = Cardinality(Runs(d, {"failed", "raised"}))'
                         /\ n["SKIPPED"] = Cardinality(Runs(d, {"skipped"}))'
                         /\ n["NOT_CONFIGURED"] = 0
                         /\ Cardinality(Runs(d, {"passed"}))' <= n["PASSED"]
                         /\ n["PASSED"] <= Cardinality(Runs(d, {"passed", "killed"}))'
    BY DEF Counted
  <2> DEFINE o == Report(log).count[d]
             n == Report(log)'.count[d]
             b == d = c
             how == tester[t].pc
  <2>1. /\ o["FAILED"] = Cardinality(Runs(d, {"failed", "raised"}))
        /\ o["SKIPPED"] = Cardinality(Runs(d, {"skipped"}))
        /\ o["NOT_CONFIGURED"] = 0
        /\ Cardinality(Runs(d, {"passed"})) <= o["PASSED"]
        /\ o["PASSED"] <= Cardinality(Runs(d, {"passed", "killed"}))
    BY DEF ReportInv, Counted
  <2>2. \A s \in Counters : n[s] = Plus(o[s], b /\ code # 137 /\ s = NameOf(code))
    BY <1>10
  <2>3. \A s \in Counters : o[s] \in Nat
    BY <1>9 DEF Reports
  <2>4. \A hows : Cardinality(Runs(d, hows)) \in Nat
    BY LoggedFinite DEF ReportInv
  <2>5. {"PASSED", "FAILED", "SKIPPED", "NOT_CONFIGURED"} \subseteq Counters
    BY DEF Counters
  <2>6. /\ how = "passed" => code = 0
        /\ how \in {"failed", "raised"} => code = 1
        /\ how = "skipped" => code = 2
        /\ how = "killed" => code \in {0, 137}
        /\ how \in {"passed", "failed", "raised", "skipped", "killed"}
    BY <1>1, <1>2 DEF ExitCodes, Over
  <2>7. /\ Cardinality(Runs(d, {"failed", "raised"}))' =
               Plus(Cardinality(Runs(d, {"failed", "raised"})), b /\ how \in {"failed", "raised"})
        /\ Cardinality(Runs(d, {"skipped"}))' =
               Plus(Cardinality(Runs(d, {"skipped"})), b /\ how \in {"skipped"})
        /\ Cardinality(Runs(d, {"passed"}))' =
               Plus(Cardinality(Runs(d, {"passed"})), b /\ how \in {"passed"})
        /\ Cardinality(Runs(d, {"passed", "killed"}))' =
               Plus(Cardinality(Runs(d, {"passed", "killed"})), b /\ how \in {"passed", "killed"})
    BY <1>12
  <2> HIDE DEF n, o, b, how
  <2>8. n["FAILED"] = Cardinality(Runs(d, {"failed", "raised"}))'
    <3>1. (code # 137 /\ "FAILED" = NameOf(code)) <=> how \in {"failed", "raised"}
      BY <1>5, <2>6 DEF NameOf
    <3> QED BY <2>1, <2>2, <2>5, <2>7, <3>1 DEF Plus
  <2>9. n["SKIPPED"] = Cardinality(Runs(d, {"skipped"}))'
    <3>1. (code # 137 /\ "SKIPPED" = NameOf(code)) <=> how \in {"skipped"}
      BY <1>5, <2>6 DEF NameOf
    <3> QED BY <2>1, <2>2, <2>5, <2>7, <3>1 DEF Plus
  <2>10. n["NOT_CONFIGURED"] = 0
    <3>1. code # 137 => "NOT_CONFIGURED" # NameOf(code)
      BY <1>5 DEF NameOf
    <3> QED BY <2>1, <2>2, <2>5, <3>1 DEF Plus
  <2>11. /\ Cardinality(Runs(d, {"passed"}))' <= n["PASSED"]
         /\ n["PASSED"] <= Cardinality(Runs(d, {"passed", "killed"}))'
    <3>1. /\ how \in {"passed"} => code # 137 /\ "PASSED" = NameOf(code)
          /\ code # 137 /\ "PASSED" = NameOf(code) => how \in {"passed", "killed"}
      BY <1>5, <2>6 DEF NameOf
    <3>2. o["PASSED"] \in Nat /\ Cardinality(Runs(d, {"passed"})) \in Nat
          /\ Cardinality(Runs(d, {"passed", "killed"})) \in Nat
      BY <2>3, <2>4, <2>5
    <3> QED BY <2>1, <2>2, <2>5, <2>7, <3>1, <3>2 DEF Plus
  <2> QED BY <2>8, <2>9, <2>10, <2>11 DEF n
<1>14. Named'
  BY <1>3 DEF Named
<1> QED BY <1>10, <1>11, <1>13, <1>14 DEF ReportInv

LEMMA ReportBeginCase ==
    ASSUME EInv, ReportInv, NEW e \in Engines, BeginCase(e)
    PROVE  ReportInv'
<1>0. PICK c : c = eng[e].case
  OBVIOUS
<1>1. /\ Running(e) /\ eng[e].pc = "begin" /\ log' = Append(log, Begin(c, e)) /\ tester' = tester
      /\ eng'[e].pc = "truncate" /\ eng'[e].case = c
      /\ \A d \in Engines \ {e} : eng'[d] = eng[d]
  <2>1. eng \in [Engines -> EngineRecs]
    BY EInvIs
  <2> QED BY <1>0, <2>1 DEF BeginCase, Running, Ended, actionVars
<1>2. c \in Cases /\ Begin(c, e) \in Lines /\ Begin(c, e).what = "BEGIN" /\ log \in Seq(Lines)
  BY <1>0, <1>1, NextOf, EngineNumbers, EInvIs DEF Lines, Begin, InHand
<1>3. LoggedSet' = LoggedSet
  BY <1>1, <1>2, LoggedGrows
<1>4. Report(log)' = ReadLine(Report(log), Begin(c, e))
  BY <1>1, <1>2, ReportOneMore
<1>5. Report(log) \in Reports /\ ~Report(log).raised
  BY DEF ReportInv
<1>6. /\ Report(log)' \in Reports /\ ~Report(log)'.raised /\ Report(log)'.name = c
      /\ Report(log)'.count = Report(log).count
  BY <1>2, <1>4, <1>5, ReadBegin
<1>7. \A d \in Engines \ {e} : eng'[d].pc \notin Written
  BY <1>1, Alone DEF Ended, Written
<1>8. Named'
  BY <1>1, <1>6, <1>7 DEF Named
<1>9. Logged'
  <2>1. \A d \in Engines : eng'[d].pc # "run"
    BY <1>1, <1>7 DEF Written
  <2> QED BY <1>1, <1>3, <2>1 DEF Logged, ReportInv
<1>10. \A d, hows : Runs(d, hows)' = Runs(d, hows)
  BY <1>1, <1>3 DEF Runs
<1>11. Counted'
  BY <1>6, <1>10 DEF Counted, ReportInv
<1> QED BY <1>6, <1>8, <1>9, <1>11 DEF ReportInv

LEMMA ReportNext == EInv /\ ReportInv /\ [Next]_vars => ReportInv'
<1> SUFFICES ASSUME EInv, ReportInv, [Next]_vars PROVE ReportInv'
  OBVIOUS
<1>1. eng \in [Engines -> EngineRecs]
  BY EInvIs
<1>2. \A t \in Testers : tester[t].pc \in Over => tester'[t] = tester[t]
  BY OverStays
<1>3. \A t \in LoggedSet : tester[t].pc \in Over
  BY DEF ReportInv, Logged
<1>s. ASSUME UNCHANGED log,
             \A e \in Engines :
                eng'[e].pc \in Written =>
                    /\ eng[e].pc \in Written /\ eng'[e].case = eng[e].case
                    /\ eng'[e].pc = "run" => eng[e].pc = "run" /\ eng'[e].tester = eng[e].tester
      PROVE  ReportInv'
  <2>1. \A e \in Engines : eng'[e].pc = "run" => eng'[e].tester \notin LoggedSet
    BY <1>s DEF ReportInv, Logged, Written
  <2> QED BY <1>2, <1>s, <2>1, ReportStays
<1>t. ASSUME NEW e \in Engines, NEW pc, pc # "run", To(e, pc), UNCHANGED log,
             pc \in Written => eng[e].pc \in Written
      PROVE  ReportInv'
  <2>1. eng'[e].pc = pc /\ eng'[e].case = eng[e].case /\ \A d \in Engines \ {e} : eng'[d] = eng[d]
    BY <1>t, ToIs
  <2> QED BY <1>t, <2>1, <1>s
<1>4. ASSUME NEW e \in Engines, StartEngine(e) \/ WritePid(e) \/ TruncateStatus(e)
                                \/ Complete(e) \/ KillEngine(e)
      PROVE  ReportInv'
  <2>1. "pid" \notin Written /\ "next" \notin Written /\ "completed" \notin Written
        /\ "killed" \notin Written /\ "truncate" \in Written
    BY DEF Written
  <2> QED BY <1>4, <1>t, <2>1 DEF StartEngine, WritePid, TruncateStatus, Complete, KillEngine
<1>5. ASSUME NEW e \in Engines, NextInOrder(e) PROVE ReportInv'
  <2>1. UNCHANGED log /\ eng'[e].pc \notin Written /\ \A d \in Engines \ {e} : eng'[d] = eng[d]
    BY <1>1, <1>5 DEF NextInOrder, Written
  <2> QED BY <2>1, <1>s
<1>6. ASSUME NEW e \in Engines, NextAtRandom(e) PROVE ReportInv'
  <2>1. CASE To(e, "crashed")
    BY <1>6, <2>1, <1>t DEF NextAtRandom, Written
  <2>2. CASE ~To(e, "crashed")
    <3>1. PICK c \in EnabledCases(e) : eng' = [eng EXCEPT ![e].case = c, ![e].pc = "begin"]
      BY <1>6, <2>2 DEF NextAtRandom
    <3>2. UNCHANGED log /\ eng'[e].pc = "begin" /\ \A d \in Engines \ {e} : eng'[d] = eng[d]
      <4>1. eng'[e].pc = "begin" /\ \A d \in Engines \ {e} : eng'[d] = eng[d]
        BY <1>1, <3>1
      <4> QED BY <1>6, <4>1 DEF NextAtRandom
    <3> QED BY <3>2, <1>s DEF Written
  <2> QED BY <2>1, <2>2
<1>7. ASSUME NEW e \in Engines, PhaseOver(e) PROVE ReportInv'
  <2>1. CASE To(e, "finish")
    BY <1>7, <2>1, <1>t DEF PhaseOver, Written
  <2>2. CASE ~To(e, "finish")
    <3>1. eng' = [eng EXCEPT ![e].phase = NextPhase(e), ![e].idx = 1]
      BY <1>7, <2>2 DEF PhaseOver
    <3>2. UNCHANGED log /\ eng'[e].pc = "next" /\ \A d \in Engines \ {e} : eng'[d] = eng[d]
      BY <1>1, <1>7, <3>1 DEF PhaseOver
    <3> QED BY <3>2, <1>s DEF Written
  <2> QED BY <2>1, <2>2
<1>8. ASSUME NEW e \in Engines, WriteStatus(e) PROVE ReportInv'
  <2>1. PICK t \in Unstarted : eng' = [eng EXCEPT ![e].pc = "run", ![e].tester = t]
    BY <1>8 DEF WriteStatus
  <2>2. /\ UNCHANGED log /\ eng[e].pc = "status" /\ eng'[e].pc = "run" /\ eng'[e].tester = t
        /\ eng'[e].case = eng[e].case /\ \A d \in Engines \ {e} : eng'[d] = eng[d]
    <3>1. /\ eng'[e].pc = "run" /\ eng'[e].tester = t /\ eng'[e].case = eng[e].case
          /\ \A d \in Engines \ {e} : eng'[d] = eng[d]
      BY <1>1, <2>1
    <3> QED BY <1>8, <3>1 DEF WriteStatus
  <2>3. t \notin LoggedSet
    BY <1>3, <2>1 DEF Unstarted, Over
  <2>4. \A d \in Engines : eng'[d].pc = "run" => eng'[d].tester \notin LoggedSet
    BY <2>2, <2>3 DEF ReportInv, Logged
  <2> QED BY <1>2, <2>2, <2>4, ReportStays DEF Written
<1>9. CASE Stop
  <2>1. /\ UNCHANGED log
        /\ \A d \in Engines : /\ eng'[d].pc = eng[d].pc /\ eng'[d].case = eng[d].case
                              /\ eng'[d].tester = eng[d].tester
    BY <1>1, <1>9 DEF Stop
  <2> QED BY <2>1, <1>s
<1>10. ASSUME UNCHANGED <<eng, log>> PROVE ReportInv'
  BY <1>10, <1>s
<1>11. ASSUME NEW t \in Testers, CaseRuns(t) \/ KillCase(t) PROVE UNCHANGED <<eng, log>>
  BY <1>11 DEF CaseRuns, KillCase, engineVars
<1>12. ASSUME NEW j \in Jobs, JobRuns(j) \/ CommandOfJobEnds(j) PROVE UNCHANGED <<eng, log>>
  BY <1>12 DEF JobRuns, CommandOfJobEnds, engineVars
<1>13. UNCHANGED vars => UNCHANGED <<eng, log>>
  BY DEF vars, engineVars
<1> QED BY <1>4, <1>5, <1>6, <1>7, <1>8, <1>9, <1>10, <1>11, <1>12, <1>13, ReportBeginCase,
           ReportEndCase DEF Next, Engine

LEMMA ReportInitially == Init => ReportInv
<1> SUFFICES ASSUME Init PROVE ReportInv
  OBVIOUS
<1>1. log = <<>> /\ \A e \in Engines : eng[e].pc = "none"
  BY DEF Init, NoEngine
<1>2. LoggedSet = {}
  BY <1>1 DEF LoggedSet, Range
<1>3. Report(log) = NewReport
  BY <1>1, ReportOfNothing
<1>4. /\ NewReport \in Reports /\ ~NewReport.raised
      /\ \A c \in Cases : \A s \in Counters : NewReport.count[c][s] = 0
  BY DEF NewReport, Reports
<1>5. \A c, hows : Cardinality(Runs(c, hows)) = 0
  BY <1>2, FS_EmptySet DEF Runs
<1>6. {"PASSED", "FAILED", "SKIPPED", "NOT_CONFIGURED"} \subseteq Counters
  BY DEF Counters
<1>7. Counted
  BY <1>3, <1>4, <1>5, <1>6 DEF Counted
<1> QED BY <1>1, <1>2, <1>3, <1>4, <1>7 DEF ReportInv, Logged, Named, Written

\* Whatever was killed, and whenever the report is asked for, it can be made, and it
\* counts for every case the runs that failed, were skipped and passed: one line says
\* how a test case ended, and the engine writes it between the BEGIN of that case and
\* the next.
THEOREM ReportTold == Spec => []ReportTellsTheTruth
BY ReportInitially, ReportNext, ReportSays, EngineAlways, PTL DEF Spec

-----------------------------------------------------------------------------
\* The order in the bundle's file.

\* What a bundle has at the top (0) and in a specification.
Part(b, i, p) == IF i = 0 THEN b.top[p] ELSE b.specs[i][p]

\* No case is in a bundle twice.
EachOnce(b) ==
    \A i, j \in 0 .. Len(b.specs) : \A p, q \in Range(Phases) :
        \A k \in DOMAIN Part(b, i, p) : \A l \in DOMAIN Part(b, j, q) :
            Part(b, i, p)[k] = Part(b, j, q)[l] => i = j /\ p = q /\ k = l

\* What comes in the j-th place, after the top's 0, and where it starts.
Src(o, j) == IF j = 0 THEN 0 ELSE o[j]
LaidOut(b, o, p, at) ==
    LET n == Len(b.specs)
        l == Merge(b, o).list[p]
    IN /\ at \in [0 .. n -> Nat]
       /\ \A j \in 0 .. n :
            /\ at[j] + Len(Part(b, Src(o, j), p)) <= Len(l)
            /\ \A k \in 1 .. Len(Part(b, Src(o, j), p)) : l[at[j] + k] = Part(b, Src(o, j), p)[k]
       /\ \A x \in 1 .. Len(l) : \E j \in 0 .. n : \E k \in 1 .. Len(Part(b, Src(o, j), p)) : x = at[j] + k
       /\ \A j \in 1 .. n : IF p = "final" THEN at[j] + Len(Part(b, Src(o, j), p)) <= at[0]
                            ELSE at[0] + Len(b.top[p]) <= at[j]

LEMMA PartIs ==
    ASSUME NEW b \in Bundles, NEW i \in 0 .. Len(b.specs), NEW p \in Range(Phases)
    PROVE  /\ Part(b, i, p) \in Seq(Cases) /\ Len(Part(b, i, p)) \in Nat
           /\ DOMAIN Part(b, i, p) = 1 .. Len(Part(b, i, p))
<1>1. Part(b, i, p) \in Seq(Cases)
  <2>1. CASE i = 0
    BY <2>1, BundleIs, ListOfPhase DEF Part
  <2>2. CASE i # 0
    <3>1. i \in 1 .. Len(b.specs) /\ Len(b.specs) \in Nat
      BY <2>2, BundleIs
    <3>2. b.specs[i] \in Lists
      BY <3>1, BundleIs
    <3> QED BY <2>2, <3>2, ListOfPhase DEF Part
  <2> QED BY <2>1, <2>2
<1> QED BY <1>1

\* Every element of the flat sequence is from one of those it is made of.
Covers(s, ss, n, off) ==
    \A x \in 1 .. Len(s) : \E i \in 1 .. n : \E k \in 1 .. Len(ss[i]) : x = off[i - 1] + k

LEMMA FlatFrom ==
    ASSUME NEW s, NEW ss, NEW n \in Nat, NEW off, Flattens(s, ss, n, off),
           \A i \in 1 .. n : Len(ss[i]) \in Nat
    PROVE  Covers(s, ss, n, off)
<1> SUFFICES ASSUME NEW x \in 1 .. Len(s)
             PROVE  \E i \in 1 .. n : \E k \in 1 .. Len(ss[i]) : x = off[i - 1] + k
  BY DEF Covers
<1> DEFINE S == {i \in 0 .. n : x <= off[i]}
<1>1. off \in [0 .. n -> Nat] /\ off[0] = 0 /\ off[n] = Len(s) /\ off[n] \in Nat
  BY DEF Flattens
<1>2. S \in SUBSET Nat /\ n \in S
  BY <1>1
<1>3. PICK i \in S : \A m \in S : i <= m
  BY <1>2, LowestExists
<1>4. x \in Nat /\ 1 <= x
  BY <1>1
<1>5. i \in 1 .. n /\ i - 1 \in 0 .. n /\ i - 1 \notin S
  BY <1>1, <1>3, <1>4
<1>6. off[i] = off[i - 1] + Len(ss[i]) /\ off[i - 1] \in Nat /\ off[i - 1] < x /\ x <= off[i]
  BY <1>1, <1>3, <1>4, <1>5 DEF Flattens
<1>7. Len(ss[i]) \in Nat
  BY <1>5
<1>8. x - off[i - 1] \in 1 .. Len(ss[i]) /\ x = off[i - 1] + (x - off[i - 1])
  BY <1>4, <1>6, <1>7
<1> QED BY <1>5, <1>8

LEMMA BundleIsLaidOut ==
    ASSUME NEW b \in Bundles, NEW o \in Orders(Len(b.specs)), NEW p \in Range(Phases)
    PROVE  \E at : LaidOut(b, o, p, at)
<1> DEFINE n   == Len(b.specs)
           ss  == InSpecs(b, o, p)
           s   == SpecCases(b, o, p)
           top == b.top[p]
           l   == Merge(b, o).list[p]
<1>1. n \in Nat /\ s \in Seq(Cases) /\ top \in Seq(Cases)
  BY BundleIs, ListOfPhase, SpecCasesAre
<1>2. PICK off : Flattens(s, ss, n, off)
  BY SpecCasesAre
<1>3. \A j \in 1 .. n : Src(o, j) \in 1 .. n /\ ss[j] = Part(b, Src(o, j), p)
  BY <1>1, OrderIs DEF Src, Part, InSpecs
<1>4. Src(o, 0) = 0 /\ Part(b, 0, p) = top
  BY DEF Src, Part
<1>5. l = IF p = "final" THEN s \o top ELSE top \o s
  BY DEF Merge
<1>6. Len(s) \in Nat /\ Len(top) \in Nat /\ \A j \in 1 .. n : Len(ss[j]) \in Nat
  BY <1>1, <1>3, PartIs
<1>7. /\ off \in [0 .. n -> Nat] /\ off[0] = 0 /\ off[n] = Len(s)
      /\ \A i \in 0 .. n : off[i] <= Len(s)
      /\ \A i \in 1 .. n :
           /\ off[i] = off[i - 1] + Len(ss[i])
           /\ \A k \in 1 .. Len(ss[i]) : s[off[i - 1] + k] = ss[i][k]
  BY <1>2 DEF Flattens
<1> HIDE DEF n, ss, s, top, l
<1>8. \A x \in 1 .. Len(s) : \E j \in 1 .. n : \E k \in 1 .. Len(ss[j]) : x = off[j - 1] + k
  <2>1. n \in Nat /\ Flattens(s, ss, n, off) /\ \A j \in 1 .. n : Len(ss[j]) \in Nat
    BY <1>1, <1>2, <1>6
  <2>2. Covers(s, ss, n, off)
    BY ONLY <2>1, FlatFrom
  <2> QED BY <2>2 DEF Covers
<1>9. \A j \in 1 .. n : j - 1 \in 0 .. n /\ j \in 0 .. n /\ off[j - 1] \in Nat /\ off[j - 1] + Len(ss[j]) <= Len(s)
  <2> SUFFICES ASSUME NEW j \in 1 .. n
               PROVE  j - 1 \in 0 .. n /\ j \in 0 .. n /\ off[j - 1] \in Nat /\ off[j - 1] + Len(ss[j]) <= Len(s)
    OBVIOUS
  <2>1. j - 1 \in 0 .. n /\ j \in 0 .. n
    BY <1>1
  <2>2. off[j - 1] \in Nat /\ off[j] \in Nat
    BY <1>7, <2>1
  <2> QED BY <1>6, <1>7, <2>1, <2>2
<1>10. CASE p = "final"
  <2> DEFINE at == [j \in 0 .. n |-> IF j = 0 THEN Len(s) ELSE off[j - 1]]
  <2>1. Len(l) = Len(s) + Len(top) /\ (\A x \in 1 .. Len(s) : l[x] = s[x])
        /\ (\A x \in 1 .. Len(top) : l[Len(s) + x] = top[x])
    BY <1>1, <1>5, <1>10
  <2>2. at \in [0 .. n -> Nat] /\ at[0] = Len(s) /\ \A j \in 1 .. n : at[j] = off[j - 1]
    <3>1. \A j \in 0 .. n : j # 0 => j \in 1 .. n
      BY <1>1
    <3>2. 0 \in 0 .. n /\ \A j \in 1 .. n : j # 0
      BY <1>1
    <3> QED BY <1>6, <1>9, <3>1, <3>2
  <2> HIDE DEF at
  <2>3. ASSUME NEW j \in 0 .. n
        PROVE  /\ at[j] + Len(Part(b, Src(o, j), p)) <= Len(l)
               /\ \A k \in 1 .. Len(Part(b, Src(o, j), p)) : l[at[j] + k] = Part(b, Src(o, j), p)[k]
    <3>1. CASE j = 0
      <4>1. Part(b, Src(o, j), p) = top /\ at[j] = Len(s)
        BY <1>4, <2>2, <3>1
      <4> QED BY <1>6, <2>1, <4>1
    <3>2. CASE j # 0
      <4>1. j \in 1 .. n
        BY <1>1, <3>2
      <4>2. ASSUME NEW k \in 1 .. Len(ss[j]) PROVE l[off[j - 1] + k] = ss[j][k]
        <5>1. off[j - 1] + k \in 1 .. Len(s)
          BY <1>6, <1>9, <4>1
        <5>2. s[off[j - 1] + k] = ss[j][k]
          BY <1>7, <4>1
        <5> QED BY <2>1, <5>1, <5>2
      <4>3. /\ Part(b, Src(o, j), p) = ss[j] /\ Len(ss[j]) \in Nat /\ off[j - 1] \in Nat
            /\ off[j - 1] + Len(ss[j]) <= Len(s)
        BY <1>3, <1>6, <1>9, <4>1
      <4>4. at[j] = off[j - 1]
        BY <2>2, <4>1
      <4>5. at[j] + Len(ss[j]) <= Len(l)
        BY ONLY <1>6, <2>1, <4>3, <4>4
      <4> QED BY <4>2, <4>3, <4>4, <4>5
    <3> QED BY <3>1, <3>2
  <2>4. ASSUME NEW x \in 1 .. Len(l)
        PROVE  \E j \in 0 .. n : \E k \in 1 .. Len(Part(b, Src(o, j), p)) : x = at[j] + k
    <3>1. CASE x <= Len(s)
      <4>1. x \in 1 .. Len(s)
        BY <1>6, <2>1, <3>1
      <4>2. PICK j \in 1 .. n : \E k \in 1 .. Len(ss[j]) : x = off[j - 1] + k
        BY <1>8, <4>1
      <4> QED BY <1>3, <1>9, <2>2, <4>2
    <3>2. CASE ~(x <= Len(s))
      <4>1. x - Len(s) \in 1 .. Len(top) /\ x = Len(s) + (x - Len(s)) /\ 0 \in 0 .. n
        BY <1>1, <1>6, <2>1, <3>2
      <4> QED BY <1>4, <2>2, <4>1
    <3> QED BY <3>1, <3>2
  <2>5. \A j \in 1 .. n : at[j] + Len(Part(b, Src(o, j), p)) <= at[0]
    BY <1>3, <1>9, <2>2
  <2>6. LaidOut(b, o, p, at)
    BY <1>10, <2>2, <2>3, <2>4, <2>5 DEF LaidOut, n, l
  <2> QED BY <2>6
<1>11. CASE p # "final"
  <2> DEFINE at == [j \in 0 .. n |-> IF j = 0 THEN 0 ELSE Len(top) + off[j - 1]]
  <2>1. Len(l) = Len(top) + Len(s) /\ (\A x \in 1 .. Len(top) : l[x] = top[x])
        /\ (\A x \in 1 .. Len(s) : l[Len(top) + x] = s[x])
    BY <1>1, <1>5, <1>11
  <2>2. at \in [0 .. n -> Nat] /\ at[0] = 0 /\ \A j \in 1 .. n : at[j] = Len(top) + off[j - 1]
    <3>1. \A j \in 0 .. n : j # 0 => j \in 1 .. n
      BY <1>1
    <3>2. 0 \in 0 .. n /\ \A j \in 1 .. n : j # 0
      BY <1>1
    <3> QED BY <1>6, <1>9, <3>1, <3>2
  <2> HIDE DEF at
  <2>3. ASSUME NEW j \in 0 .. n
        PROVE  /\ at[j] + Len(Part(b, Src(o, j), p)) <= Len(l)
               /\ \A k \in 1 .. Len(Part(b, Src(o, j), p)) : l[at[j] + k] = Part(b, Src(o, j), p)[k]
    <3>1. CASE j = 0
      <4>1. Part(b, Src(o, j), p) = top /\ at[j] = 0
        BY <1>4, <2>2, <3>1
      <4> QED BY <1>6, <2>1, <4>1
    <3>2. CASE j # 0
      <4>1. j \in 1 .. n
        BY <1>1, <3>2
      <4>2. ASSUME NEW k \in 1 .. Len(ss[j]) PROVE l[(Len(top) + off[j - 1]) + k] = ss[j][k]
        <5>1. off[j - 1] + k \in 1 .. Len(s) /\ (Len(top) + off[j - 1]) + k = Len(top) + (off[j - 1] + k)
          BY <1>6, <1>9, <4>1
        <5>2. s[off[j - 1] + k] = ss[j][k]
          BY <1>7, <4>1
        <5> QED BY <2>1, <5>1, <5>2
      <4>3. /\ Part(b, Src(o, j), p) = ss[j] /\ Len(ss[j]) \in Nat /\ off[j - 1] \in Nat
            /\ off[j - 1] + Len(ss[j]) <= Len(s)
        BY <1>3, <1>6, <1>9, <4>1
      <4>4. at[j] = Len(top) + off[j - 1]
        BY <2>2, <4>1
      <4>5. at[j] + Len(ss[j]) <= Len(l)
        BY ONLY <1>6, <2>1, <4>3, <4>4
      <4> QED BY <4>2, <4>3, <4>4, <4>5
    <3> QED BY <3>1, <3>2
  <2>4. ASSUME NEW x \in 1 .. Len(l)
        PROVE  \E j \in 0 .. n : \E k \in 1 .. Len(Part(b, Src(o, j), p)) : x = at[j] + k
    <3>1. CASE x <= Len(top)
      <4>1. x \in 1 .. Len(top) /\ x = 0 + x /\ 0 \in 0 .. n
        BY <1>1, <1>6, <2>1, <3>1
      <4> QED BY <1>4, <2>2, <4>1
    <3>2. CASE ~(x <= Len(top))
      <4>1. x - Len(top) \in 1 .. Len(s) /\ x = Len(top) + (x - Len(top))
        BY <1>6, <2>1, <3>2
      <4>2. PICK j \in 1 .. n : \E k \in 1 .. Len(ss[j]) : x - Len(top) = off[j - 1] + k
        BY <1>8, <4>1
      <4>3. PICK k \in 1 .. Len(ss[j]) : x - Len(top) = off[j - 1] + k
        BY <4>2
      <4>4. x = at[j] + k
        <5>1. k \in Nat /\ off[j - 1] \in Nat /\ Len(top) \in Nat /\ at[j] = Len(top) + off[j - 1]
          BY <1>6, <1>9, <2>2
        <5> QED BY <4>3, <5>1
      <4> QED BY <1>3, <1>9, <4>3, <4>4
    <3> QED BY <3>1, <3>2
  <2>5. \A j \in 1 .. n : at[0] + Len(top) <= at[j]
    BY <1>6, <1>9, <2>2
  <2>6. LaidOut(b, o, p, at)
    BY <1>11, <2>2, <2>3, <2>4, <2>5 DEF LaidOut, n, l, top
  <2> QED BY <2>6
<1> QED BY <1>10, <1>11

\* A case of the file is one of the bundle's, and if none is there twice, of one place.
Unique(b, o) == b \in Bundles /\ o \in Orders(Len(b.specs)) /\ EachOnce(b)

LEMMA OneOf ==
    ASSUME NEW b, EachOnce(b), NEW i \in 0 .. Len(b.specs), NEW j \in 0 .. Len(b.specs),
           NEW p \in Range(Phases), NEW q \in Range(Phases), NEW k \in DOMAIN Part(b, i, p),
           NEW m \in DOMAIN Part(b, j, q), Part(b, i, p)[k] = Part(b, j, q)[m]
    PROVE  i = j /\ p = q /\ k = m
<1>1. \A pp, qq \in Range(Phases) : \A kk \in DOMAIN Part(b, i, pp) : \A ll \in DOMAIN Part(b, j, qq) :
        Part(b, i, pp)[kk] = Part(b, j, qq)[ll] => i = j /\ pp = qq /\ kk = ll
  BY DEF EachOnce
<1>2. \A kk \in DOMAIN Part(b, i, p) : \A ll \in DOMAIN Part(b, j, q) :
        Part(b, i, p)[kk] = Part(b, j, q)[ll] => i = j /\ p = q /\ kk = ll
  BY <1>1
<1> QED BY <1>2

LEMMA ListIs ==
    ASSUME NEW b, NEW o, Unique(b, o), NEW p \in Range(Phases)
    PROVE  /\ Len(b.specs) \in Nat /\ Merge(b, o).list[p] \in Seq(Cases)
           /\ Len(Merge(b, o).list[p]) \in Nat
           /\ DOMAIN Merge(b, o).list[p] = 1 .. Len(Merge(b, o).list[p])
           /\ \E at : LaidOut(b, o, p, at)
           /\ \A j \in 0 .. Len(b.specs) : Src(o, j) \in 0 .. Len(b.specs)
           /\ \A i, j \in 0 .. Len(b.specs) : Src(o, i) = Src(o, j) => i = j
           /\ \A j \in 0 .. Len(b.specs) : Src(o, j) = 0 <=> j = 0
<1>1. b \in Bundles /\ o \in Orders(Len(b.specs)) /\ Len(b.specs) \in Nat
  BY BundleIs DEF Unique
<1>2. Merge(b, o).list \in [Range(Phases) -> Seq(Cases)] /\ \E at : LaidOut(b, o, p, at)
  BY <1>1, MergeIs, BundleIsLaidOut
<1>3. Merge(b, o).list[p] \in Seq(Cases)
  BY <1>2
<1>4. /\ \A i \in 1 .. Len(b.specs) : o[i] \in 1 .. Len(b.specs)
      /\ \A i, j \in 1 .. Len(b.specs) : o[i] = o[j] => i = j
  BY <1>1, OrderIs
<1> QED BY <1>1, <1>2, <1>3, <1>4 DEF Src

LEMMA ListFrom ==
    ASSUME NEW b, NEW o, Unique(b, o), NEW p \in Range(Phases),
           NEW x \in DOMAIN Merge(b, o).list[p]
    PROVE  \E i \in 0 .. Len(b.specs) : \E k \in DOMAIN Part(b, i, p) :
              Merge(b, o).list[p][x] = Part(b, i, p)[k]
<1> DEFINE l == Merge(b, o).list[p]
<1>1. PICK at : LaidOut(b, o, p, at)
  BY ListIs
<1>2. x \in 1 .. Len(l)
  BY ListIs
<1>3. PICK j \in 0 .. Len(b.specs) : \E k \in 1 .. Len(Part(b, Src(o, j), p)) : x = at[j] + k
  BY <1>1, <1>2 DEF LaidOut
<1>4. PICK k \in 1 .. Len(Part(b, Src(o, j), p)) : x = at[j] + k
  BY <1>3
<1>5. l[x] = Part(b, Src(o, j), p)[k]
  BY <1>1, <1>4 DEF LaidOut
<1>6. Src(o, j) \in 0 .. Len(b.specs) /\ b \in Bundles
  BY ListIs DEF Unique
<1>7. k \in DOMAIN Part(b, Src(o, j), p)
  BY <1>6, PartIs
<1> QED BY <1>5, <1>6, <1>7

\* Where a case of the file is, by where it is from.
LEMMA ListAt ==
    ASSUME NEW b, NEW o, Unique(b, o), NEW p \in Range(Phases), NEW at, LaidOut(b, o, p, at),
           NEW x \in DOMAIN Merge(b, o).list[p], NEW i \in 0 .. Len(b.specs),
           NEW k \in DOMAIN Part(b, i, p), Merge(b, o).list[p][x] = Part(b, i, p)[k]
    PROVE  \E j \in 0 .. Len(b.specs) : Src(o, j) = i /\ x = at[j] + k
<1> DEFINE l == Merge(b, o).list[p]
<1>1. x \in 1 .. Len(l)
  BY ListIs
<1>2. PICK j \in 0 .. Len(b.specs) : \E m \in 1 .. Len(Part(b, Src(o, j), p)) : x = at[j] + m
  BY <1>1 DEF LaidOut
<1>3. PICK m \in 1 .. Len(Part(b, Src(o, j), p)) : x = at[j] + m
  BY <1>2
<1>4. l[x] = Part(b, Src(o, j), p)[m]
  BY <1>3 DEF LaidOut
<1>5. Src(o, j) \in 0 .. Len(b.specs) /\ b \in Bundles
  BY ListIs DEF Unique
<1>6. m \in DOMAIN Part(b, Src(o, j), p)
  BY <1>5, PartIs
<1>7. EachOnce(b)
  BY DEF Unique
<1>8. Src(o, j) = i /\ m = k
  <2>1. Part(b, Src(o, j), p)[m] = Part(b, i, p)[k]
    BY <1>4
  <2> QED BY <1>5, <1>6, <1>7, <2>1, OneOf
<1> QED BY <1>3, <1>8

LEMMA ListOnce ==
    ASSUME NEW b, NEW o, Unique(b, o), NEW p \in Range(Phases), NEW q \in Range(Phases),
           NEW x \in DOMAIN Merge(b, o).list[p], NEW y \in DOMAIN Merge(b, o).list[q],
           Merge(b, o).list[p][x] = Merge(b, o).list[q][y]
    PROVE  p = q /\ x = y
<1>1. PICK i \in 0 .. Len(b.specs) : \E k \in DOMAIN Part(b, i, p) :
              Merge(b, o).list[p][x] = Part(b, i, p)[k]
  BY ListFrom
<1>2. PICK k \in DOMAIN Part(b, i, p) : Merge(b, o).list[p][x] = Part(b, i, p)[k]
  BY <1>1
<1>3. PICK j \in 0 .. Len(b.specs) : \E m \in DOMAIN Part(b, j, q) :
              Merge(b, o).list[q][y] = Part(b, j, q)[m]
  BY ListFrom
<1>4. PICK m \in DOMAIN Part(b, j, q) : Merge(b, o).list[q][y] = Part(b, j, q)[m]
  BY <1>3
<1>5. EachOnce(b)
  BY DEF Unique
<1>6. i = j /\ p = q /\ k = m
  <2>1. Part(b, i, p)[k] = Part(b, j, q)[m]
    BY <1>2, <1>4
  <2> QED BY <1>5, <2>1, OneOf
<1>7. PICK at : LaidOut(b, o, p, at)
  BY ListIs
<1>8. PICK u \in 0 .. Len(b.specs) : Src(o, u) = i /\ x = at[u] + k
  BY <1>2, <1>7, ListAt
<1>9. PICK v \in 0 .. Len(b.specs) : Src(o, v) = i /\ y = at[v] + k
  <2>1. y \in DOMAIN Merge(b, o).list[p] /\ Merge(b, o).list[p][y] = Part(b, i, p)[k]
    BY <1>4, <1>6
  <2> QED BY <1>2, <1>7, <2>1, ListAt
<1>10. u = v
  BY <1>8, <1>9, ListIs
<1> QED BY <1>6, <1>8, <1>9, <1>10

\* The order within a specification is kept.
LEMMA ListOrder ==
    ASSUME NEW b, NEW o, Unique(b, o), NEW p \in Range(Phases),
           NEW x \in DOMAIN Merge(b, o).list[p], NEW i \in 0 .. Len(b.specs),
           NEW k \in DOMAIN Part(b, i, p), Merge(b, o).list[p][x] = Part(b, i, p)[k],
           NEW m \in 1 .. k - 1
    PROVE  \E y \in DOMAIN Merge(b, o).list[p] : y < x /\ Merge(b, o).list[p][y] = Part(b, i, p)[m]
<1> DEFINE l == Merge(b, o).list[p]
<1>1. PICK at : LaidOut(b, o, p, at)
  BY ListIs
<1>2. PICK j \in 0 .. Len(b.specs) : Src(o, j) = i /\ x = at[j] + k
  BY <1>1, ListAt
<1>3. b \in Bundles
  BY DEF Unique
<1>4. k \in 1 .. Len(Part(b, i, p)) /\ Len(Part(b, i, p)) \in Nat
  BY <1>3, PartIs
<1>5. m \in 1 .. Len(Part(b, i, p)) /\ m < k
  BY <1>4
<1>6. at[j] \in Nat /\ at[j] + Len(Part(b, i, p)) <= Len(l) /\ l[at[j] + m] = Part(b, i, p)[m]
  BY <1>1, <1>2, <1>5 DEF LaidOut
<1>7. Len(l) \in Nat /\ DOMAIN l = 1 .. Len(l)
  BY ListIs
<1> HIDE DEF l
<1>8. at[j] + m \in DOMAIN l /\ at[j] + m < x
  BY <1>2, <1>4, <1>5, <1>6, <1>7
<1> QED BY <1>6, <1>8 DEF l

\* The top's cases are in front of those of the specifications, the final ones behind.
LEMMA TopAround ==
    ASSUME NEW b, NEW o, Unique(b, o), NEW p \in Range(Phases),
           NEW x \in DOMAIN Merge(b, o).list[p], NEW y \in DOMAIN Merge(b, o).list[p], x <= y,
           NEW i \in 0 .. Len(b.specs), NEW j \in 0 .. Len(b.specs),
           NEW k \in DOMAIN Part(b, i, p), Merge(b, o).list[p][x] = Part(b, i, p)[k],
           NEW m \in DOMAIN Part(b, j, p), Merge(b, o).list[p][y] = Part(b, j, p)[m]
    PROVE  IF p = "final" THEN i = 0 => j = 0 ELSE j = 0 => i = 0
<1>1. PICK at : LaidOut(b, o, p, at)
  BY ListIs
<1>2. PICK u \in 0 .. Len(b.specs) : Src(o, u) = i /\ x = at[u] + k
  BY <1>1, ListAt
<1>3. PICK v \in 0 .. Len(b.specs) : Src(o, v) = j /\ y = at[v] + m
  BY <1>1, ListAt
<1>4. b \in Bundles /\ Len(b.specs) \in Nat /\ (u = 0 <=> i = 0) /\ (v = 0 <=> j = 0)
  BY <1>2, <1>3, ListIs DEF Unique
<1>5. /\ k \in 1 .. Len(Part(b, i, p)) /\ Len(Part(b, i, p)) \in Nat
      /\ m \in 1 .. Len(Part(b, j, p)) /\ Len(Part(b, j, p)) \in Nat
  BY <1>4, PartIs
<1>6. at[u] \in Nat /\ at[v] \in Nat
  BY <1>1 DEF LaidOut
<1>7. CASE p = "final"
  <2> SUFFICES ASSUME i = 0, j # 0 PROVE FALSE
    BY <1>7
  <2>1. v \in 1 .. Len(b.specs) /\ u = 0
    BY <1>4
  <2>2. at[v] + Len(Part(b, j, p)) <= at[u]
    BY <1>1, <1>3, <1>7, <2>1 DEF LaidOut
  <2> QED BY <1>2, <1>3, <1>5, <1>6, <2>2
<1>8. CASE p # "final"
  <2> SUFFICES ASSUME j = 0, i # 0 PROVE FALSE
    BY <1>8
  <2>1. u \in 1 .. Len(b.specs) /\ v = 0
    BY <1>4
  <2>2. at[v] + Len(Part(b, j, p)) <= at[u]
    BY <1>1, <1>3, <1>8, <2>1 DEF LaidOut, Part
  <2> QED BY <1>2, <1>3, <1>5, <1>6, <2>2
<1> QED BY <1>7, <1>8

PlaceIn(b, i, p) ==
    IF p = "initial" THEN (IF i = 0 THEN 1 ELSE 2)
    ELSE IF p = "main" THEN (IF i = 0 /\ b.mode # "random" THEN 3 ELSE 4)
    ELSE (IF i = 0 THEN 6 ELSE 5)

LEMMA PlaceOf ==
    ASSUME NEW b \in Bundles, EachOnce(b), NEW i \in 0 .. Len(b.specs), NEW p \in Range(Phases),
           NEW k \in DOMAIN Part(b, i, p)
    PROVE  Place(b, Part(b, i, p)[k]) = PlaceIn(b, i, p)
<1> DEFINE c == Part(b, i, p)[k]
           inTop(q) == c \in Range(b.top[q])
           inSpec(q) == \E j \in DOMAIN b.specs : c \in Range(b.specs[j][q])
<1>0. /\ Len(b.specs) \in Nat /\ DOMAIN b.specs = 1 .. Len(b.specs)
      /\ 0 \in 0 .. Len(b.specs) /\ \A j \in DOMAIN b.specs : j \in 0 .. Len(b.specs) /\ j # 0
      /\ \A j \in 0 .. Len(b.specs) : j # 0 => j \in DOMAIN b.specs
  BY BundleIs
<1>1. ASSUME NEW j \in 0 .. Len(b.specs), NEW q \in Range(Phases), c \in Range(Part(b, j, q))
      PROVE  j = i /\ q = p
  <2>1. PICK m \in DOMAIN Part(b, j, q) : Part(b, j, q)[m] = Part(b, i, p)[k]
    BY <1>1 DEF Range
  <2> QED BY <2>1, OneOf
<1>2. c \in Range(Part(b, i, p))
  BY DEF Range
<1>3. (\A q : Part(b, 0, q) = b.top[q]) /\ \A j \in DOMAIN b.specs : \A q : Part(b, j, q) = b.specs[j][q]
  BY <1>0 DEF Part
<1>4. \A q \in Range(Phases) : inTop(q) <=> i = 0 /\ q = p
  BY <1>0, <1>1, <1>2, <1>3
<1>5. \A q \in Range(Phases) : inSpec(q) <=> i # 0 /\ q = p
  BY <1>0, <1>1, <1>2, <1>3
<1>6. Place(b, c) = CASE inTop("initial")  -> 1
                      [] inSpec("initial") -> 2
                      [] inTop("main")     -> IF b.mode = "random" THEN 4 ELSE 3
                      [] inSpec("main")    -> 4
                      [] inSpec("final")   -> 5
                      [] inTop("final")    -> 6
  BY DEF Place
<1> HIDE DEF inTop, inSpec, c
<1>7. \A q \in {"initial", "main", "final"} : q \in Range(Phases)
  BY PhasesAre
<1>8. p = "initial" \/ p = "main" \/ p = "final"
  BY PhasesAre
<1>9. Place(b, c) = PlaceIn(b, i, p)
  BY <1>4, <1>5, <1>6, <1>7, <1>8 DEF PlaceIn
<1> QED BY <1>9 DEF c

\* The phases in their order.
Num(p) == IF p = "initial" THEN 1 ELSE IF p = "main" THEN 2 ELSE 3

LEMMA PlaceOrder ==
    ASSUME NEW b, NEW o, Unique(b, o), NEW p \in Range(Phases), NEW q \in Range(Phases),
           NEW x \in DOMAIN Merge(b, o).list[p], NEW y \in DOMAIN Merge(b, o).list[q],
           \/ Num(p) < Num(q)
           \/ p = q /\ (x <= y \/ (p = "main" /\ b.mode = "random"))
    PROVE  Place(b, Merge(b, o).list[p][x]) <= Place(b, Merge(b, o).list[q][y])
<1>1. PICK i \in 0 .. Len(b.specs) : \E k \in DOMAIN Part(b, i, p) :
              Merge(b, o).list[p][x] = Part(b, i, p)[k]
  BY ListFrom
<1>2. PICK k \in DOMAIN Part(b, i, p) : Merge(b, o).list[p][x] = Part(b, i, p)[k]
  BY <1>1
<1>3. PICK j \in 0 .. Len(b.specs) : \E m \in DOMAIN Part(b, j, q) :
              Merge(b, o).list[q][y] = Part(b, j, q)[m]
  BY ListFrom
<1>4. PICK m \in DOMAIN Part(b, j, q) : Merge(b, o).list[q][y] = Part(b, j, q)[m]
  BY <1>3
<1>5. /\ Place(b, Merge(b, o).list[p][x]) = PlaceIn(b, i, p)
      /\ Place(b, Merge(b, o).list[q][y]) = PlaceIn(b, j, q)
  <2>1. b \in Bundles /\ EachOnce(b)
    BY DEF Unique
  <2> QED BY <1>2, <1>4, <2>1, PlaceOf
<1>6. PlaceIn(b, i, p) <= PlaceIn(b, j, q)
  <2>1. CASE Num(p) < Num(q)
    BY <2>1, PhasesAre DEF Num, PlaceIn
  <2>2. CASE p = q /\ p = "main" /\ b.mode = "random"
    BY <2>2 DEF PlaceIn
  <2>3. CASE p = q /\ x <= y
    <3>1. y \in DOMAIN Merge(b, o).list[p] /\ m \in DOMAIN Part(b, j, p)
          /\ Merge(b, o).list[p][y] = Part(b, j, p)[m]
      BY <1>4, <2>3
    <3>2. IF p = "final" THEN i = 0 => j = 0 ELSE j = 0 => i = 0
      BY <1>2, <2>3, <3>1, TopAround
    <3> QED BY <2>3, <3>2, PhasesAre DEF PlaceIn
  <2> QED BY <2>1, <2>2, <2>3
<1> QED BY <1>5, <1>6

-----------------------------------------------------------------------------
\* The same of the bundle the engines run.

AllOnce == \A b \in Bundles : EachOnce(b)
TheBundle ==
    bundle.from \in Bundles /\ \E o \in Orders(Len(bundle.from.specs)) : bundle = Merge(bundle.from, o)

Ordered(p) == p # "main" \/ bundle.mode = "sequential"

LEMMA TheOrder ==
    ASSUME AllOnce, TheBundle
    PROVE  \E o : Unique(bundle.from, o) /\ bundle = Merge(bundle.from, o)
BY DEF AllOnce, TheBundle, Unique

LEMMA TheMode ==
    ASSUME TheBundle
    PROVE  bundle.mode = bundle.from.mode /\ (bundle.mode = "random" <=> bundle.mode # "sequential")
<1>1. PICK o \in Orders(Len(bundle.from.specs)) : bundle = Merge(bundle.from, o)
  BY DEF TheBundle
<1>2. bundle.mode = bundle.from.mode
  BY <1>1, MergeIs DEF TheBundle
<1>3. bundle.from.mode \in Modes
  BY BundleIs DEF TheBundle
<1> QED BY <1>2, <1>3 DEF Modes

LEMMA TheList ==
    ASSUME AllOnce, TheBundle, NEW p \in Range(Phases)
    PROVE  /\ bundle.list[p] \in Seq(Cases) /\ Len(bundle.list[p]) \in Nat
           /\ DOMAIN bundle.list[p] = 1 .. Len(bundle.list[p])
<1>1. PICK o : Unique(bundle.from, o) /\ bundle = Merge(bundle.from, o)
  BY TheOrder
<1>2. /\ Merge(bundle.from, o).list[p] \in Seq(Cases) /\ Len(Merge(bundle.from, o).list[p]) \in Nat
      /\ DOMAIN Merge(bundle.from, o).list[p] = 1 .. Len(Merge(bundle.from, o).list[p])
  BY <1>1, ListIs
<1> QED BY <1>1, <1>2

LEMMA ThereOnce ==
    ASSUME AllOnce, TheBundle, NEW p \in Range(Phases), NEW q \in Range(Phases),
           NEW x \in DOMAIN bundle.list[p], NEW y \in DOMAIN bundle.list[q],
           bundle.list[p][x] = bundle.list[q][y]
    PROVE  p = q /\ x = y
<1>1. PICK o : Unique(bundle.from, o) /\ bundle = Merge(bundle.from, o)
  BY TheOrder
<1>2. /\ x \in DOMAIN Merge(bundle.from, o).list[p] /\ y \in DOMAIN Merge(bundle.from, o).list[q]
      /\ Merge(bundle.from, o).list[p][x] = Merge(bundle.from, o).list[q][y]
  BY <1>1
<1> QED BY ONLY <1>1, <1>2, p \in Range(Phases), q \in Range(Phases), ListOnce

LEMMA InPlace ==
    ASSUME AllOnce, TheBundle, NEW p \in Range(Phases), NEW q \in Range(Phases),
           NEW x \in DOMAIN bundle.list[p], NEW y \in DOMAIN bundle.list[q],
           Num(p) < Num(q) \/ (p = q /\ (x <= y \/ ~Ordered(p)))
    PROVE  Place(bundle.from, bundle.list[p][x]) <= Place(bundle.from, bundle.list[q][y])
<1>1. PICK o : Unique(bundle.from, o) /\ bundle = Merge(bundle.from, o)
  BY TheOrder
<1>2. x \in DOMAIN Merge(bundle.from, o).list[p] /\ y \in DOMAIN Merge(bundle.from, o).list[q]
  BY <1>1
<1>3. \/ Num(p) < Num(q)
      \/ p = q /\ (x <= y \/ (p = "main" /\ bundle.from.mode = "random"))
  <2>1. ~Ordered(p) => p = "main" /\ bundle.from.mode = "random"
    BY TheMode DEF Ordered
  <2> QED BY <2>1
<1>4. Place(bundle.from, Merge(bundle.from, o).list[p][x])
        <= Place(bundle.from, Merge(bundle.from, o).list[q][y])
  BY ONLY <1>1, <1>2, <1>3, p \in Range(Phases), q \in Range(Phases), PlaceOrder
<1> QED BY <1>1, <1>4

LEMMA AtRandom ==
    ASSUME AllOnce, TheBundle, ~Ordered("main"), NEW x \in DOMAIN bundle.list["main"]
    PROVE  Place(bundle.from, bundle.list["main"][x]) = 4 /\ bundle.from.mode = "random"
<1>1. PICK o : Unique(bundle.from, o) /\ bundle = Merge(bundle.from, o)
  BY TheOrder
<1>2. x \in DOMAIN Merge(bundle.from, o).list["main"] /\ "main" \in Range(Phases)
  BY <1>1, PhasesAre
<1>3. PICK i \in 0 .. Len(bundle.from.specs) : \E k \in DOMAIN Part(bundle.from, i, "main") :
              Merge(bundle.from, o).list["main"][x] = Part(bundle.from, i, "main")[k]
  BY <1>1, <1>2, ListFrom
<1>4. PICK k \in DOMAIN Part(bundle.from, i, "main") :
              Merge(bundle.from, o).list["main"][x] = Part(bundle.from, i, "main")[k]
  BY <1>3
<1>5. bundle.from.mode = "random"
  BY TheMode DEF Ordered
<1>6. Place(bundle.from, Part(bundle.from, i, "main")[k]) = PlaceIn(bundle.from, i, "main")
  BY <1>1, <1>2, PlaceOf DEF Unique
<1> QED BY <1>1, <1>4, <1>5, <1>6 DEF PlaceIn

LEMMA InFront ==
    ASSUME AllOnce, TheBundle, NEW p \in Range(Phases), NEW x \in DOMAIN bundle.list[p],
           NEW s \in ListsOf(bundle.from), NEW k \in DOMAIN s, s[k] = bundle.list[p][x],
           NEW m \in 1 .. k - 1
    PROVE  Ordered(p) /\ \E y \in DOMAIN bundle.list[p] : y < x /\ bundle.list[p][y] = s[m]
<1> DEFINE b == bundle.from
<1>1. PICK o : Unique(b, o) /\ bundle = Merge(b, o)
  BY TheOrder
<1>2. PICK i \in DOMAIN b.specs, q \in Range(Phases) : s = b.specs[i][q] /\ Ordered(q)
  BY TheMode, PhasesAre DEF ListsOf, Ordered
<1>3. i \in 0 .. Len(b.specs) /\ i # 0 /\ b \in Bundles /\ EachOnce(b) /\ s = Part(b, i, q)
  <2>1. b \in Bundles /\ EachOnce(b)
    BY <1>1 DEF Unique
  <2>2. DOMAIN b.specs = 1 .. Len(b.specs) /\ Len(b.specs) \in Nat
    BY <2>1, BundleIs
  <2> QED BY <1>2, <2>1, <2>2 DEF Part
<1>4. PICK j \in 0 .. Len(b.specs) : \E n \in DOMAIN Part(b, j, p) :
              Merge(b, o).list[p][x] = Part(b, j, p)[n]
  <2>1. x \in DOMAIN Merge(b, o).list[p]
    BY <1>1
  <2> QED BY <1>1, <2>1, ListFrom
<1>5. PICK n \in DOMAIN Part(b, j, p) : Merge(b, o).list[p][x] = Part(b, j, p)[n]
  BY <1>4
<1>6. k \in DOMAIN Part(b, i, q) /\ Part(b, i, q)[k] = Part(b, j, p)[n]
  BY <1>1, <1>3, <1>5
<1>7. i = j /\ q = p /\ k = n
  BY <1>3, <1>6, OneOf
<1>8. \E y \in DOMAIN Merge(b, o).list[p] : y < x /\ Merge(b, o).list[p][y] = Part(b, i, p)[m]
  <2>1. x \in DOMAIN Merge(b, o).list[p]
    BY <1>1
  <2>2. k \in DOMAIN Part(b, i, p) /\ Merge(b, o).list[p][x] = Part(b, i, p)[k]
    BY <1>5, <1>7
  <2> HIDE DEF b
  <2> QED BY <1>1, <1>3, <2>1, <2>2, ListOrder
<1> QED BY <1>1, <1>2, <1>3, <1>7, <1>8

-----------------------------------------------------------------------------
\* The order in which an engine begins the cases of the bundle.

\* What an engine in a phase, or at a place of a list run in order, has behind it.
UpToIdx(e) == IF eng[e].pc = "begin" THEN eng[e].idx - 1 ELSE eng[e].idx
Past(e, p, x) ==
    \/ Num(p) < Num(eng[e].phase)
    \/ p = eng[e].phase /\ (Ordered(p) => x < UpToIdx(e))

BegunCases(e) == {log[n].case : n \in Begun(e)}
Before(e, n) == {log[i].case : i \in {k \in Begun(e) : k < n}}

Quit == {"crashed", "killed"}
AtLast == {"finish", "completed"}

\* What it has begun is behind it, and nothing that is behind it was left out.
ArePast(e) ==
    \A n \in Begun(e) : \E p \in Range(Phases) : \E x \in DOMAIN bundle.list[p] :
        bundle.list[p][x] = log[n].case /\ Past(e, p, x)
AllBegun(e) ==
    eng[e].pc \notin Quit =>
        \A p \in Range(Phases) : \A x \in DOMAIN bundle.list[p] :
            Ordered(p) /\ Past(e, p, x) => bundle.list[p][x] \in Disabled \cup BegunCases(e)
AtTheEnd(e) == eng[e].pc \in AtLast => eng[e].phase = "final" /\ eng[e].idx > Len(Cur(e))

\* The case chosen is the one in its place, or one of a list run at random.
Chosen(e) ==
    eng[e].pc = "begin" =>
        \E x \in DOMAIN bundle.list[eng[e].phase] :
            /\ eng[e].case = bundle.list[eng[e].phase][x]
            /\ Ordered(eng[e].phase) => x = eng[e].idx - 1

\* The first half of RunFollowsBundle, for one line.
Fine(e, n) ==
    LET b == bundle.from
        c == log[n].case
    IN /\ c \notin Disabled
       /\ \A d \in Before(e, n) : Place(b, d) <= Place(b, c)
       /\ c \in Before(e, n) => Place(b, c) = 4 /\ b.mode = "random"
       /\ \A s \in ListsOf(b) : \A k \in DOMAIN s : s[k] = c =>
            \A l \in 1 .. k - 1 : s[l] \in Disabled \cup Before(e, n)

Follows(e) ==
    /\ ArePast(e) /\ AllBegun(e) /\ AtTheEnd(e) /\ Chosen(e)
    /\ \A n \in Begun(e) : Fine(e, n)
FInv == TheBundle /\ \A e \in Engines : Follows(e)

LEMMA PhaseOf ==
    ASSUME EInv, NEW e \in Engines
    PROVE  /\ eng[e].phase \in Range(Phases) /\ eng[e].idx \in Nat /\ eng[e].idx >= 1
           /\ InOrder(e) <=> Ordered(eng[e].phase)
           /\ Cur(e) = bundle.list[eng[e].phase]
           /\ UpToIdx(e) \in Nat
<1>1. eng[e] \in EngineRecs
  BY NextOf
<1>2. eng[e].phase \in {"initial", "main", "final"} /\ eng[e].idx \in Nat \ {0}
  BY <1>1 DEF EngineRecs
<1>3. eng[e].idx \in Nat /\ eng[e].idx >= 1 /\ eng[e].idx - 1 \in Nat
  BY <1>2
<1> QED BY <1>2, <1>3, PhasesAre DEF InOrder, Ordered, Cur, UpToIdx

LEMMA BundleLists ==
    ASSUME EInv, NEW p \in Range(Phases)
    PROVE  /\ bundle.list[p] \in Seq(Cases) /\ Len(bundle.list[p]) \in Nat
           /\ DOMAIN bundle.list[p] = 1 .. Len(bundle.list[p])
<1>1. bundle.list[p] \in Seq(Cases)
  BY DEF EInv, TypeOK
<1> QED BY <1>1

LEMMA BeforeIs ==
    ASSUME NEW e, NEW n, \A k \in Begun(e) : k < n
    PROVE  Before(e, n) = BegunCases(e)
BY DEF Before, BegunCases

LEMMA LinesOf == EInv => \A e : Begun(e) \subseteq 1 .. Len(log) /\ Len(log) \in Nat
<1> SUFFICES ASSUME EInv PROVE DOMAIN log = 1 .. Len(log) /\ Len(log) \in Nat
  BY DEF Begun
<1> QED BY EInvIs

\* The lines of an engine are not changed.
SameLines(e) == Begun(e)' = Begun(e) /\ \A n \in Begun(e) : log'[n] = log[n]

LEMMA SameBefore ==
    ASSUME NEW e, SameLines(e)
    PROVE  /\ BegunCases(e)' = BegunCases(e)
           /\ \A n : Before(e, n)' = Before(e, n)
BY DEF SameLines, BegunCases, Before

LEMMA StillFine ==
    ASSUME NEW e, NEW n, Fine(e, n), UNCHANGED bundle, log'[n] = log[n],
           Before(e, n)' = Before(e, n)
    PROVE  Fine(e, n)'
BY DEF Fine

\* A step of an engine, or of another, that neither begins nor chooses a case.
LEMMA FollowsStays ==
    ASSUME EInv, NEW e \in Engines, Follows(e), UNCHANGED bundle, SameLines(e),
           eng'[e].phase = eng[e].phase, eng'[e].idx = eng[e].idx,
           \/ eng'[e].pc \in Quit
           \/ eng'[e].pc = eng[e].pc /\ eng'[e].case = eng[e].case
           \/ /\ eng[e].pc \notin Quit \cup {"begin"} /\ eng'[e].pc # "begin"
              /\ eng'[e].pc \in AtLast => eng[e].pc \in AtLast
    PROVE  Follows(e)'
<1>1. /\ ArePast(e) /\ AllBegun(e) /\ AtTheEnd(e) /\ Chosen(e)
      /\ \A n \in Begun(e) : Fine(e, n)
  BY DEF Follows
<1>2. BegunCases(e)' = BegunCases(e) /\ \A n : Before(e, n)' = Before(e, n)
  BY SameBefore
<1>3. \A n \in Begun(e)' : Fine(e, n)'
  BY <1>1, <1>2, StillFine DEF SameLines
<1>4. /\ UpToIdx(e)' \in Nat /\ UpToIdx(e) \in Nat /\ UpToIdx(e) <= UpToIdx(e)'
      /\ eng'[e].pc \notin Quit => UpToIdx(e)' = UpToIdx(e)
  BY PhaseOf DEF UpToIdx, Quit
<1>5. \A p : Ordered(p)' <=> Ordered(p)
  BY DEF Ordered
<1>6. \A p \in Range(Phases) : \A x \in DOMAIN bundle.list[p] : x \in Nat
  BY BundleLists
<1>7. ArePast(e)'
  <2>1. \A p \in Range(Phases) : \A x \in DOMAIN bundle.list[p] : Past(e, p, x) => Past(e, p, x)'
    BY <1>4, <1>5, <1>6 DEF Past
  <2> QED BY <1>1, <2>1 DEF ArePast, SameLines
<1>8. AllBegun(e)'
  <2> SUFFICES ASSUME eng'[e].pc \notin Quit PROVE AllBegun(e)'
    BY DEF AllBegun
  <2>1. eng[e].pc \notin Quit
    OBVIOUS
  <2>2. \A p, x : Past(e, p, x)' <=> Past(e, p, x)
    BY <1>4, <1>5 DEF Past
  <2> QED BY <1>1, <1>2, <1>5, <2>1, <2>2 DEF AllBegun
<1>9. AtTheEnd(e)'
  <2>1. Cur(e)' = Cur(e)
    BY DEF Cur
  <2>2. eng'[e].pc \in AtLast => eng[e].pc \in AtLast
    BY DEF AtLast, Quit
  <2> QED BY <1>1, <2>1, <2>2 DEF AtTheEnd
<1>10. Chosen(e)'
  <2>1. eng'[e].pc = "begin" => eng[e].pc = "begin" /\ eng'[e].case = eng[e].case
    BY DEF Quit
  <2> QED BY <1>1, <1>5, <2>1 DEF Chosen
<1> QED BY <1>3, <1>7, <1>8, <1>9, <1>10 DEF Follows

\* The case in the next place is behind the engine, or chosen.
LEMMA FollowsNextInOrder ==
    ASSUME EInv, NEW e \in Engines, Follows(e), NextInOrder(e)
    PROVE  Follows(e)'
<1>0. PICK i, p : i = eng[e].idx /\ p = eng[e].phase
  OBVIOUS
<1>1. /\ eng[e].pc = "next" /\ Ordered(p) /\ i <= Len(bundle.list[p]) /\ UNCHANGED <<bundle, log>>
      /\ p \in Range(Phases) /\ i \in Nat /\ i >= 1 /\ Cur(e) = bundle.list[p]
  BY <1>0, PhaseOf DEF NextInOrder
<1>2. PICK c : c = bundle.list[p][i]
  OBVIOUS
<1>3. eng' = [eng EXCEPT ![e].idx = @ + 1, ![e].case = c,
                         ![e].pc = IF c \in Disabled THEN "next" ELSE "begin"]
  BY <1>0, <1>1, <1>2 DEF NextInOrder
<1>4. /\ eng'[e].phase = p /\ eng'[e].idx = i + 1 /\ eng'[e].case = c
      /\ eng'[e].pc = IF c \in Disabled THEN "next" ELSE "begin"
  BY <1>0, <1>3, EInvIs DEF EngineRecs
<1>5. /\ ArePast(e) /\ AllBegun(e) /\ \A n \in Begun(e) : Fine(e, n)
  BY DEF Follows
<1>6. SameLines(e)
  BY <1>1, SameLog DEF SameLines
<1>7. BegunCases(e)' = BegunCases(e) /\ \A n : Before(e, n)' = Before(e, n)
  BY <1>6, SameBefore
<1>8. \A n \in Begun(e)' : Fine(e, n)'
  BY <1>1, <1>5, <1>6, <1>7, StillFine DEF SameLines
<1>9. /\ UpToIdx(e) = i /\ UpToIdx(e)' = IF c \in Disabled THEN i + 1 ELSE i
      /\ \A q : Ordered(q)' <=> Ordered(q)
  BY <1>0, <1>1, <1>4 DEF UpToIdx, Ordered
<1>10. \A q \in Range(Phases) : \A x \in DOMAIN bundle.list[q] : x \in Nat
  BY BundleLists
<1>11. ArePast(e)'
  <2>1. \A q \in Range(Phases) : \A x \in DOMAIN bundle.list[q] : Past(e, q, x) => Past(e, q, x)'
    BY <1>0, <1>1, <1>4, <1>9, <1>10 DEF Past
  <2> QED BY <1>1, <1>5, <1>6, <2>1 DEF ArePast, SameLines
<1>12. AllBegun(e)'
  <2> SUFFICES ASSUME NEW q \in Range(Phases), NEW x \in DOMAIN bundle.list[q], Ordered(q),
                      Past(e, q, x)'
               PROVE  bundle.list[q][x] \in Disabled \cup BegunCases(e)
    BY <1>1, <1>7, <1>9 DEF AllBegun
  <2>1. CASE Past(e, q, x)
    BY <1>1, <1>5, <2>1 DEF AllBegun, Quit
  <2>2. CASE ~Past(e, q, x)
    <3>1. q = p /\ x = i /\ c \in Disabled
      BY <1>0, <1>1, <1>4, <1>9, <1>10, <2>2 DEF Past
    <3> QED BY <1>2, <3>1
  <2> QED BY <2>1, <2>2
<1>13. AtTheEnd(e)'
  BY <1>4 DEF AtTheEnd, AtLast
<1>14. Chosen(e)'
  <2>1. i \in DOMAIN bundle.list[p] /\ i + 1 - 1 = i
    BY <1>1, BundleLists
  <2> QED BY <1>1, <1>2, <1>4, <2>1 DEF Chosen
<1> QED BY <1>8, <1>11, <1>12, <1>13, <1>14 DEF Follows

LEMMA FollowsNextAtRandom ==
    ASSUME EInv, NEW e \in Engines, Follows(e), NextAtRandom(e)
    PROVE  Follows(e)'
<1>0. PICK p : p = eng[e].phase
  OBVIOUS
<1>1. /\ eng[e].pc = "next" /\ ~Ordered(p) /\ UNCHANGED <<bundle, log>>
      /\ p \in Range(Phases) /\ Cur(e) = bundle.list[p]
  BY <1>0, PhaseOf DEF NextAtRandom
<1>2. SameLines(e)
  BY <1>1, SameLog DEF SameLines
<1>3. CASE To(e, "crashed")
  <2>1. /\ eng'[e].pc = "crashed" /\ eng'[e].phase = eng[e].phase /\ eng'[e].idx = eng[e].idx
    BY <1>3, EInvIs DEF To, EngineRecs
  <2> QED BY <1>1, <1>2, <2>1, FollowsStays DEF Quit
<1>4. CASE ~To(e, "crashed")
  <2>1. PICK c \in EnabledCases(e) : eng' = [eng EXCEPT ![e].case = c, ![e].pc = "begin"]
    BY <1>4 DEF NextAtRandom
  <2>2. eng'[e].pc = "begin" /\ eng'[e].case = c /\ eng'[e].phase = p /\ eng'[e].idx = eng[e].idx
    BY <1>0, <2>1, EInvIs DEF EngineRecs
  <2>3. /\ ArePast(e) /\ AllBegun(e) /\ \A n \in Begun(e) : Fine(e, n)
    BY DEF Follows
  <2>4. BegunCases(e)' = BegunCases(e) /\ \A n : Before(e, n)' = Before(e, n)
    BY <1>2, SameBefore
  <2>5. \A n \in Begun(e)' : Fine(e, n)'
    BY <1>1, <1>2, <2>3, <2>4, StillFine DEF SameLines
  <2>6. \A q : Ordered(q)' <=> Ordered(q)
    BY <1>1 DEF Ordered
  <2>7. \A q, x : Past(e, q, x)' <=> Past(e, q, x)
    BY <1>0, <1>1, <2>2, <2>6 DEF Past
  <2>8. ArePast(e)'
    BY <1>1, <1>2, <2>3, <2>7 DEF ArePast, SameLines
  <2>9. AllBegun(e)'
    BY <1>1, <2>3, <2>4, <2>6, <2>7 DEF AllBegun, Quit
  <2>10. AtTheEnd(e)'
    BY <2>2 DEF AtTheEnd, AtLast
  <2>11. Chosen(e)'
    <3>1. PICK x \in DOMAIN bundle.list[p] : c = bundle.list[p][x]
      BY <1>1 DEF EnabledCases, Range
    <3> QED BY <1>1, <2>2, <2>6, <3>1 DEF Chosen
  <2> QED BY <2>5, <2>8, <2>9, <2>10, <2>11 DEF Follows
<1> QED BY <1>3, <1>4

\* All of a phase run in order is behind the engine.
LEMMA FollowsPhaseOver ==
    ASSUME EInv, NEW e \in Engines, Follows(e), PhaseOver(e)
    PROVE  Follows(e)'
<1>0. PICK i, p : i = eng[e].idx /\ p = eng[e].phase
  OBVIOUS
<1>1. /\ eng[e].pc = "next" /\ (Ordered(p) => i > Len(bundle.list[p])) /\ UNCHANGED <<bundle, log>>
      /\ p \in Range(Phases) /\ i \in Nat /\ Cur(e) = bundle.list[p]
  BY <1>0, PhaseOf DEF PhaseOver
<1>2. SameLines(e)
  BY <1>1, SameLog DEF SameLines
<1>3. /\ ArePast(e) /\ AllBegun(e) /\ \A n \in Begun(e) : Fine(e, n)
  BY DEF Follows
<1>4. BegunCases(e)' = BegunCases(e) /\ \A n : Before(e, n)' = Before(e, n)
  BY <1>2, SameBefore
<1>5. \A n \in Begun(e)' : Fine(e, n)'
  BY <1>1, <1>2, <1>3, <1>4, StillFine DEF SameLines
<1>6. \A q : Ordered(q)' <=> Ordered(q)
  BY <1>1 DEF Ordered
<1>7. CASE p = "final"
  <2>1. To(e, "finish")
    BY <1>0, <1>7 DEF PhaseOver
  <2>2. eng'[e].pc = "finish" /\ eng'[e].phase = p /\ eng'[e].idx = i
    BY <1>0, <2>1, EInvIs DEF To, EngineRecs
  <2>3. \A q, x : Past(e, q, x)' <=> Past(e, q, x)
    BY <1>0, <1>1, <1>6, <2>2 DEF Past, UpToIdx
  <2>4. ArePast(e)'
    BY <1>1, <1>2, <1>3, <2>3 DEF ArePast, SameLines
  <2>5. AllBegun(e)'
    BY <1>1, <1>3, <1>4, <1>6, <2>3 DEF AllBegun, Quit
  <2>6. AtTheEnd(e)'
    BY <1>1, <1>7, <2>2 DEF AtTheEnd, Cur, Ordered
  <2>7. Chosen(e)'
    BY <2>2 DEF Chosen
  <2> QED BY <1>5, <2>4, <2>5, <2>6, <2>7 DEF Follows
<1>8. CASE p # "final"
  <2>0. PICK q : q = NextPhase(e)
    OBVIOUS
  <2>1. eng' = [eng EXCEPT ![e].phase = q, ![e].idx = 1]
    BY <1>0, <1>8, <2>0 DEF PhaseOver
  <2>2. eng'[e].pc = "next" /\ eng'[e].phase = q /\ eng'[e].idx = 1
    BY <1>1, <2>1, EInvIs DEF EngineRecs
  <2>3. /\ q \in Range(Phases) /\ Num(p) < Num(q) /\ p # q
        /\ \A r \in Range(Phases) : Num(r) < Num(q) <=> Num(r) < Num(p) \/ r = p
    BY <1>0, <1>1, <1>8, <2>0, PhasesAre DEF NextPhase, Num
  <2>4. ArePast(e)'
    <3>1. \A r \in Range(Phases) : \A x : Past(e, r, x) => Past(e, r, x)'
      BY <1>0, <2>2, <2>3 DEF Past
    <3> QED BY <1>1, <1>2, <1>3, <3>1 DEF ArePast, SameLines
  <2>5. AllBegun(e)'
    <3>1. ASSUME NEW r \in Range(Phases), NEW x \in DOMAIN bundle.list[r], Ordered(r), Past(e, r, x)'
          PROVE  Past(e, r, x)
      <4>1. x \in 1 .. Len(bundle.list[r]) /\ Len(bundle.list[r]) \in Nat
        BY BundleLists
      <4>2. UpToIdx(e)' = 1 /\ UpToIdx(e) = i
        BY <1>0, <1>1, <2>2 DEF UpToIdx
      <4>3. Num(r) < Num(q)
        BY <1>6, <2>2, <3>1, <4>1, <4>2 DEF Past
      <4>4. Num(r) < Num(p) \/ r = p
        BY <2>3, <4>3
      <4> QED BY <1>0, <1>1, <3>1, <4>1, <4>2, <4>4 DEF Past
    <3> QED BY <1>1, <1>3, <1>4, <1>6, <3>1 DEF AllBegun, Quit
  <2>6. AtTheEnd(e)' /\ Chosen(e)'
    BY <2>2 DEF AtTheEnd, Chosen, AtLast
  <2> QED BY <1>5, <2>4, <2>5, <2>6 DEF Follows
<1> QED BY <1>7, <1>8

\* The case begun: what was begun before it is in front of it, and only a case of a
\* list run at random was begun before.
LEMMA FineToBegin ==
    ASSUME AllOnce, TheBundle, EInv, NEW e \in Engines, Follows(e), eng[e].pc = "begin",
           NEW x \in DOMAIN bundle.list[eng[e].phase],
           eng[e].case = bundle.list[eng[e].phase][x],
           Ordered(eng[e].phase) => x = eng[e].idx - 1
    PROVE  LET b == bundle.from
               c == eng[e].case
           IN /\ c \notin Disabled
              /\ \A d \in BegunCases(e) : Place(b, d) <= Place(b, c)
              /\ c \in BegunCases(e) => Place(b, c) = 4 /\ b.mode = "random"
              /\ \A s \in ListsOf(b) : \A k \in DOMAIN s : s[k] = c =>
                   \A l \in 1 .. k - 1 : s[l] \in Disabled \cup BegunCases(e)
<1>0. PICK p, c, b : p = eng[e].phase /\ c = eng[e].case /\ b = bundle.from
  OBVIOUS
<1>1. p \in Range(Phases) /\ x \in DOMAIN bundle.list[p] /\ c = bundle.list[p][x]
  BY <1>0, PhaseOf
<1>2. x \in Nat /\ (Ordered(p) => UpToIdx(e) = x)
  BY <1>0, <1>1, BundleLists DEF UpToIdx
<1>3. c \notin Disabled
  BY <1>0, NextOf DEF InHand
<1>4. ASSUME NEW d \in BegunCases(e)
      PROVE  \E q \in Range(Phases) : \E y \in DOMAIN bundle.list[q] :
                /\ d = bundle.list[q][y]
                /\ Num(q) < Num(p) \/ (q = p /\ (Ordered(p) => y < x))
  <2>1. PICK n \in Begun(e) : d = log[n].case
    BY <1>4 DEF BegunCases
  <2>2. PICK q \in Range(Phases) : \E y \in DOMAIN bundle.list[q] :
                bundle.list[q][y] = log[n].case /\ Past(e, q, y)
    BY <2>1 DEF Follows, ArePast
  <2>3. PICK y \in DOMAIN bundle.list[q] : bundle.list[q][y] = log[n].case /\ Past(e, q, y)
    BY <2>2
  <2>4. Num(q) < Num(p) \/ (q = p /\ (Ordered(p) => y < x))
    BY <1>0, <1>2, <2>3 DEF Past
  <2> QED BY <2>1, <2>3, <2>4
<1>5. ASSUME NEW d \in BegunCases(e) PROVE Place(b, d) <= Place(b, c)
  <2>1. PICK q \in Range(Phases) : \E y \in DOMAIN bundle.list[q] :
                /\ d = bundle.list[q][y]
                /\ Num(q) < Num(p) \/ (q = p /\ (Ordered(p) => y < x))
    BY <1>4
  <2>2. PICK y \in DOMAIN bundle.list[q] :
                /\ d = bundle.list[q][y]
                /\ Num(q) < Num(p) \/ (q = p /\ (Ordered(p) => y < x))
    BY <2>1
  <2>3. Num(q) < Num(p) \/ (q = p /\ (y <= x \/ ~Ordered(q)))
    <3>1. y \in Nat
      BY BundleLists
    <3> QED BY <1>2, <2>2, <3>1
  <2>4. Place(bundle.from, bundle.list[q][y]) <= Place(bundle.from, bundle.list[p][x])
    BY <1>1, <2>3, InPlace
  <2> QED BY <1>0, <1>1, <2>2, <2>4
<1>6. ASSUME c \in BegunCases(e) PROVE Place(b, c) = 4 /\ b.mode = "random"
  <2>1. PICK q \in Range(Phases) : \E y \in DOMAIN bundle.list[q] :
                /\ c = bundle.list[q][y]
                /\ Num(q) < Num(p) \/ (q = p /\ (Ordered(p) => y < x))
    BY <1>4, <1>6
  <2>2. PICK y \in DOMAIN bundle.list[q] :
                /\ c = bundle.list[q][y]
                /\ Num(q) < Num(p) \/ (q = p /\ (Ordered(p) => y < x))
    BY <2>1
  <2>3. q = p /\ y = x
    <3>1. bundle.list[p][x] = bundle.list[q][y]
      BY <1>1, <2>2
    <3>2. p = q /\ x = y
      BY <1>1, <2>2, <3>1, ThereOnce
    <3> QED BY <3>2
  <2>4. ~(Num(p) < Num(p)) /\ ~(x < x)
    BY <1>2 DEF Num
  <2>5. ~Ordered(p)
    BY <2>2, <2>3, <2>4
  <2>6. p = "main"
    BY <2>5 DEF Ordered
  <2> QED BY <1>0, <1>1, <2>5, <2>6, AtRandom
<1>7. ASSUME NEW s \in ListsOf(b), NEW k \in DOMAIN s, s[k] = c, NEW l \in 1 .. k - 1
      PROVE  s[l] \in Disabled \cup BegunCases(e)
  <2>1. Ordered(p) /\ \E y \in DOMAIN bundle.list[p] : y < x /\ bundle.list[p][y] = s[l]
    BY <1>0, <1>1, <1>7, InFront
  <2>2. PICK y \in DOMAIN bundle.list[p] : y < x /\ bundle.list[p][y] = s[l]
    BY <2>1
  <2>3. Past(e, p, y)
    BY <1>0, <1>2, <2>1, <2>2 DEF Past
  <2> QED BY <1>1, <2>1, <2>2, <2>3 DEF Follows, AllBegun, Quit
<1> QED BY <1>0, <1>3, <1>5, <1>6, <1>7

LEMMA FollowsBeginCase ==
    ASSUME AllOnce, TheBundle, EInv, NEW e \in Engines, Follows(e), BeginCase(e)
    PROVE  Follows(e)'
<1>0. PICK i, p, c : i = eng[e].idx /\ p = eng[e].phase /\ c = eng[e].case
  OBVIOUS
<1>1. /\ eng[e].pc = "begin" /\ UNCHANGED bundle /\ log' = Append(log, Begin(c, e))
      /\ p \in Range(Phases) /\ i \in Nat
  BY <1>0, PhaseOf DEF BeginCase
<1>2. eng'[e].pc = "truncate" /\ eng'[e].phase = p /\ eng'[e].idx = i
  <2>1. PICK m, l : eng' = [eng EXCEPT ![e].pc = "truncate", ![e].mains = m, ![e].late = l]
    BY DEF BeginCase
  <2> QED BY <1>0, <2>1, EInvIs DEF EngineRecs
<1>3. /\ ArePast(e) /\ AllBegun(e) /\ Chosen(e) /\ \A n \in Begun(e) : Fine(e, n)
  BY DEF Follows
<1>4. PICK x \in DOMAIN bundle.list[p] : c = bundle.list[p][x] /\ (Ordered(p) => x = i - 1)
  BY <1>0, <1>1, <1>3 DEF Chosen
<1>5. PICK m : m = Len(log) + 1
  OBVIOUS
<1>6. /\ Begun(e)' = Begun(e) \cup {m} /\ log'[m] = Begin(c, e) /\ m \notin Begun(e)
      /\ \A n \in Begun(e) : n < m /\ log'[n] = log[n]
  <2>1. Begin(c, e) \in Lines /\ Begin(c, e).what = "BEGIN" /\ Begin(c, e).by = e
    BY <1>0, <1>1, NextOf, EngineNumbers DEF Lines, Begin, InHand
  <2>2. /\ Begun(e)' = Begun(e) \cup {m} /\ log'[m] = Begin(c, e)
        /\ \A n \in 1 .. Len(log) : log'[n] = log[n]
    BY <1>1, <1>5, <2>1, LogGrows
  <2>3. \A n \in Begun(e) : n \in 1 .. Len(log) /\ n < m /\ n # m
    BY <1>5, LinesOf
  <2> QED BY <2>2, <2>3
<1>7. log'[m].case = c
  BY <1>6 DEF Begin
<1>8. BegunCases(e)' = BegunCases(e) \cup {c}
  BY <1>6, <1>7 DEF BegunCases
<1>9. \A n \in Begun(e) : Before(e, n)' = Before(e, n)
  <2> SUFFICES ASSUME NEW n \in Begun(e) PROVE Before(e, n)' = Before(e, n)
    OBVIOUS
  <2>1. {k \in Begun(e)' : k < n} = {k \in Begun(e) : k < n}
    <3>1. ~(m < n)
      <4>1. n \in Nat /\ m \in Nat /\ n < m
        BY <1>5, <1>6, LinesOf
      <4> QED BY <4>1
    <3> QED BY <1>6, <3>1
  <2> QED BY <1>6, <2>1 DEF Before
<1>10. Before(e, m)' = BegunCases(e)
  <2>1. {k \in Begun(e)' : k < m} = Begun(e)
    <3>1. ~(m < m)
      BY <1>5, LinesOf
    <3> QED BY <1>6, <3>1
  <2> QED BY <1>6, <2>1 DEF Before, BegunCases
<1>11. Fine(e, m)'
  <2>1. x \in DOMAIN bundle.list[eng[e].phase] /\ eng[e].case = bundle.list[eng[e].phase][x]
        /\ (Ordered(eng[e].phase) => x = eng[e].idx - 1)
    BY <1>0, <1>4
  <2>2. /\ c \notin Disabled
        /\ \A d \in BegunCases(e) : Place(bundle.from, d) <= Place(bundle.from, c)
        /\ c \in BegunCases(e) => Place(bundle.from, c) = 4 /\ bundle.from.mode = "random"
        /\ \A s \in ListsOf(bundle.from) : \A k \in DOMAIN s : s[k] = c =>
             \A l \in 1 .. k - 1 : s[l] \in Disabled \cup BegunCases(e)
    BY <1>0, <1>1, <2>1, FineToBegin
  <2> QED BY <1>1, <1>7, <1>10, <2>2 DEF Fine
<1>12. \A n \in Begun(e)' : Fine(e, n)'
  <2>1. ASSUME NEW n \in Begun(e) PROVE Fine(e, n)'
    BY <1>1, <1>3, <1>6, <1>9, StillFine
  <2> QED BY <1>6, <1>11, <2>1
<1>13. \A q : Ordered(q)' <=> Ordered(q)
  BY <1>1 DEF Ordered
<1>14. UpToIdx(e) = i - 1 /\ UpToIdx(e)' = i
  BY <1>0, <1>1, <1>2 DEF UpToIdx
<1>15. \A q \in Range(Phases) : \A y \in DOMAIN bundle.list[q] : y \in Nat
  BY BundleLists
<1>16. ArePast(e)'
  <2>1. \A q \in Range(Phases) : \A y \in DOMAIN bundle.list[q] : Past(e, q, y) => Past(e, q, y)'
    BY <1>0, <1>1, <1>2, <1>13, <1>14, <1>15 DEF Past
  <2>2. Past(e, p, x)'
    BY <1>1, <1>2, <1>4, <1>13, <1>14 DEF Past
  <2>3. \A n \in Begun(e) : \E q \in Range(Phases) : \E y \in DOMAIN bundle.list[q] :
            bundle.list[q][y] = log'[n].case /\ Past(e, q, y)'
    BY <1>3, <1>6, <2>1 DEF ArePast
  <2> QED BY <1>1, <1>4, <1>6, <1>7, <2>2, <2>3 DEF ArePast
<1>17. AllBegun(e)'
  <2> SUFFICES ASSUME NEW q \in Range(Phases), NEW y \in DOMAIN bundle.list[q], Ordered(q),
                      Past(e, q, y)'
               PROVE  bundle.list[q][y] \in Disabled \cup BegunCases(e)'
    BY <1>1, <1>13 DEF AllBegun
  <2>1. CASE Past(e, q, y)
    BY <1>1, <1>3, <1>8, <2>1 DEF AllBegun, Quit
  <2>2. CASE ~Past(e, q, y)
    <3>1. q = p /\ y = i - 1
      BY <1>0, <1>1, <1>2, <1>13, <1>14, <1>15, <2>2 DEF Past
    <3> QED BY <1>4, <1>8, <3>1
  <2> QED BY <2>1, <2>2
<1>18. AtTheEnd(e)' /\ Chosen(e)'
  BY <1>2 DEF AtTheEnd, Chosen, AtLast
<1> QED BY <1>12, <1>16, <1>17, <1>18 DEF Follows

\* The bundle is made once.
LEMMA BundleStays == [Next]_vars => UNCHANGED bundle
BY DEF Next, StartEngine, Engine, WritePid, NextInOrder, NextAtRandom, PhaseOver, BeginCase,
       TruncateStatus, WriteStatus, EndCase, Complete, KillEngine, Stop, CaseRuns, KillCase,
       JobRuns, CommandOfJobEnds, vars, engineVars

LEMMA RunsATester ==
    ASSUME EInv, NEW e \in Engines, eng[e].pc = "run"
    PROVE  eng[e].tester \in Testers /\ eng[e].tester \in Nat
<1>1. eng[e].tester \in Testers
  BY DEF EInv, CaseInHand
<1> QED BY <1>1, ActionsAssumption DEF Testers

LEMMA FollowsNext == AllOnce /\ EInv /\ FInv /\ [Next]_vars => FInv'
<1> SUFFICES ASSUME AllOnce, EInv, FInv, [Next]_vars PROVE FInv'
  OBVIOUS
<1>1. eng \in [Engines -> EngineRecs] /\ TheBundle /\ \A d \in Engines : Follows(d)
  BY EInvIs DEF FInv
<1>2. UNCHANGED bundle
  BY BundleStays
<1>3. TheBundle'
  BY <1>1, <1>2 DEF TheBundle
<1>s. ASSUME NEW d \in Engines, SameLines(d), eng'[d] = eng[d]
      PROVE  Follows(d)'
  BY <1>1, <1>2, <1>s, FollowsStays
<1>o. ASSUME NEW e \in Engines, \A d \in Engines \ {e} : eng'[d] = eng[d] /\ SameLines(d),
             Follows(e)'
      PROVE  FInv'
  <2>1. \A d \in Engines \ {e} : Follows(d)'
    BY <1>o, <1>s
  <2> QED BY <1>3, <1>o, <2>1 DEF FInv
<1>l. ASSUME UNCHANGED log PROVE \A d \in Engines : SameLines(d)
  BY <1>l, SameLog DEF SameLines
<1>a. ASSUME NEW e \in Engines, NEW l \in Lines, log' = Append(log, l)
      PROVE  /\ \A d \in Engines : l.what = "END" \/ l.by # d => SameLines(d)
  <2>1. \A d : ~(l.what = "BEGIN" /\ l.by = d) => Begun(d)' = Begun(d)
    BY <1>a, LogGrows
  <2>2. \A d : \A n \in Begun(d) : log'[n] = log[n]
    BY <1>a, LogGrows, LinesOf
  <2> QED BY <2>1, <2>2 DEF SameLines
<1>t. ASSUME NEW e \in Engines, NEW pc, To(e, pc), UNCHANGED log,
             \/ pc \in Quit
             \/ eng[e].pc \notin Quit \cup {"begin"} /\ pc # "begin" /\ (pc \in AtLast => eng[e].pc \in AtLast)
      PROVE  FInv'
  <2>1. /\ eng'[e].pc = pc /\ eng'[e].phase = eng[e].phase /\ eng'[e].idx = eng[e].idx
        /\ \A d \in Engines \ {e} : eng'[d] = eng[d]
    BY <1>1, <1>t DEF To, EngineRecs
  <2>2. SameLines(e) /\ \A d \in Engines \ {e} : SameLines(d)
    BY <1>t, <1>l
  <2>3. Follows(e)'
    BY <1>1, <1>2, <1>t, <2>1, <2>2, FollowsStays
  <2> QED BY <1>o, <2>1, <2>2, <2>3
<1>4. ASSUME NEW e \in Engines, StartEngine(e) \/ WritePid(e) \/ TruncateStatus(e)
                                \/ Complete(e) \/ KillEngine(e)
      PROVE  FInv'
  <2>1. CASE StartEngine(e)
    BY <2>1, <1>t DEF StartEngine, Quit, AtLast
  <2>2. CASE WritePid(e)
    BY <2>2, <1>t DEF WritePid, Quit, AtLast
  <2>3. CASE TruncateStatus(e)
    BY <2>3, <1>t DEF TruncateStatus, Quit, AtLast
  <2>4. CASE Complete(e)
    BY <2>4, <1>t DEF Complete, Quit, AtLast
  <2>5. CASE KillEngine(e)
    BY <2>5, <1>t DEF KillEngine, Quit, AtLast
  <2> QED BY <1>4, <2>1, <2>2, <2>3, <2>4, <2>5
<1>5. ASSUME NEW e \in Engines, NextInOrder(e) PROVE FInv'
  <2>1. UNCHANGED log /\ \A d \in Engines \ {e} : eng'[d] = eng[d]
    BY <1>1, <1>5 DEF NextInOrder
  <2>2. Follows(e)'
    BY <1>1, <1>5, FollowsNextInOrder
  <2> QED BY <1>l, <1>o, <2>1, <2>2
<1>6. ASSUME NEW e \in Engines, NextAtRandom(e) PROVE FInv'
  <2>1. UNCHANGED log /\ \A d \in Engines \ {e} : eng'[d] = eng[d]
    <3>1. CASE To(e, "crashed")
      BY <1>6, <3>1, ToIs DEF NextAtRandom
    <3>2. CASE ~To(e, "crashed")
      <4>1. PICK c \in EnabledCases(e) : eng' = [eng EXCEPT ![e].case = c, ![e].pc = "begin"]
        BY <1>6, <3>2 DEF NextAtRandom
      <4>2. \A d \in Engines \ {e} : eng'[d] = eng[d]
        BY <1>1, <4>1
      <4> QED BY <1>6, <4>2 DEF NextAtRandom
    <3> QED BY <3>1, <3>2
  <2>2. Follows(e)'
    BY <1>1, <1>6, FollowsNextAtRandom
  <2> QED BY <1>l, <1>o, <2>1, <2>2
<1>7. ASSUME NEW e \in Engines, PhaseOver(e) PROVE FInv'
  <2>1. UNCHANGED log /\ \A d \in Engines \ {e} : eng'[d] = eng[d]
    BY <1>1, <1>7 DEF PhaseOver, To
  <2>2. Follows(e)'
    BY <1>1, <1>7, FollowsPhaseOver
  <2> QED BY <1>l, <1>o, <2>1, <2>2
<1>8. ASSUME NEW e \in Engines, BeginCase(e) PROVE FInv'
  <2>0. PICK c : c = eng[e].case
    OBVIOUS
  <2>1. log' = Append(log, Begin(c, e)) /\ eng[e].pc = "begin" /\ \A d \in Engines \ {e} : eng'[d] = eng[d]
    BY <1>1, <1>8, <2>0 DEF BeginCase
  <2>2. Begin(c, e) \in Lines /\ Begin(c, e).by = e
    BY <2>0, <2>1, NextOf, EngineNumbers DEF Lines, Begin, InHand
  <2>3. \A d \in Engines \ {e} : SameLines(d)
    BY <1>a, <2>1, <2>2
  <2>4. Follows(e)'
    BY <1>1, <1>8, FollowsBeginCase
  <2> QED BY <1>o, <2>1, <2>3, <2>4
<1>9. ASSUME NEW e \in Engines, WriteStatus(e) PROVE FInv'
  <2>1. PICK t \in Unstarted : eng' = [eng EXCEPT ![e].pc = "run", ![e].tester = t]
    BY <1>9 DEF WriteStatus
  <2>2. /\ eng'[e].pc = "run" /\ eng'[e].phase = eng[e].phase /\ eng'[e].idx = eng[e].idx
        /\ \A d \in Engines \ {e} : eng'[d] = eng[d]
    BY <1>1, <2>1 DEF EngineRecs
  <2>3. eng[e].pc = "status" /\ SameLines(e) /\ \A d \in Engines \ {e} : SameLines(d)
    BY <1>9, <1>l DEF WriteStatus
  <2>4. Follows(e)'
    BY <1>1, <1>2, <2>2, <2>3, FollowsStays DEF Quit, AtLast
  <2> QED BY <1>o, <2>2, <2>3, <2>4
<1>10. ASSUME NEW e \in Engines, EndCase(e) PROVE FInv'
  <2>1. PICK c, t : c = eng[e].case /\ t = eng[e].tester
    OBVIOUS
  <2>2. eng[e].pc = "run" /\ tester[t].pc \in Over /\ c \in Cases /\ t \in Nat
    BY <1>10, <2>1, NextOf, RunsATester DEF EndCase, InHand
  <2>3. PICK code \in ExitCodes(tester[t].pc) : log' = Append(log, End(c, code, t))
    BY <1>10, <2>1 DEF EndCase
  <2>4. End(c, code, t) \in Lines /\ End(c, code, t).what = "END"
    BY <2>2, <2>3 DEF Lines, End, ExitCodes, Over
  <2>5. \A d \in Engines : SameLines(d)
    BY <1>a, <2>3, <2>4
  <2>6. PICK h : eng' = [eng EXCEPT ![e].pc = "next", ![e].tester = 0, ![e].case = NoName, ![e].halt = h]
    BY <1>10 DEF EndCase
  <2>7. /\ eng'[e].pc = "next" /\ eng'[e].phase = eng[e].phase /\ eng'[e].idx = eng[e].idx
        /\ \A d \in Engines \ {e} : eng'[d] = eng[d]
    BY <1>1, <2>6 DEF EngineRecs
  <2>8. Follows(e)'
    BY <1>1, <1>2, <2>2, <2>5, <2>7, FollowsStays DEF Quit, AtLast
  <2> QED BY <1>o, <2>5, <2>7, <2>8
<1>11. CASE Stop
  <2>1. UNCHANGED log /\ \A d \in Engines :
            /\ eng'[d].pc = eng[d].pc /\ eng'[d].case = eng[d].case
            /\ eng'[d].phase = eng[d].phase /\ eng'[d].idx = eng[d].idx
    BY <1>1, <1>11 DEF Stop, EngineRecs
  <2>2. \A d \in Engines : Follows(d)'
    BY <1>1, <1>2, <1>l, <2>1, FollowsStays
  <2> QED BY <1>3, <2>2 DEF FInv
<1>12. ASSUME UNCHANGED <<eng, log>> PROVE FInv'
  <2>1. \A d \in Engines : Follows(d)'
    BY <1>12, <1>l, <1>s
  <2> QED BY <1>3, <2>1 DEF FInv
<1>13. ASSUME NEW t \in Testers, CaseRuns(t) \/ KillCase(t) PROVE UNCHANGED <<eng, log>>
  BY <1>13 DEF CaseRuns, KillCase, engineVars
<1>14. ASSUME NEW j \in Jobs, JobRuns(j) \/ CommandOfJobEnds(j) PROVE UNCHANGED <<eng, log>>
  BY <1>14 DEF JobRuns, CommandOfJobEnds, engineVars
<1>15. UNCHANGED vars => UNCHANGED <<eng, log>>
  BY DEF vars, engineVars
<1> QED BY <1>4, <1>5, <1>6, <1>7, <1>8, <1>9, <1>10, <1>11, <1>12, <1>13, <1>14, <1>15
        DEF Next, Engine

LEMMA FollowsInitially == Init => FInv
<1> SUFFICES ASSUME Init PROVE FInv
  OBVIOUS
<1>1. TheBundle
  <2>1. PICK b \in Bundles : \E o \in Orders(Len(b.specs)) : bundle = Merge(b, o)
    BY DEF Init
  <2>2. PICK o \in Orders(Len(b.specs)) : bundle = Merge(b, o)
    BY <2>1
  <2>3. bundle.from = b
    BY <2>2, MergeIs
  <2> QED BY <2>2, <2>3 DEF TheBundle
<1>2. EInv
  BY EngineInitially
<1>3. ASSUME NEW e \in Engines PROVE Follows(e)
  <2>1. eng[e].pc = "none" /\ eng[e].phase = "initial" /\ eng[e].idx = 1
    BY DEF Init, NoEngine
  <2>2. Begun(e) = {}
    <3>1. DOMAIN log = {}
      BY DEF Init
    <3> QED BY <3>1 DEF Begun
  <2>3. \A p \in Range(Phases) : \A x \in DOMAIN bundle.list[p] : ~Past(e, p, x)
    <3>1. \A p \in Range(Phases) : \A x \in DOMAIN bundle.list[p] : x \in Nat /\ x >= 1
      BY <1>2, BundleLists
    <3>2. UpToIdx(e) = 1 /\ Ordered("initial")
      BY <2>1 DEF UpToIdx, Ordered
    <3> QED BY <2>1, <3>1, <3>2 DEF Past, Num
  <2> QED BY <2>1, <2>2, <2>3 DEF Follows, ArePast, AllBegun, AtTheEnd, Chosen, AtLast
<1> QED BY <1>1, <1>3 DEF FInv

LEMMA FollowsSays == AllOnce /\ EInv /\ FInv => RunFollowsBundle
<1> SUFFICES ASSUME AllOnce, EInv, FInv, NEW e \in Engines
             PROVE  LET b == bundle.from
                        again(c) == Place(b, c) = 4 /\ b.mode = "random"
                    IN /\ \A n \in Begun(e) : Fine(e, n)
                       /\ eng[e].pc = "completed" =>
                            \A p \in Range(Phases) : \A c \in Range(bundle.list[p]) :
                                c \in Disabled \/ again(c) \/ \E n \in Begun(e) : log[n].case = c
  BY DEF RunFollowsBundle, Fine, Before
<1>1. TheBundle /\ Follows(e)
  BY DEF FInv
<1>2. ASSUME eng[e].pc = "completed", NEW p \in Range(Phases), NEW x \in DOMAIN bundle.list[p]
      PROVE  \/ bundle.list[p][x] \in Disabled \cup BegunCases(e)
             \/ Place(bundle.from, bundle.list[p][x]) = 4 /\ bundle.from.mode = "random"
  <2>1. eng[e].phase = "final" /\ eng[e].idx > Len(bundle.list["final"])
    BY <1>1, <1>2 DEF Follows, AtTheEnd, AtLast, Cur
  <2>2. UpToIdx(e) = eng[e].idx /\ eng[e].idx \in Nat
    BY <1>2, PhaseOf DEF UpToIdx
  <2>3. x \in Nat /\ x <= Len(bundle.list[p]) /\ Len(bundle.list[p]) \in Nat
    BY BundleLists
  <2>4. Past(e, p, x)
    BY <2>1, <2>2, <2>3, PhasesAre DEF Past, Num
  <2>5. CASE Ordered(p)
    BY <1>1, <1>2, <2>4, <2>5 DEF Follows, AllBegun, Quit
  <2>6. CASE ~Ordered(p)
    <3>1. p = "main"
      BY <2>6 DEF Ordered
    <3> QED BY <1>1, <2>6, <3>1, AtRandom
  <2> QED BY <2>5, <2>6
<1> QED BY <1>1, <1>2 DEF Follows, BegunCases, Range

\* An engine begins the cases in the order of the bundle, none twice that is not chosen
\* at random, and completes only when it has begun every enabled one of the lists run
\* in order.  A case is told from others by its name: the bundles have no name twice.
THEOREM RunFollows ==
    ASSUME AllOnce
    PROVE  Spec => []RunFollowsBundle
<1>1. Init => FInv
  BY FollowsInitially
<1>2. EInv /\ FInv /\ [Next]_vars => FInv'
  BY FollowsNext
<1>3. EInv /\ FInv => RunFollowsBundle
  BY FollowsSays
<1> QED BY <1>1, <1>2, <1>3, EngineAlways, PTL DEF Spec

=============================================================================
