------------------------------- MODULE TestEngine -------------------------------
(***************************************************************************)
(* The engine of `saftest start` (src/trunk/lib/SAFTestEngine.rb) with the *)
(* bundle of test cases it runs (SAFTestBundle.rb), its pid file, status   *)
(* file and log, the processes of the test cases, and what the commands    *)
(* stop, status and report read.                                           *)
(*                                                                         *)
(* Processes interleave: the engine, which waits for the test case it      *)
(* started; the test cases, of which those of a killed engine go on; the   *)
(* background actions they start; the user, who stops a run, starts one    *)
(* when none is running, and kills processes.                              *)
(***************************************************************************)
EXTENDS Actions, TestReport

CONSTANTS
    Bundles,       \* the bundles of the top level with those of the specifications
    Disabled,      \* cases of weight 0
    Script,        \* [Cases -> Seq({"start", "wait"})], background actions of a case
    Failing,       \* bound: the cases whose own checks may fail
    Skipping,      \* bound: the cases that may find they cannot run
    MaxEngines,    \* bound: engines started, one after the other, ...
    Twice,         \* ... of the bundles that are run more than once
    MaxMain,       \* bound: the duration of a random run, in main cases
    MaxKills       \* bound: processes killed

\* How many of the first n steps of a script are of a kind.
Of(script, n, what) == Cardinality({i \in 1 .. n : script[i] = what})

Modes == {"sequential", "random"}
BundleRecs ==
    LET Lists == [initial : Seq(Cases), main : Seq(Cases), final : Seq(Cases)]
    IN [mode : Modes, top : Lists, specs : Seq(Lists)]

ASSUME EngineAssumption ==
    /\ Cases \cup {NoName} \subseteq STRING /\ NoName \notin Cases
    /\ Bundles \subseteq BundleRecs
    /\ Disabled \subseteq Cases /\ Failing \subseteq Cases /\ Skipping \subseteq Cases
    /\ Script \in [Cases -> Seq({"start", "wait"})]
    /\ \A c \in Cases : \A n \in 0 .. Len(Script[c]) :     \* waits for what it started
        Of(Script[c], n, "wait") <= Of(Script[c], n, "start")
    /\ Twice \subseteq Bundles
    /\ MaxEngines \in Nat /\ MaxMain \in Nat /\ MaxKills \in Nat

Engines == 1 .. MaxEngines
Phases  == <<"initial", "main", "final">>

\* @state while the cases of a phase run.
StateIn == [initial |-> "RUNNING_INITIAL_CASES", main |-> "RUNNING_MAIN_CASES",
            final |-> "RUNNING_FINAL_CASES"]
States == {StateIn[p] : p \in DOMAIN StateIn} \cup {"COMPLETED"}

Ended == {"completed", "crashed", "killed"}
EngineRecs ==
    [pc     : {"none", "pid", "next", "begin", "truncate", "status", "run", "finish"} \cup Ended,
     phase  : {"initial", "main", "final"},
     idx    : Nat \ {0},                 \* of the case in a list run in order
     case   : Cases \cup {NoName},
     tester : Testers \cup {0},
     mains  : Nat,                       \* main cases begun
     halt   : BOOLEAN,                   \* @needToHalt
     late   : Nat]                       \* cases chosen at random begun since the stop
NoEngine == [pc |-> "none", phase |-> "initial", idx |-> 1, case |-> NoName, tester |-> 0,
             mains |-> 0, halt |-> FALSE, late |-> 0]

VARIABLES
    bundle,       \* the file of merged cases, the mode of its main cases, what it is from
    eng,          \* [Engines -> EngineRecs]
    pidFile,      \* 0 when there is none or an empty one, or the engine
    statusFile,   \* "none", "empty" or its state and the name of the case
    log,          \* lines in the order they were written
    kills         \* processes killed so far

engineVars == <<bundle, eng, pidFile, statusFile, log, kills>>
vars == <<actionVars, engineVars>>

NoStatus == [state |-> "none", case |-> NoName]
EmptyStatus == [state |-> "empty", case |-> NoName]

-----------------------------------------------------------------------------
\* The bundle file that `saftest create` writes.

SpecCases(b, order, phase) == FlattenSeq([i \in DOMAIN order |-> b.specs[order[i]][phase]])

\* The cases of the top level come first in every phase.
Merge_TopFirst(b, order) ==
    [from |-> b, mode |-> b.mode,
     list |-> [p \in Range(Phases) |-> b.top[p] \o SpecCases(b, order, p)]]

\* ... but are around those of the specifications.  The specifications come in the
\* order of a hash, the same in all phases.
Merge(b, order) ==
    [from |-> b, mode |-> b.mode,
     list |-> [p \in Range(Phases) |-> IF p = "final" THEN SpecCases(b, order, p) \o b.top[p]
                                       ELSE b.top[p] \o SpecCases(b, order, p)]]

Orders(n) == {o \in [1 .. n -> 1 .. n] : \A i, j \in 1 .. n : o[i] = o[j] => i = j}

Init ==
    /\ \E b \in Bundles : \E o \in Orders(Len(b.specs)) : bundle = Merge(b, o)
    /\ eng = [e \in Engines |-> NoEngine]
    /\ pidFile = 0
    /\ statusFile = NoStatus
    /\ log = <<>>
    /\ kills = 0
    /\ ActionsInit

-----------------------------------------------------------------------------
\* The engine.

To(e, pc) == eng' = [eng EXCEPT ![e].pc = pc]
Cur(e) == bundle.list[eng[e].phase]
InOrder(e) == eng[e].phase # "main" \/ bundle.mode = "sequential"
NextPhase(e) == IF eng[e].phase = "initial" THEN "main" ELSE "final"

\* Nothing checks for an engine that runs already: that is left to the user.  The
\* pid file is created, which empties it.
StartEngine(e) ==
    /\ eng[e].pc = "none" /\ (e = 1 \/ bundle.from \in Twice)
    /\ \A d \in 1 .. e - 1 : eng[d].pc \in Ended
    /\ To(e, "pid")
    /\ pidFile' = 0
    /\ UNCHANGED <<bundle, statusFile, log, kills, actionVars>>

\* The number is taken before the fork.
WritePid_Parent(e) ==
    /\ eng[e].pc = "pid"
    /\ To(e, "next")
    /\ pidFile' = MaxEngines + e
    /\ UNCHANGED <<bundle, statusFile, log, kills, actionVars>>

WritePid(e) ==
    /\ eng[e].pc = "pid"
    /\ To(e, "next")
    /\ pidFile' = e
    /\ UNCHANGED <<bundle, statusFile, log, kills, actionVars>>

\* The loop over the cases of a phase, and the loop of a random run, which looks
\* at the request to halt.  An empty array has no random element: the engine dies.
EnabledCases(e) == {c \in Range(Cur(e)) : c \notin Disabled}

\* A case of weight 0 is passed over, without a line in the log.
NextInOrder(e) ==
    /\ eng[e].pc = "next" /\ InOrder(e) /\ eng[e].idx <= Len(Cur(e))
    /\ LET c == Cur(e)[eng[e].idx]
       IN eng' = [eng EXCEPT ![e].idx = @ + 1, ![e].case = c,
                             ![e].pc = IF c \in Disabled THEN "next" ELSE "begin"]
    /\ UNCHANGED <<bundle, pidFile, statusFile, log, kills, actionVars>>

NextAtRandom(e) ==
    /\ eng[e].pc = "next" /\ ~InOrder(e) /\ ~eng[e].halt
    /\ IF EnabledCases(e) = {} THEN To(e, "crashed")
       ELSE \E c \in EnabledCases(e) : eng' = [eng EXCEPT ![e].case = c, ![e].pc = "begin"]
    /\ UNCHANGED <<bundle, pidFile, statusFile, log, kills, actionVars>>

\* The final phase is followed by the status file's last contents; it is emptied.
PhaseOver(e) ==
    /\ eng[e].pc = "next"
    /\ IF InOrder(e) THEN eng[e].idx > Len(Cur(e)) ELSE eng[e].halt
    /\ IF eng[e].phase = "final"
       THEN To(e, "finish") /\ statusFile' = EmptyStatus
       ELSE /\ eng' = [eng EXCEPT ![e].phase = NextPhase(e), ![e].idx = 1]
            /\ UNCHANGED statusFile
    /\ UNCHANGED <<bundle, pidFile, log, kills, actionVars>>

\* The line in the log, ...
BeginCase(e) ==
    LET main == IF eng[e].phase = "main" THEN 1 ELSE 0
    IN /\ eng[e].pc = "begin"
       /\ eng' = [eng EXCEPT ![e].pc = "truncate", ![e].mains = @ + main,
                             ![e].late = IF eng[e].halt /\ ~InOrder(e) THEN @ + 1 ELSE @]
       /\ log' = Append(log, Begin(eng[e].case, e))
       /\ UNCHANGED <<bundle, pidFile, statusFile, kills, actionVars>>

\* ... and then the status file is emptied.
TruncateStatus(e) ==
    /\ eng[e].pc = "truncate"
    /\ To(e, "status")
    /\ statusFile' = EmptyStatus
    /\ UNCHANGED <<bundle, pidFile, log, kills, actionVars>>

Unstarted == {t \in Testers : tester[t].pc = "none"}

\* The new state is not set when the final cases begin.
StateOf_NotFinal(e) == IF eng[e].phase = "initial" THEN StateIn["initial"] ELSE StateIn["main"]

StateOf(e) == StateIn[eng[e].phase]

\* The status file's contents, and the process of the case.
WriteStatus(e) ==
    /\ eng[e].pc = "status"
    /\ statusFile' = [state |-> StateOf(e), case |-> eng[e].case]
    /\ \E t \in Unstarted :
        /\ \A u \in Unstarted : t <= u
        /\ Spawn(t, eng[e].case, Script[eng[e].case])
        /\ eng' = [eng EXCEPT ![e].pc = "run", ![e].tester = t]
    /\ UNCHANGED <<bundle, pidFile, log, kills, action, job>>

\* The wait status is taken for the exit status.
ExitCodes_Raw(how) ==
    CASE how = "passed"              -> {0}
      [] how \in {"failed", "raised"} -> {256}
      [] how = "skipped"             -> {512}
      [] how = "killed"              -> {9}

\* The exit status is the high byte of the wait status.  The command is run by a
\* shell: one that has become the command was killed with it and has no exit
\* status; one that waits for the command ends with 128 and the signal.
ExitCodes(how) ==
    CASE how = "passed"              -> {0}
      [] how \in {"failed", "raised"} -> {1}
      [] how = "skipped"             -> {2}
      [] how = "killed"              -> {0, 137}

\* The time decides alone.
NeedToHalt_TimeOnly(e, over) == over

\* checkDuration and the handler of SIGINT set the same variable.
NeedToHalt(e, over) == eng[e].halt \/ over

\* A random main case is followed by a look at the time.
EndCase(e) ==
    LET t == eng[e].tester
        random == eng[e].phase = "main" /\ bundle.mode = "random"
    IN /\ eng[e].pc = "run"
       /\ tester[t].pc \in Over
       /\ \E code \in ExitCodes(tester[t].pc) : log' = Append(log, End(eng[e].case, code, t))
       /\ \E over \in BOOLEAN :
            /\ random /\ eng[e].mains >= MaxMain => over
            /\ ~random => ~over
            /\ eng' = [eng EXCEPT ![e].pc = "next", ![e].tester = 0, ![e].case = NoName,
                                  ![e].halt = IF random THEN NeedToHalt(e, over) ELSE @]
       /\ UNCHANGED <<bundle, pidFile, statusFile, kills, actionVars>>

Complete(e) ==
    /\ eng[e].pc = "finish"
    /\ To(e, "completed")
    /\ statusFile' = [state |-> "COMPLETED", case |-> NoName]
    /\ UNCHANGED <<bundle, pidFile, log, kills, actionVars>>

Engine(e) ==
    \/ WritePid(e) \/ NextInOrder(e) \/ NextAtRandom(e) \/ PhaseOver(e)
    \/ BeginCase(e) \/ TruncateStatus(e) \/ WriteStatus(e) \/ EndCase(e) \/ Complete(e)

-----------------------------------------------------------------------------
\* The user.

Running(e) == eng[e].pc \notin {"none"} \cup Ended

\* An empty pid file or the number of an engine that is gone is an error of the
\* command, which changes nothing.
Stop ==
    /\ pidFile # 0
    /\ Running(pidFile) /\ ~eng[pidFile].halt
    /\ eng' = [eng EXCEPT ![pidFile].halt = TRUE]
    /\ UNCHANGED <<bundle, pidFile, statusFile, log, kills, actionVars>>

\* Its test case goes on.
KillEngine(e) ==
    /\ kills < MaxKills
    /\ Running(e)
    /\ To(e, "killed")
    /\ kills' = kills + 1
    /\ UNCHANGED <<bundle, pidFile, statusFile, log, actionVars>>

KillCase(t) ==
    /\ kills < MaxKills
    /\ KillTester(t)
    /\ kills' = kills + 1
    /\ UNCHANGED <<bundle, eng, pidFile, statusFile, log>>

CaseRuns(t) ==
    /\ \/ RunScript(t)
       \/ tester[t].name \in Failing /\ Fails(t)
       \/ tester[t].name \in Skipping /\ Skips(t)
    /\ UNCHANGED engineVars

JobRuns(j) == Job(j) /\ UNCHANGED engineVars
CommandOfJobEnds(j) == CommandEnds(j) /\ UNCHANGED engineVars

Next ==
    \/ \E e \in Engines : StartEngine(e) \/ Engine(e) \/ KillEngine(e)
    \/ Stop
    \/ \E t \in Testers : CaseRuns(t) \/ KillCase(t)
    \/ \E j \in Jobs : JobRuns(j) \/ CommandOfJobEnds(j)

\* Some engine that can go on does, and some test case: less than what a scheduler
\* does for each.  Nobody has to start an engine, and of the background actions
\* nothing is asked.
Fairness ==
    /\ WF_vars(\E e \in Engines : Engine(e))
    /\ WF_vars(\E t \in Testers : CaseRuns(t))

Spec == Init /\ [][Next]_vars /\ Fairness

-----------------------------------------------------------------------------
\* What should hold.

\* Every variable has values of its type.
TypeOK ==
    /\ ActionsTypeOK
    /\ bundle.from \in Bundles /\ bundle.mode \in Modes
    /\ bundle.list \in [Range(Phases) -> Seq(Cases)]
    /\ eng \in [Engines -> EngineRecs]
    /\ pidFile \in {0} \cup Engines
    /\ statusFile \in [state : States \cup {"none", "empty"}, case : Cases \cup {NoName}]
    /\ log \in Seq([what : {"BEGIN", "END"}, case : Cases, code : Nat, by : Nat])
    /\ kills \in 0 .. MaxKills

\* Whatever was killed, and whenever the report is asked for, it can be made, and
\* it counts for every case the runs that failed, were skipped and passed.  Only a
\* run that was killed may be counted as one that passed, or not at all.
ReportTellsTheTruth ==
    LET r == Report(log)
        logged == {l.by : l \in {k \in Range(log) : k.what = "END"}}
        ended(c, hows) == Cardinality({t \in logged : tester[t].name = c /\ tester[t].pc \in hows})
    IN /\ ~r.raised
       /\ \A c \in {l.case : l \in Range(log)} :
            /\ r.count[c]["FAILED"] = ended(c, {"failed", "raised"})
            /\ r.count[c]["SKIPPED"] = ended(c, {"skipped"})
            /\ r.count[c]["NOT_CONFIGURED"] = 0
            /\ r.count[c]["PASSED"] \in ended(c, {"passed"}) .. ended(c, {"passed", "killed"})

\* The lines at which an engine began a case.
Begun(e) == {n \in DOMAIN log : log[n].what = "BEGIN" /\ log[n].by = e}
IsLast(e, n) == n \in Begun(e) /\ \A k \in Begun(e) : k <= n

\* While a case of a running engine is under way the status names it and its phase;
\* a status without a case is one of a run that completed, which displayStatus
\* insists on; and it says so only after everything was run.
StatusIsTrue ==
    /\ \A e \in Engines : eng[e].pc = "run" => \E n \in Begun(e) :
        IsLast(e, n) /\ statusFile = [state |-> StateIn[eng[e].phase], case |-> log[n].case]
    /\ statusFile.case = NoName <=> statusFile.state \in {"none", "empty", "COMPLETED"}
    /\ statusFile.state = "COMPLETED" => \E e \in Engines :
        /\ eng[e].pc = "completed"
        /\ \A d \in Engines : d > e => Begun(d) = {} \/ eng[d].pc \in {"truncate", "killed"}

\* Where the comment above writeToXML puts a case of the bundle b in a run.
Place(b, c) ==
    LET inTop(p) == c \in Range(b.top[p])
        inSpec(p) == \E i \in DOMAIN b.specs : c \in Range(b.specs[i][p])
    IN CASE inTop("initial")  -> 1
         [] inSpec("initial") -> 2
         [] inTop("main")     -> IF b.mode = "random" THEN 4 ELSE 3
         [] inSpec("main")    -> 4
         [] inSpec("final")   -> 5
         [] inTop("final")    -> 6

\* The lists of cases a specification relies on the order of.
ListsOf(b) == {b.specs[i][p] : i \in DOMAIN b.specs, p \in {"initial", "final"}} \cup
              {b.specs[i]["main"] : i \in {j \in DOMAIN b.specs : b.mode = "sequential"}}

\* A run, however far it gets, begins no case before one that belongs in front of
\* it, keeps the order within a specification, and begins none twice but the main
\* cases of a random run; a run that completes has left out no enabled case of a
\* list run in order, halted or not.
RunFollowsBundle == \A e \in Engines :
    LET b == bundle.from
        again(c) == Place(b, c) = 4 /\ b.mode = "random"
    IN /\ \A n \in Begun(e) :
            LET c == log[n].case
                before == {log[i].case : i \in {k \in Begun(e) : k < n}}
            IN /\ c \notin Disabled
               /\ \A d \in before : Place(b, d) <= Place(b, c)
               /\ c \in before => again(c)
               /\ \A s \in ListsOf(b) : \A k \in DOMAIN s : s[k] = c =>
                    \A l \in 1 .. k - 1 : s[l] \in Disabled \cup before
       /\ eng[e].pc = "completed" =>
            \A p \in Range(Phases) : \A c \in Range(bundle.list[p]) :
                c \in Disabled \/ again(c) \/ \E n \in Begun(e) : log[n].case = c

\* After the user has stopped a random run at most the case chosen already is
\* begun before the final ones.
HaltsSoon == \A e \in Engines : eng[e].late <= 1

\* A case that passed did so on what its own commands returned: for each action it
\* waited for, the job it started ran and returned what was expected.  It holds
\* with test cases of killed engines about, which make their actions in the same
\* directory.
PassedMeansReturned == \A t \in Testers : tester[t].pc = "passed" =>
    \A n \in 1 .. tester[t].waited :
        job[<<t, n>>].pc \in {"stopped", "rewriting", "ended"} /\ job[<<t, n>>].code = "expected"

\* A run that was started ends, whether or not the commands its cases run in the
\* background do.  Unless it is killed it runs the final cases and writes the final
\* status: only a run without a main case to choose dies, and not once it was asked
\* to halt.
RunEnds == \A e \in Engines : eng[e].pc = "pid" ~>
    \/ eng[e].pc \in {"completed", "killed"}
    \/ eng[e].pc = "crashed" /\ ~eng[e].halt

=============================================================================
