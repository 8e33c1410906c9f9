-------------------------------- MODULE Actions --------------------------------
(***************************************************************************)
(* Commands that a test case runs in the background                        *)
(* (src/trunk/lib/SAFTestAction.rb, src/trunk/bin/saftest_action, and their *)
(* callers runDriverBG in SAFTestDriver.rb and waitForLockSyncBG in        *)
(* LCKTestDriver.rb).                                                      *)
(*                                                                         *)
(* An action is a directory with a state file and one directory with a     *)
(* state file for its command (runDriverBG gives it one command).  The     *)
(* test case makes it and starts a process, the job, which loads the       *)
(* action, runs the command and stores the result.  The test case waits by *)
(* loading the files once a second.                                        *)
(*                                                                         *)
(* A file is rewritten by truncating it and writing its content at the     *)
(* close.  Steps are cut where somebody else can see the difference: before *)
(* the action is "done" nobody looks at its contents, so those stores are  *)
(* one step each, but a command directory without a file is seen by every  *)
(* load of all actions, and the last store is seen file by file.           *)
(***************************************************************************)
EXTENDS Naturals, Sequences, FiniteSets

CONSTANTS
    MaxTesters,      \* bound: test case processes, numbered as they start
    MaxActions,      \* bound: action directories
    MaxJobs          \* bound: actions one test case starts

ASSUME ActionsAssumption ==
    MaxTesters \in Nat /\ MaxActions \in Nat /\ MaxJobs \in Nat

Testers   == 1 .. MaxTesters
ActionIds == 1 .. MaxActions
Jobs      == Testers \X (1 .. MaxJobs)

\* What a command, the client of a driver, may return: what the test expects or
\* something else, or not yet a result.
Codes == {"expected", "other"}
NoResult == "none"
Results == Codes \cup {NoResult}

\* "made" is a command directory without its file, "empty" a truncated file.
ActionRecs ==
    [state   : {"none", "pending", "running", "done"},
     command : {"none", "made", "empty", "pending", "running"} \cup Codes]
NoAction == [state |-> "none", command |-> "none"]

JobRecs ==
    [pc   : {"none", "started", "refused", "raised", "running", "stored",
             "stopped", "rewriting", "ended"},
     id   : ActionIds \cup {0},
     code : Results]
NoJob == [pc |-> "none", id |-> 0, code |-> NoResult]

\* A test case process and what of it is over: "raised" is an uncaught exception,
\* which Ruby turns into the exit status of a failed test.
Over == {"passed", "failed", "raised", "skipped", "killed"}
TesterRecs ==
    [name   : STRING,                         \* of the case
     pc     : {"none", "script", "adding", "command", "start", "loadAction",
               "loadCommand", "loadAgain"} \cup Over,
     left   : Seq({"start", "wait"}),          \* the rest of its script
     known  : SUBSET ActionIds,                \* @actions of the singleton
     loaded : BOOLEAN,                         \* the singleton exists
     jobs   : 0 .. MaxJobs,                    \* actions it started
     waited : 0 .. MaxJobs,                    \* ... and waited for, in order
     result : Results]                         \* of the command it waits for
NoTester == [name |-> "none", pc |-> "none", left |-> <<>>, known |-> {}, loaded |-> FALSE,
             jobs |-> 0, waited |-> 0, result |-> NoResult]

VARIABLES
    action,    \* [ActionIds -> ActionRecs], the files
    job,       \* [Jobs -> JobRecs], the background processes
    tester     \* [Testers -> TesterRecs]

actionVars == <<action, job, tester>>

ActionsTypeOK ==
    /\ action \in [ActionIds -> ActionRecs]
    /\ job \in [Jobs -> JobRecs]
    /\ tester \in [Testers -> TesterRecs]

ActionsInit ==
    /\ action = [a \in ActionIds |-> NoAction]
    /\ job = [j \in Jobs |-> NoJob]
    /\ tester = [t \in Testers |-> NoTester]

Dirs == {a \in ActionIds : action[a].state # "none"}
\* Loading all actions opens the file of every command directory.
HalfMade == {a \in ActionIds : action[a].command = "made"}

\* The process ends; of what it was doing nothing is kept.
Over_(t, how) ==
    tester' = [tester EXCEPT ![t] = [@ EXCEPT !.pc = how, !.left = <<>>, !.known = {},
                                              !.loaded = FALSE, !.result = NoResult]]
Alive(t) == tester[t].pc \notin {"none"} \cup Over

-----------------------------------------------------------------------------
\* The test case.

Spawn(t, name, script) ==
    tester' = [tester EXCEPT ![t] = [NoTester EXCEPT !.name = name, !.pc = "script",
                                                     !.left = script]]

\* A driver did not do what the test asked for, or a wait for it timed out.
Fails(t) == tester[t].pc = "script" /\ Over_(t, "failed") /\ UNCHANGED <<action, job>>

\* Found out before anything is done.
Skips(t) ==
    /\ tester[t].pc = "script" /\ ~tester[t].loaded
    /\ Over_(t, "skipped")
    /\ UNCHANGED <<action, job>>

Passes(t) ==
    /\ tester[t].pc = "script" /\ tester[t].left = <<>>
    /\ Over_(t, "passed")
    /\ UNCHANGED <<action, job>>

NextIs(t, what) ==
    tester[t].pc = "script" /\ tester[t].left # <<>> /\ Head(tester[t].left) = what

\* Actions.instance: the first use loads all actions there are, once.
Instance(t) ==
    /\ NextIs(t, "start")
    /\ IF ~tester[t].loaded /\ HalfMade # {} THEN Over_(t, "raised")
       ELSE tester' = [tester EXCEPT ![t].pc = "adding", ![t].loaded = TRUE,
                          ![t].known = IF tester[t].loaded THEN @ ELSE Dirs]
    /\ UNCHANGED <<action, job>>

\* The lowest number the process does not know of.
NewId(t) == CHOOSE a \in ActionIds \ tester[t].known :
                \A b \in ActionIds \ tester[t].known : a <= b

\* Bounds: a number is left for the action and its job.
Room(t) == tester[t].known # ActionIds /\ tester[t].jobs < MaxJobs

\* A directory that exists is used.
AddAction_AnyDir(t) ==
    /\ tester[t].pc = "adding" /\ Room(t)
    /\ action' = [action EXCEPT ![NewId(t)] = [@ EXCEPT !.state = "pending"]]
    /\ job' = [job EXCEPT ![<<t, tester[t].jobs + 1>>].id = NewId(t)]
    /\ tester' = [tester EXCEPT ![t].pc = "command", ![t].known = @ \cup {NewId(t)}]

\* Somebody else may have made the directory since the load.
AddAction(t) ==
    /\ tester[t].pc = "adding" /\ Room(t)
    /\ IF NewId(t) \in Dirs THEN Over_(t, "raised") /\ UNCHANGED <<action, job>>
       ELSE /\ action' = [action EXCEPT ![NewId(t)].state = "pending"]
            /\ job' = [job EXCEPT ![<<t, tester[t].jobs + 1>>].id = NewId(t)]
            /\ tester' = [tester EXCEPT ![t].pc = "command",
                                        ![t].known = @ \cup {NewId(t)}]

Mine(t) == job[<<t, tester[t].jobs + 1>>].id

\* addCommand stores the action, then makes the command's directory; the file
\* comes with the next step.
AddCommand(t) ==
    /\ tester[t].pc = "command"
    /\ action' = [action EXCEPT ![Mine(t)].command = "made"]
    /\ tester' = [tester EXCEPT ![t].pc = "start"]
    /\ UNCHANGED job

\* The command's file, and start(): the state is stored again, and the process
\* is forked.
Start(t) ==
    /\ tester[t].pc = "start"
    /\ action' = [action EXCEPT ![Mine(t)] = [state |-> "pending", command |-> "pending"]]
    /\ job' = [job EXCEPT ![<<t, tester[t].jobs + 1>>].pc = "started"]
    /\ tester' = [tester EXCEPT ![t].pc = "script", ![t].left = Tail(@), ![t].jobs = @ + 1]

WaitsFor(t) == job[<<t, tester[t].waited + 1>>].id

BeginWait(t) ==
    /\ NextIs(t, "wait")
    /\ tester' = [tester EXCEPT ![t].pc = "loadAction"]
    /\ UNCHANGED <<action, job>>

\* What a load makes of the command's file: a truncated one has no result line.
ResultIn(a) == IF action[a].command \in Codes THEN action[a].command ELSE NoResult

\* The wait has no limit.
LoadAction_NoLimit(t) ==
    /\ tester[t].pc = "loadAction"
    /\ action[WaitsFor(t)].state = "done"
    /\ tester' = [tester EXCEPT ![t].pc = "loadCommand"]
    /\ UNCHANGED <<action, job>>

\* Once a second, for 30 seconds: the end of a slow command is not awaited.
LoadAction(t) ==
    /\ tester[t].pc = "loadAction"
    /\ IF action[WaitsFor(t)].state = "done"
       THEN tester' = [tester EXCEPT ![t].pc = "loadCommand"]
       ELSE Over_(t, "failed")
    /\ UNCHANGED <<action, job>>

LoadCommand(t) ==
    /\ tester[t].pc = "loadCommand"
    /\ tester' = [tester EXCEPT ![t].pc = "loadAgain", ![t].result = ResultIn(WaitsFor(t))]
    /\ UNCHANGED <<action, job>>

\* The command is loaded once more, over what the first load found.  Without a
\* result its code is 0, which no test expects.
LoadAgain(t) ==
    LET ret == IF ResultIn(WaitsFor(t)) # NoResult THEN ResultIn(WaitsFor(t)) ELSE tester[t].result
    IN /\ tester[t].pc = "loadAgain"
       /\ IF ret # "expected" THEN Over_(t, "raised")
          ELSE tester' = [tester EXCEPT ![t].pc = "script", ![t].left = Tail(@),
                                        ![t].waited = @ + 1, ![t].result = NoResult]
       /\ UNCHANGED <<action, job>>

KillTester(t) ==
    /\ Alive(t)
    /\ Over_(t, "killed")
    /\ UNCHANGED <<action, job>>

\* Running its script; what else a test case may do is up to the case.
RunScript(t) ==
    \/ Passes(t) \/ Instance(t) \/ AddAction(t) \/ AddCommand(t) \/ Start(t)
    \/ BeginWait(t) \/ LoadAction(t) \/ LoadCommand(t) \/ LoadAgain(t)

-----------------------------------------------------------------------------
\* The job.

JobTo(j, pc) == job' = [job EXCEPT ![j].pc = pc]

\* It loads all actions, its own among them, and refuses one that is not pending.
\* "running" is stored before the command is started.
LoadAndRun(j) ==
    LET a == job[j].id
    IN /\ job[j].pc = "started"
       /\ IF HalfMade # {} THEN JobTo(j, "raised") /\ UNCHANGED action
          ELSE IF action[a].state # "pending" THEN JobTo(j, "refused") /\ UNCHANGED action
          ELSE /\ action' = [action EXCEPT ![a] = [state |-> "running", command |-> "running"]]
               /\ JobTo(j, "running")
       /\ UNCHANGED tester

\* The command ends and its result is stored; it may never end.
CommandEnds(j) ==
    /\ job[j].pc = "running"
    /\ \E code \in Codes :
        /\ job' = [job EXCEPT ![j].pc = "stored", ![j].code = code]
        /\ action' = [action EXCEPT ![job[j].id].command = code]
    /\ UNCHANGED tester

\* The action with its stop time, ...
StoreAction(j) ==
    /\ job[j].pc = "stored"
    /\ action' = [action EXCEPT ![job[j].id].state = "done"]
    /\ JobTo(j, "stopped")
    /\ UNCHANGED tester

\* ... and then the command once more.
Truncate(j) ==
    /\ job[j].pc = "stopped"
    /\ action' = [action EXCEPT ![job[j].id].command = "empty"]
    /\ JobTo(j, "rewriting")
    /\ UNCHANGED tester

StoreCommand(j) ==
    /\ job[j].pc = "rewriting"
    /\ action' = [action EXCEPT ![job[j].id].command = job[j].code]
    /\ JobTo(j, "ended")
    /\ UNCHANGED tester

Job(j) == LoadAndRun(j) \/ StoreAction(j) \/ Truncate(j) \/ StoreCommand(j)

=============================================================================
