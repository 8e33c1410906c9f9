\* Six bundles, up to two runs, two processes killed.
SPECIFICATION Spec
CONSTANTS
    Cases <- MCCases
    Bundles <- MCBundles
    Disabled <- MCDisabled
    Script <- MCScript
    Failing <- MCFailing
    Skipping <- MCSkipping
    MaxTesters = 5
    MaxActions = 3
    MaxJobs = 2
    MaxEngines = 2
    Twice <- MCTwice
    MaxMain = 2
    MaxKills = 2
INVARIANTS TypeOK ReportTellsTheTruth StatusIsTrue RunFollowsBundle HaltsSoon PassedMeansReturned
PROPERTY RunEnds
CHECK_DEADLOCK FALSE
