------------------------------ MODULE MCTestEngine ------------------------------
(***************************************************************************)
(* Bundles for the test engine, small enough to run them to the end: one   *)
(* for the order of the cases, two that are run at random, three whose     *)
(* cases run commands in the background.                                   *)
(***************************************************************************)
EXTENDS TestEngine

MCNoCases == [initial |-> <<>>, main |-> <<>>, final |-> <<>>]

\* Two specifications around nothing but initial and final cases at the top, as in
\* conf/functional_bundle.xml.
MCOrdered ==
    [mode  |-> "sequential",
     top   |-> [initial |-> <<"start_all">>, main |-> <<>>, final |-> <<"stop_all">>],
     specs |-> << [initial |-> <<>>, main |-> <<"off", "lck">>, final |-> <<"lck_close">>],
                  [initial |-> <<"clm_init">>, main |-> <<>>, final |-> <<>>] >>]

MCRandom ==
    [mode  |-> "random",
     top   |-> [initial |-> <<>>, main |-> <<>>, final |-> <<"stop_all">>],
     specs |-> << [initial |-> <<>>, main |-> <<"off", "lck", "clm">>, final |-> <<>>] >>]

\* Nothing is enabled for the random choice.
MCNothing ==
    [mode  |-> "random",
     top   |-> [initial |-> <<"start_all">>, main |-> <<>>, final |-> <<"stop_all">>],
     specs |-> << [initial |-> <<>>, main |-> <<"off">>, final |-> <<>>] >>]

MCInTurn ==
    [mode  |-> "sequential",
     top   |-> MCNoCases,
     specs |-> << [initial |-> <<>>, main |-> <<"dispatch", "sync">>, final |-> <<>>] >>]

MCAtOnce ==
    [mode  |-> "sequential",
     top   |-> MCNoCases,
     specs |-> << [initial |-> <<>>, main |-> <<"sync2">>, final |-> <<>>] >>]

MCAlone ==
    [mode  |-> "sequential",
     top   |-> MCNoCases,
     specs |-> << [initial |-> <<>>, main |-> <<"sync">>, final |-> <<>>] >>]

MCBundles == {MCOrdered, MCRandom, MCNothing, MCInTurn, MCAtOnce, MCAlone}
MCTwice   == {MCNothing, MCAlone}
MCCases == {"start_all", "stop_all", "off", "lck", "lck_close", "clm_init", "clm", "sync",
            "dispatch", "sync2"}
MCScript == [c \in MCCases |->
    CASE c = "sync"     -> <<"start", "wait">>
      [] c = "sync2"    -> <<"start", "start", "wait", "wait">>
      [] c = "dispatch" -> <<"start">>
      [] OTHER          -> <<>>]
MCDisabled == {"off"}
MCFailing  == {"start_all", "lck"}
MCSkipping == {"lck"}

=============================================================================
