---------------------------- MODULE MCAutonomyLoop ----------------------------
(* Small instances of AutonomyLoop, as setups among which Init chooses. *)
EXTENDS AutonomyLoop, TLC

CONSTANTS g1, g2, g3

OneNeedsAnother == (g1 :> {}) @@ (g2 :> {g1}) @@ (g3 :> {})

\* The governor alone takes two goals one after the other, two goals apart, and
\* a finished roadmap into continuous excellence.
InARow == [actions |-> {"governor"}, roadmap |-> {g1, g2}, signal |-> FALSE,
           checks |-> {"green", "red"}, events |-> {"merged", "signal"},
           incidents |-> 1, meddling |-> 1]
Apart == [InARow EXCEPT !.roadmap = {g1, g3}, !.checks = {"green"}, !.meddling = 0]
Improving == [actions |-> {"governor"}, roadmap |-> {g1}, signal |-> TRUE,
              checks |-> {"green"}, events |-> {"merged"},
              incidents |-> 1, meddling |-> 1]

\* The governor and the two CI recoveries, on one goal.
Repairing == [actions |-> {"governor", "repair", "rerun"}, roadmap |-> {g1},
              signal |-> FALSE, checks |-> {"red", "flaky"}, events |-> {"failed"},
              incidents |-> 1, meddling |-> 0]
Pushed == [Repairing EXCEPT !.checks = {"red"}, !.meddling = 1]

\* All that build_runtime_from_env installs, on one goal: with people at work
\* and an incident, with checks that lack a required workflow, and with enough
\* incidents to exhaust a path, of a merge or of a check.
Production == [actions |-> Actions, roadmap |-> {g1}, signal |-> FALSE,
               checks |-> {"green"}, events |-> {"merged", "passed"},
               incidents |-> 1, meddling |-> 1]
Lacking == [Production EXCEPT !.checks = {"green", "partial"}, !.incidents = 0]
MergeFailing == [Production EXCEPT !.incidents = 2, !.meddling = 0]
CheckFailing == [MergeFailing EXCEPT !.checks = {"green", "red"}, !.events = {"passed", "failed"}]

LoopSetups == {InARow, Apart, Improving, Repairing, Pushed,
               Production, Lacking, MergeFailing, CheckFailing}
Undisturbed == {[Production EXCEPT !.incidents = 0, !.meddling = 0]}
=============================================================================
