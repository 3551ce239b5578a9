------------------------- MODULE MCSchedulerElection -------------------------
(* Instances of SchedulerElection: two processes.                          *)
EXTENDS SchedulerElection, TLC
CONSTANTS a1, a2, b1, pa, pb

TwoAndOne == a1 :> pa @@ a2 :> pa @@ b1 :> pb

Quiet == [calls |-> Call, versions |-> {1}, restarts |-> 0, idle |-> {}, disposing |-> {},
          mortal |-> {}, flaky |-> {}]

\* A config change between calls; a handover by idling out, failing tasks or
\* death; a disposal in the middle of either; a state file that fails, also
\* under a config change.
NewConfig == [Quiet EXCEPT !.versions = {1, 2}]
Handover  == [Quiet EXCEPT !.restarts = 1, !.idle = {a1}]
Death     == [Quiet EXCEPT !.restarts = 1, !.calls = {a1, b1}, !.mortal = {pb}, !.versions = {1, 2}]
Disposal  == [Quiet EXCEPT !.restarts = 1, !.disposing = {pa}]
BadFile   == [Quiet EXCEPT !.restarts = 1, !.calls = {a1, b1}, !.flaky = Process, !.idle = {a1}]
BadChange == [Quiet EXCEPT !.calls = {a1, a2}, !.versions = {1, 2}, !.flaky = {pa}]
FreshLeader == {Handover}
All       == {NewConfig, Handover, Death, Disposal, BadFile, BadChange}
=============================================================================
