---------------------------- MODULE MCLiveGraph ----------------------------
(* Instances of the live graph for TLC: what planners may do to it. *)
EXTENDS LiveGraph

NoChange == [add |-> {}, connect |-> {}, cancel |-> {}, wait |-> {},
             resume |-> {}, finish |-> FALSE]

(* Two siblings, then a third node that needs them both; one of them may   *)
(* be cancelled, parked and resumed; the run may finish at any time.       *)
Expand   == [NoChange EXCEPT !.add = {1, 2}]
JoinUp   == [NoChange EXCEPT !.add = {3}, !.connect = {<<1, 3>>, <<2, 3>>}]
Drop2    == [NoChange EXCEPT !.cancel = {2}]
Finish   == [NoChange EXCEPT !.finish = TRUE]
Park3    == [NoChange EXCEPT !.add = {3}, !.wait = {3}]
Resume3  == [NoChange EXCEPT !.resume = {3}]
Drop3    == [NoChange EXCEPT !.cancel = {3}]
ParkBeside == [NoChange EXCEPT !.add = {1, 2, 3}, !.wait = {3}]
(* A patch apply_patch rolls back after it has inserted the node. *)
Cycle    == [NoChange EXCEPT !.add = {3}, !.connect = {<<1, 3>>, <<3, 1>>}]

(* Three siblings. *)
Spread   == [NoChange EXCEPT !.add = {1, 2, 3}]

MCNodes == 1..3
BasicPatches == {NoChange, Expand, JoinUp, Drop2, Finish}
ParkPatches == {ParkBeside, Park3, Resume3, Drop3, Cycle, Finish}
AllPatches == BasicPatches \cup ParkPatches
EndingPatches == {NoChange, Spread, Drop2, Finish}
=============================================================================
