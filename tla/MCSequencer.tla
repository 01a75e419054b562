----------------------------- MODULE MCSequencer -----------------------------
(* Instances of WaypointSequencer: lists of one to three waypoints.          *)
EXTENDS WaypointSequencer

Stopping(actions) == [through |-> FALSE, actions |-> actions]
Passing == [through |-> TRUE, actions |-> <<>>]

Trees == {"default.xml", "normal.xml", "queue_wait.xml"}
\* a pass-through point, then a mode switch; the next round starts in that mode
Mixed == << Passing, Stopping(<<"queue_wait">>) >>
Trigger == << Stopping(<<"wait_trigger">>), Stopping(<<>>) >>
Plain == << Stopping(<<>>) >>

MixedOnly == {Mixed}
TriggerAndPlain == {Trigger, Plain}
OneWaypoint == {<<Stopping(<<>>)>>}
ActionThenGoal == {<<Stopping(<<"queue_wait">>), Stopping(<<>>)>>}
=============================================================================
