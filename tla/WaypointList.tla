---------------------------- MODULE WaypointList ----------------------------
(***************************************************************************)
(* What a server of FollowWaypoints promises: it works through one list at *)
(* a time, a list is reported as succeeded only when every waypoint of it  *)
(* is accounted for, each once, and a list given up (cancelled, replaced   *)
(* or stopped at a failure) is not reported as succeeded.                  *)
(***************************************************************************)
EXTENDS Integers

VARIABLES
    waypoints,  \* how many waypoints the list has, NoList when there is none
    settled,    \* how many of them are accounted for
    verdict     \* what was reported of the last list that ended

NoList == -1

listVars == <<waypoints, settled, verdict>>

ListInit == waypoints = NoList /\ settled = 0 /\ verdict = "none"

\* A list is taken up; the one being worked through, if any, is replaced.
Take ==
    /\ waypoints' \in Nat /\ settled' = 0
    /\ UNCHANGED verdict

\* One more waypoint was reached or has failed.
Settle ==
    /\ waypoints # NoList /\ settled < waypoints
    /\ settled' = settled + 1
    /\ UNCHANGED <<waypoints, verdict>>

Complete ==
    /\ waypoints # NoList /\ settled = waypoints
    /\ waypoints' = NoList /\ settled' = 0 /\ verdict' = "succeeded"

GiveUp ==
    /\ waypoints # NoList
    /\ waypoints' = NoList /\ settled' = 0 /\ verdict' = "terminated"

ListNext == Take \/ Settle \/ Complete \/ GiveUp

ListSpec == ListInit /\ [][ListNext]_listVars
=============================================================================
