--------------------------- MODULE NavigatorCaller ---------------------------
(***************************************************************************)
(* WaypointNavigator under any caller that makes one call at a time (the   *)
(* FSM calls it under its own lock) and, like the waypoint sequence, sends *)
(* the next goal only when the previous one was reported or cancelled.     *)
(***************************************************************************)
EXTENDS WaypointNavigator

CONSTANT MaxGoals       \* bound on the goals the caller sends
ASSUME MaxGoalsAssumption == MaxGoals \in Nat

CallSendGoal ==
    /\ goalId < MaxGoals
    /\ ~active
    /\ \E to \in Callbacks, bt \in BTs, th \in BOOLEAN :
         \/ SendGoal(to, bt, th)
         \/ SendGoalNoServer(to, th)
    /\ UNCHANGED reports

CallCancel ==
    /\ Cancel
    /\ UNCHANGED reports

Deliver(r) ==
    /\ reports' = reports \ {r}
    /\ UNCHANGED <<logicalVars, liveVars, goals, wire>>

NavNext ==
    \/ CallSendGoal
    \/ CallCancel
    \/ \E r \in reports : Deliver(r)
    \/ CallbackStep
    \/ Nav2Step

NavSpec == NavInit /\ [][NavNext]_navVars

=============================================================================
