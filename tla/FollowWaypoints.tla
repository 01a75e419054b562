-------------------------- MODULE FollowWaypoints --------------------------
(***************************************************************************)
(* The FollowWaypoints action server of mg_navigation (waypoint_navigator  *)
(* .cpp): a lifecycle node whose execute thread sends the waypoints of a   *)
(* list one by one to navigate_to_pose and counts the failed ones.  It     *)
(* spins its client's callbacks itself, so a callback that waits stops it. *)
(*                                                                         *)
(* Goal requests and cancels arrive on the other thread between any two    *)
(* steps of the loop.  Nav2 (external) answers each goal with a response   *)
(* and later a result; a goal it accepts ends the one it was running.      *)
(***************************************************************************)
EXTENDS Integers, Sequences, FiniteSets

CONSTANTS
    MaxList,        \* lists have 0 .. MaxList waypoints
    MaxNavGoals,    \* bound on the goals sent to Nav2
    MaxRequests     \* bound on the lists requested

ASSUME FollowAssumption ==
    MaxList \in Nat /\ MaxNavGoals \in Nat /\ MaxRequests \in Nat

VARIABLES
    life,           \* the lifecycle state of the node
    srv,            \* the action server: current and pending list, cancel flag
    thread,         \* the execute thread: where it is, the list and the index
    status,         \* current_goal_status_
    failedIds,      \* failed_ids_, each with the list it was recorded for
    stopOnFailure,  \* stop_on_failure_
    goals,          \* the goals sent to Nav2, in order
    report          \* the result published last

followVars == <<life, srv, thread, status, failedIds, stopOnFailure, goals, report>>

NoGoal == [id |-> 0, len |-> 0]

\* The steps of the execute thread; "blocked" is inside future_goal_handle_.get().
Idle == [at |-> "idle", list |-> NoGoal, index |-> 0, newGoal |-> FALSE]

FollowInit ==
    /\ life = "unconfigured"
    /\ srv = [active |-> FALSE, current |-> NoGoal, pending |-> NoGoal,
              cancel |-> FALSE, requests |-> 0]
    /\ thread = Idle
    /\ status = "unknown"
    /\ failedIds = <<>>
    /\ stopOnFailure = TRUE
    /\ goals = <<>>
    /\ report = [verdict |-> "none", list |-> 0, missed |-> <<>>]

-----------------------------------------------------------------------------
(* Lifecycle and parameters.                                               *)

OnConfigure ==
    /\ life = "unconfigured"
    /\ life' = "inactive"
    /\ UNCHANGED <<srv, thread, status, failedIds, stopOnFailure, goals, report>>

OnActivate ==
    /\ life = "inactive"
    /\ life' = "active"
    /\ srv' = [srv EXCEPT !.active = TRUE]
    /\ UNCHANGED <<thread, status, failedIds, stopOnFailure, goals, report>>

\* The action server terminates its goals and waits for the execute thread, which
\* therefore is at rest when the node is deactivated.
OnDeactivate ==
    /\ life = "active" /\ thread.at = "idle"
    /\ life' = "inactive"
    /\ srv' = [srv EXCEPT !.active = FALSE, !.current = NoGoal, !.pending = NoGoal,
                          !.cancel = FALSE]
    /\ report' = IF srv.current = NoGoal THEN report
                 ELSE [verdict |-> "terminated", list |-> srv.current.id, missed |-> <<>>]
    /\ UNCHANGED <<thread, status, failedIds, stopOnFailure, goals>>

SetStopOnFailure(value) ==
    /\ life = "active"
    /\ stopOnFailure' = value
    /\ UNCHANGED <<life, srv, thread, status, failedIds, goals, report>>

-----------------------------------------------------------------------------
(* The action server (nav2_util, external): a request while a list is at   *)
(* work is pending and preempts it; a cancel is a flag the loop reads.     *)

Rests == srv.current = NoGoal /\ srv.pending = NoGoal /\ thread.at = "idle"

Request(n) ==
    /\ srv.active /\ life = "active" /\ srv.requests < MaxRequests
    /\ LET list == [id |-> srv.requests + 1, len |-> n]
       IN  srv' = [srv EXCEPT !.requests = @ + 1,
                              !.current = IF Rests THEN list ELSE @,
                              !.pending = IF Rests THEN NoGoal ELSE list]
    /\ UNCHANGED <<life, thread, status, failedIds, stopOnFailure, goals, report>>

RequestCancel ==
    /\ srv.active /\ srv.current # NoGoal /\ ~srv.cancel
    /\ srv' = [srv EXCEPT !.cancel = TRUE]
    /\ UNCHANGED <<life, thread, status, failedIds, stopOnFailure, goals, report>>

\* A list that was pending when the other ended is executed next.
AcceptPending ==
    /\ thread.at = "idle" /\ srv.current = NoGoal /\ srv.pending # NoGoal
    /\ srv' = [srv EXCEPT !.current = srv.pending, !.pending = NoGoal]
    /\ UNCHANGED <<life, thread, status, failedIds, stopOnFailure, goals, report>>

\* The list ends with the verdict.
Conclude(verdict, missed) ==
    /\ report' = [verdict |-> verdict, list |-> srv.current.id, missed |-> missed]
    /\ srv' = [srv EXCEPT !.current = NoGoal, !.cancel = FALSE]
    /\ thread' = Idle

-----------------------------------------------------------------------------
(* followWaypoints.                                                        *)

Execute ==
    /\ thread.at = "idle" /\ srv.current # NoGoal
    /\ IF srv.current.len = 0
       THEN Conclude("succeeded", <<>>)
       ELSE /\ thread' = [at |-> "cancel", list |-> srv.current, index |-> 0,
                          newGoal |-> TRUE]
            /\ UNCHANGED <<srv, report>>
    /\ UNCHANGED <<life, status, failedIds, stopOnFailure, goals>>

\* Cancelled: every goal at Nav2 is cancelled, and the lists are terminated.
CancelAll ==
    /\ thread.at = "cancel" /\ srv.cancel
    /\ goals' = [i \in DOMAIN goals |->
                   IF goals[i].state = "running"
                   THEN [goals[i] EXCEPT !.state = "ended", !.code = "canceled"]
                   ELSE goals[i]]
    /\ thread' = [thread EXCEPT !.at = "canceling"]
    /\ UNCHANGED <<life, srv, status, failedIds, stopOnFailure, report>>

TerminateAll ==
    /\ thread.at = "canceling"
    /\ report' = [verdict |-> "terminated", list |-> srv.current.id, missed |-> <<>>]
    /\ srv' = [srv EXCEPT !.current = NoGoal, !.pending = NoGoal, !.cancel = FALSE]
    /\ thread' = Idle
    /\ UNCHANGED <<life, status, failedIds, stopOnFailure, goals>>

\* Preempted by a pending list, or not; then the goal of the waypoint is sent.
SendGoal ==
    /\ thread.at = "cancel" /\ ~srv.cancel /\ Len(goals) < MaxNavGoals
    /\ srv.pending = NoGoal \/ srv.pending.len > 0
    /\ LET preempt == srv.pending # NoGoal
           list    == IF preempt THEN srv.pending ELSE thread.list
           index   == IF preempt THEN 0 ELSE thread.index
           send    == preempt \/ thread.newGoal
       IN  /\ srv' = IF preempt
                     THEN [srv EXCEPT !.current = srv.pending, !.pending = NoGoal]
                     ELSE srv
           /\ thread' = [at |-> "process", list |-> list, index |-> index,
                         newGoal |-> FALSE]
           /\ goals' = IF send
                       THEN Append(goals, [list |-> list.id, index |-> index,
                                           state |-> "sent", code |-> "none"])
                       ELSE goals
           /\ status' = IF send THEN "processing" ELSE status
    /\ UNCHANGED <<life, failedIds, stopOnFailure, report>>

\* A preempting list is not checked for being empty: its first pose is read from
\* an empty vector, whose data pointer is null, and the process dies.
PreemptedByEmpty ==
    /\ thread.at = "cancel" /\ ~srv.cancel
    /\ srv.pending # NoGoal /\ srv.pending.len = 0
    /\ life' = "dead" /\ thread' = [thread EXCEPT !.at = "dead"]
    /\ srv' = [srv EXCEPT !.active = FALSE]
    /\ UNCHANGED <<status, failedIds, stopOnFailure, goals, report>>

Missed == failedIds \o <<[list |-> thread.list.id, index |-> thread.index]>>

\* Nothing final yet: the loop goes on to its callbacks.
Wait ==
    /\ thread.at = "process" /\ status \in {"processing", "unknown"}
    /\ thread' = [thread EXCEPT !.at = "spin"]
    /\ UNCHANGED <<life, srv, status, failedIds, stopOnFailure, goals, report>>

\* The waypoint is over: the failure is recorded, or its task is executed, and
\* the loop stops at a failure, goes on, or has finished the list.
Processed(taskDone) ==
    /\ thread.at = "process" /\ status \in {"failed", "succeeded"}
    /\ LET bad    == status = "failed" \/ ~taskDone
           missed == IF status = "failed" \/ (bad /\ stopOnFailure) THEN Missed ELSE failedIds
           over   == thread.index + 1 >= thread.list.len
       IN  IF (bad /\ stopOnFailure) \/ over
           THEN /\ Conclude(IF bad /\ stopOnFailure THEN "terminated" ELSE "succeeded", missed)
                /\ failedIds' = <<>>
           ELSE /\ thread' = [thread EXCEPT !.at = "spin", !.index = @ + 1, !.newGoal = TRUE]
                /\ failedIds' = missed
                /\ UNCHANGED <<srv, report>>
    /\ UNCHANGED <<life, status, stopOnFailure, goals>>

-----------------------------------------------------------------------------
(* spin_some: callbacks of the client, any number of them.                 *)

\* The thread that runs the callbacks: the loop's spin_some, or the wait for the
\* answer to the cancel.
Spinning == thread.at \in {"spin", "canceling"}

\* goalResponseCallback: a rejected goal failed.
GoalResponse(i) ==
    /\ Spinning /\ goals[i].state \in {"accepted", "rejected"}
    /\ goals' = [goals EXCEPT ![i].state = IF @ = "accepted" THEN "running" ELSE "settled"]
    /\ status' = IF goals[i].state = "rejected" THEN "failed" ELSE status
    /\ UNCHANGED <<life, srv, thread, failedIds, stopOnFailure, report>>

\* The handle of the goal sent last has not arrived: get() waits for it, and the
\* only thread that could deliver it is the one that waits.
HandleIsHere == goals[Len(goals)].state \notin {"sent", "accepted", "rejected"}

\* mutated form: the goal of the result is not compared
ResultOfAny(i) ==
    /\ Spinning /\ goals[i].state = "ended"
    /\ IF ~HandleIsHere
       THEN /\ thread' = [thread EXCEPT !.at = "blocked"]
            /\ UNCHANGED <<status, goals>>
       ELSE /\ goals' = [goals EXCEPT ![i].state = "settled"]
            /\ status' = CASE goals[i].code = "succeeded" -> "succeeded"
                           [] goals[i].code \in {"aborted", "canceled"} -> "failed"
                           [] OTHER -> "unknown"
            /\ UNCHANGED thread
    /\ UNCHANGED <<life, srv, failedIds, stopOnFailure, report>>

\* resultCallback: a result of an older goal is ignored.
ResultOf(i) ==
    /\ Spinning /\ goals[i].state = "ended"
    /\ IF ~HandleIsHere
       THEN /\ thread' = [thread EXCEPT !.at = "blocked"]
            /\ UNCHANGED <<status, goals>>
       ELSE /\ goals' = [goals EXCEPT ![i].state = "settled"]
            /\ status' = IF i # Len(goals) THEN status
                         ELSE CASE goals[i].code = "succeeded" -> "succeeded"
                                [] goals[i].code \in {"aborted", "canceled"} -> "failed"
                                [] OTHER -> "unknown"
            /\ UNCHANGED thread
    /\ UNCHANGED <<life, srv, failedIds, stopOnFailure, report>>

SpinSomeDone ==
    /\ thread.at = "spin"
    /\ thread' = [thread EXCEPT !.at = "cancel"]
    /\ UNCHANGED <<life, srv, status, failedIds, stopOnFailure, goals, report>>

-----------------------------------------------------------------------------
(* navigate_to_pose (external).                                            *)

NavResponds(i, answer) ==
    /\ goals[i].state = "sent" /\ answer \in {"accepted", "rejected"}
    /\ goals' = [goals EXCEPT ![i].state = answer]
    /\ UNCHANGED <<life, srv, thread, status, failedIds, stopOnFailure, report>>

NavEnds(i, code) ==
    /\ goals[i].state = "running" /\ code \in {"succeeded", "aborted", "canceled"}
    /\ goals' = [goals EXCEPT ![i].state = "ended", ![i].code = code]
    /\ UNCHANGED <<life, srv, thread, status, failedIds, stopOnFailure, report>>

-----------------------------------------------------------------------------
FollowNext ==
    \/ OnConfigure \/ OnActivate \/ OnDeactivate
    \/ \E v \in BOOLEAN : v # stopOnFailure /\ SetStopOnFailure(v)
    \/ \E n \in 0 .. MaxList : Request(n)
    \/ AcceptPending \/ PreemptedByEmpty \/ RequestCancel \/ Execute
    \/ CancelAll \/ TerminateAll \/ SendGoal \/ Wait
    \/ \E t \in BOOLEAN : Processed(t)
    \/ SpinSomeDone
    \/ \E i \in DOMAIN goals :
         \/ GoalResponse(i) \/ ResultOf(i)
         \/ \E a \in {"accepted", "rejected"} : NavResponds(i, a)
         \/ \E c \in {"succeeded", "aborted", "canceled"} : NavEnds(i, c)

FollowSpec == FollowInit /\ [][FollowNext]_followVars

-----------------------------------------------------------------------------
(* Properties.                                                             *)

\* The waypoints of the list at work that are accounted for: their own goal was
\* answered, or the loop counts them as failed.
Accounted(list) ==
    {goals[i].index : i \in {j \in DOMAIN goals : goals[j].list = list
                                                  /\ goals[j].state = "settled"}}
      \cup {failedIds[i].index : i \in {j \in DOMAIN failedIds : failedIds[j].list = list}}
      \cup (IF status = "failed" /\ thread.list.id = list /\ ~thread.newGoal
            THEN {thread.index} ELSE {})

Promise == INSTANCE WaypointList WITH
    waypoints <- IF srv.current = NoGoal THEN -1 ELSE srv.current.len,
    settled   <- IF srv.current = NoGoal THEN 0
                 ELSE Cardinality(Accounted(srv.current.id)),
    verdict   <- report.verdict

\* The loop, with its two threads, its stale results and its preemptions, keeps
\* the promise of WaypointList: no list is reported as succeeded before each of
\* its waypoints is accounted for.  A waypoint counts as reached only by the
\* answer to its own goal, whatever answers to older goals come late.
KeepsItsPromise == Promise!ListSpec
=============================================================================
