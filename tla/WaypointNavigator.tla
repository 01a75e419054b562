-------------------------- MODULE WaypointNavigator --------------------------
(***************************************************************************)
(* The Nav2 action client of the waypoint sequencer                        *)
(* (waypoint_sequencer/navigator.py).                                      *)
(*                                                                         *)
(* The class keeps a LOGICAL goal (the one its caller believes to be       *)
(* running, numbered by goalId) apart from the LIVE goal (the latest goal  *)
(* sent to Nav2, numbered by its position in the sequence goals).  Every   *)
(* region under the class's lock is one action; what a callback does after *)
(* it has released the lock is a later action, kept in goals[n].cb (where  *)
(* the callback of goal n stands) and in reports (results on their way to  *)
(* the caller).  Nav2's action server is external.                         *)
(***************************************************************************)
EXTENDS Integers, Sequences

CONSTANTS BTs,          \* behaviour trees a goal can ask for
          DefaultBT,    \* Nav2's own tree (the empty file name)
          Callbacks     \* result callbacks a caller can pass to send_goal

ASSUME BTsAssumption == DefaultBT \in BTs
ASSUME CallbacksAssumption == "None" \notin Callbacks

VARIABLES
    \* the logical goal
    goalId, active, resultCallback, through, planAdopted,
    \* the live goal; its sequence number is Len(goals)
    liveState, liveBt, liveCanceling, onLiveIdle,
    \* every goal handed to Nav2, with its callback's position
    goals,
    \* results taken out of _finish whose callback has not run yet
    reports,
    \* goal requests between the action client and the action server
    wire

logicalVars == <<goalId, active, resultCallback, through, planAdopted>>
liveVars == <<liveState, liveBt, liveCanceling, onLiveIdle>>
navVars == <<logicalVars, liveVars, goals, reports, wire>>

Results == {"SUCCEEDED", "PASSED", "CANCELED", "FAILED"}

\* A send waiting in _on_live_idle; gid 0 stands for None.
NoDispatch == [gid |-> 0, bt |-> DefaultBT]
Dispatches == [gid : Nat, bt : BTs]

Ended == {"succeeded", "canceled", "aborted", "rejected"}

(***************************************************************************)
(* A goal handed to Nav2.  srv is its state at the server: unsent (the     *)
(* sending thread is between the lock and send_goal_async), wire, running  *)
(* or ended.  cb is the position of its client callback: response and      *)
(* result wait for the server, finish is before _finish, idle before the   *)
(* trailing on_idle() call, done after it.                                 *)
(***************************************************************************)
Goals == [gid : Nat \ {0}, bt : BTs,
          srv : {"unsent", "wire", "running"} \cup Ended,
          cancelRequested : BOOLEAN,
          cb : {"response", "result", "finish", "idle", "done"},
          res : Results,
          onIdle : Dispatches]

Reports == [gid : Nat, res : Results, to : Callbacks, by : Nat]

liveSeq == Len(goals)
Running == {n \in 1..Len(goals) : goals[n].srv = "running"}

NavInit ==
    /\ goalId = 0 /\ active = FALSE /\ through = FALSE /\ planAdopted = FALSE
    /\ resultCallback = "None"
    /\ liveState = "NONE" /\ liveBt = DefaultBT /\ liveCanceling = FALSE
    /\ onLiveIdle = NoDispatch
    /\ goals = <<>> /\ reports = {} /\ wire = <<>>

-----------------------------------------------------------------------------
(* Operators evaluated inside one locked region.                           *)

IsCurrent(gid) == active /\ gid = goalId

\* goals after a cancel request for the live goal, when its handle is known
CancelRequested ==
    IF liveState = "ACTIVE" /\ ~liveCanceling
    THEN [goals EXCEPT ![liveSeq].cancelRequested = TRUE]
    ELSE goals

\* mutated form: the cancel request is not sent
BeginCancelLiveSilently ==
    /\ liveCanceling' = (liveState # "NONE" \/ liveCanceling)
    /\ UNCHANGED goals

\* mutated form: a goal whose acceptance is not known yet is left alone
BeginCancelLiveAccepted ==
    /\ liveCanceling' = (liveState = "ACTIVE" \/ liveCanceling)
    /\ goals' = CancelRequested

BeginCancelLive ==
    /\ liveCanceling' = (liveState # "NONE" \/ liveCanceling)
    /\ goals' = CancelRequested

NewGoal(gid, bt, srv) ==
    [gid |-> gid, bt |-> bt, srv |-> srv, cancelRequested |-> FALSE,
     cb |-> "response", res |-> "FAILED", onIdle |-> NoDispatch]

\* mutated form: the behaviour tree is not compared
CanSendAnyTree(bt) == liveState = "NONE" \/ ~liveCanceling

CanSend(bt) == liveState = "NONE" \/ (~liveCanceling /\ liveBt = bt)

\* _dispatch for a current goal; sent tells whether send_goal_async happens
\* in the same step (nothing can come between them) or in Transmit.
Dispatch(gid, bt, sent) ==
    IF CanSend(bt)
    THEN /\ liveState' = "PENDING" /\ liveBt' = bt /\ liveCanceling' = FALSE
         /\ goals' = Append(goals, NewGoal(gid, bt, IF sent THEN "wire" ELSE "unsent"))
         /\ wire' = IF sent THEN Append(wire, Len(goals) + 1) ELSE wire
         /\ UNCHANGED onLiveIdle
    ELSE /\ onLiveIdle' = [gid |-> gid, bt |-> bt]
         /\ BeginCancelLive
         /\ UNCHANGED <<liveState, liveBt, wire>>

\* _mark_live_done(n) seen from the live goal's variables
MarkLiveDone(n) ==
    IF n = liveSeq
    THEN /\ liveState' = "NONE" /\ liveCanceling' = FALSE /\ onLiveIdle' = NoDispatch
         /\ UNCHANGED liveBt
    ELSE UNCHANGED liveVars

\* ... and the waiting send it hands back
TakenIdle(n) == IF n = liveSeq THEN onLiveIdle ELSE NoDispatch

-----------------------------------------------------------------------------
(* The caller's two operations.  Between the region that installs the      *)
(* logical goal and _dispatch the caller only waits for the server, and no *)
(* other thread reads what the first region wrote except to compare the    *)
(* goal id, so the two regions are one step.                               *)

NewLogicalGoal(to, th) ==
    /\ goalId' = goalId + 1
    /\ resultCallback' = to
    /\ through' = th
    /\ planAdopted' = FALSE

SendGoal(to, bt, th) ==
    /\ NewLogicalGoal(to, th)
    /\ active' = TRUE
    /\ Dispatch(goalId + 1, bt, TRUE)

\* The server is unavailable only while it has nothing to do and is sent
\* nothing: bt_navigator ends its goals before it takes its action server down,
\* and requests sent into the gap are not modelled (external).
ServerMayBeGone ==
    \A n \in 1..Len(goals) : goals[n].srv \notin {"unsent", "wire", "running"}

\* wait_for_server timed out: _finish(FAILED) in the caller's own thread, so
\* the caller's callback runs before send_goal returns.
SendGoalNoServer(to, th) ==
    /\ ServerMayBeGone
    /\ NewLogicalGoal(to, th)
    /\ active' = FALSE
    /\ UNCHANGED <<liveVars, goals, wire>>

\* mutated form: the waiting send survives the cancellation
CancelKeepsWaiting ==
    /\ active' = FALSE
    /\ BeginCancelLive
    /\ UNCHANGED <<goalId, resultCallback, through, planAdopted,
                   liveState, liveBt, onLiveIdle, wire>>

Cancel ==
    /\ active' = FALSE
    /\ onLiveIdle' = NoDispatch
    /\ BeginCancelLive
    /\ UNCHANGED <<goalId, resultCallback, through, planAdopted,
                   liveState, liveBt, wire>>

-----------------------------------------------------------------------------
(* Callbacks of the action client and of the plan subscription; they run   *)
(* concurrently (ReentrantCallbackGroup, MultiThreadedExecutor).           *)

\* _goal_response_callback up to the release of the lock
ResponseCallback(n) ==
    /\ n \in 1..Len(goals)
    /\ goals[n].cb = "response" /\ goals[n].srv \notin {"unsent", "wire"}
    /\ \/ /\ goals[n].srv = "rejected"
          /\ goals' = [goals EXCEPT ![n].cb = "finish", ![n].res = "FAILED",
                                    ![n].onIdle = TakenIdle(n)]
          /\ MarkLiveDone(n)
       \/ /\ goals[n].srv # "rejected" /\ n # liveSeq
          /\ goals' = [goals EXCEPT ![n].cb = "done"]
          /\ UNCHANGED liveVars
       \/ /\ goals[n].srv # "rejected" /\ n = liveSeq
          /\ liveState' = "ACTIVE"
          /\ goals' = [goals EXCEPT ![n].cb = "result",
                            ![n].cancelRequested = @ \/ liveCanceling]
          /\ UNCHANGED <<liveBt, liveCanceling, onLiveIdle>>
    /\ UNCHANGED <<logicalVars, reports, wire>>

ResultOf(srv) == CASE srv = "succeeded" -> "SUCCEEDED"
                   [] srv = "canceled"  -> "CANCELED"
                   [] OTHER             -> "FAILED"

\* _result_done_callback up to the call of _finish
ResultDoneCallback(n) ==
    /\ n \in 1..Len(goals)
    /\ goals[n].cb = "result" /\ goals[n].srv \in Ended
    /\ goals' = [goals EXCEPT ![n].cb = "finish",
                              ![n].res = ResultOf(goals[n].srv),
                              ![n].onIdle = TakenIdle(n)]
    /\ MarkLiveDone(n)
    /\ UNCHANGED <<logicalVars, reports, wire>>

\* the locked region of _finish, called by the callback of goal n
Finish(n) ==
    /\ n \in 1..Len(goals)
    /\ goals[n].cb = "finish"
    /\ goals' = [goals EXCEPT ![n].cb = "idle"]
    /\ IF IsCurrent(goals[n].gid)
       THEN /\ active' = FALSE
            /\ reports' = reports \cup
                 {[gid |-> goalId, res |-> goals[n].res, to |-> resultCallback, by |-> n]}
       ELSE UNCHANGED <<active, reports>>
    /\ UNCHANGED <<goalId, resultCallback, through, planAdopted, liveVars, wire>>

\* the trailing on_idle() of the callback of goal n, once _finish returned
RunOnIdle(n) ==
    /\ n \in 1..Len(goals)
    /\ goals[n].cb = "idle"
    /\ \A r \in reports : r.by # n
    /\ LET next == goals[n].onIdle
       IN  IF IsCurrent(next.gid)
           THEN \/ /\ CanSend(next.bt)
                   /\ liveState' = "PENDING" /\ liveBt' = next.bt
                   /\ liveCanceling' = FALSE
                   /\ goals' = Append([goals EXCEPT ![n].cb = "done"],
                                      NewGoal(next.gid, next.bt, "unsent"))
                   /\ UNCHANGED onLiveIdle
                \/ /\ ~CanSend(next.bt)
                   /\ onLiveIdle' = next
                   /\ liveCanceling' = TRUE
                   /\ goals' = [CancelRequested EXCEPT ![n].cb = "done"]
                   /\ UNCHANGED <<liveState, liveBt>>
           ELSE /\ goals' = [goals EXCEPT ![n].cb = "done"]
                /\ UNCHANGED liveVars
    /\ UNCHANGED <<logicalVars, reports, wire>>

\* send_goal_async of a goal dispatched by RunOnIdle, outside the lock
Transmit(n) ==
    /\ n \in 1..Len(goals)
    /\ goals[n].srv = "unsent"
    /\ goals' = [goals EXCEPT ![n].srv = "wire"]
    /\ wire' = Append(wire, n)
    /\ UNCHANGED <<logicalVars, liveVars, reports>>

\* _plan_callback: a path that ends at the current goal's pose (planned while
\* that goal runs) is adopted; paths to earlier goals are refused.
PlanCallback ==
    /\ active /\ through /\ ~planAdopted
    /\ \E n \in Running : goals[n].gid = goalId
    /\ planAdopted' = TRUE
    /\ UNCHANGED <<goalId, active, resultCallback, through, liveVars, goals, reports, wire>>

\* mutated form: a passed goal stays the logical goal
FeedbackPassedKeepsGoal(n) ==
    /\ n \in 1..Len(goals)
    /\ goals[n].srv \notin {"unsent", "wire", "rejected"}
    /\ IsCurrent(goals[n].gid) /\ through /\ planAdopted
    /\ reports' = reports \cup
         {[gid |-> goalId, res |-> "PASSED", to |-> resultCallback, by |-> 0]}
    /\ UNCHANGED <<logicalVars, liveVars, goals, wire>>

\* _feedback_callback of goal n that finds the pose within through_tolerance,
\* and the locked region of the _finish(PASSED) it calls (which checks the
\* goal id again).
FeedbackPassed(n) ==
    /\ n \in 1..Len(goals)
    /\ goals[n].srv \notin {"unsent", "wire", "rejected"}
    /\ IsCurrent(goals[n].gid) /\ through /\ planAdopted
    /\ active' = FALSE
    /\ reports' = reports \cup
         {[gid |-> goalId, res |-> "PASSED", to |-> resultCallback, by |-> 0]}
    /\ UNCHANGED <<goalId, resultCallback, through, planAdopted, liveVars, goals, wire>>

-----------------------------------------------------------------------------
(* Nav2's navigate_to_pose server (external): goal requests are handled in *)
(* the order they were sent; one goal runs at a time; a goal with the same *)
(* behaviour tree replaces the running one, which ends as aborted; one     *)
(* with another behaviour tree is accepted and aborted.                    *)

Nav2Accept ==
    /\ wire # <<>>
    /\ wire' = Tail(wire)
    /\ LET n == Head(wire)
           cross == \E k \in Running : goals[k].bt # goals[n].bt
       IN  goals' = [k \in 1..Len(goals) |->
             [goals[k] EXCEPT !.srv =
                IF k = n THEN (IF cross THEN "aborted" ELSE "running")
                ELSE IF k \in Running /\ ~cross THEN "aborted" ELSE @]]
    /\ UNCHANGED <<logicalVars, liveVars, reports>>

\* The server refuses goals while it is inactive, when nothing runs.
Nav2Reject ==
    /\ wire # <<>> /\ Running = {}
    /\ wire' = Tail(wire)
    /\ goals' = [goals EXCEPT ![Head(wire)].srv = "rejected"]
    /\ UNCHANGED <<logicalVars, liveVars, reports>>

Nav2End(n) ==
    /\ n \in Running
    /\ \E s \in {"succeeded", "aborted", "canceled"} :
         /\ s = "canceled" => goals[n].cancelRequested
         /\ goals' = [goals EXCEPT ![n].srv = s]
    /\ UNCHANGED <<logicalVars, liveVars, reports, wire>>

CallbackStep ==
    \/ \E n \in 1..Len(goals) :
         \/ ResponseCallback(n) \/ ResultDoneCallback(n)
         \/ Finish(n) \/ RunOnIdle(n) \/ Transmit(n) \/ FeedbackPassed(n)
    \/ PlanCallback

Nav2Step ==
    \/ Nav2Accept \/ Nav2Reject
    \/ \E n \in 1..Len(goals) : Nav2End(n)

-----------------------------------------------------------------------------
(* Properties                                                              *)

\* The type invariant of the navigator (navigator.py's attributes).
NavTypeOK ==
    /\ goalId \in Nat /\ active \in BOOLEAN /\ through \in BOOLEAN
    /\ planAdopted \in BOOLEAN /\ resultCallback \in Callbacks \cup {"None"}
    /\ active => resultCallback \in Callbacks
    /\ liveState \in {"NONE", "PENDING", "ACTIVE"}
    /\ liveBt \in BTs /\ liveCanceling \in BOOLEAN
    /\ onLiveIdle \in Dispatches
    /\ goals \in Seq(Goals)
    /\ reports \subseteq Reports
    /\ wire \in Seq(Nat \ {0})

\* The send kept in _on_live_idle is always that of the current logical goal,
\* and there is a live goal under cancellation whose end will release it: a
\* goal that has to wait is never waiting for nothing.
WaitingSendHasATrigger ==
    onLiveIdle.gid # 0 =>
        /\ IsCurrent(onLiveIdle.gid)
        /\ liveState # "NONE" /\ liveCanceling

\* Callback n still has the current logical goal in its hands: it will report
\* it, or send it.
Carries(n) ==
    \/ goals[n].gid = goalId /\ goals[n].cb \in {"response", "result", "finish"}
    \/ goals[n].onIdle.gid = goalId /\ goals[n].cb \in {"finish", "idle"}

\* An active logical goal is never lost between the threads: some callback
\* still has it, or it waits in _on_live_idle.
ActiveGoalIsCarried ==
    active => \/ onLiveIdle.gid = goalId
              \/ \E n \in 1..Len(goals) : Carries(n)

\* Nav2 never sees a goal with another behaviour tree, or a goal behind a
\* cancel request, while one of ours runs (it would be refused): the reason
\* _dispatch waits.
NeverPreemptsAcrossTrees ==
    \A n \in Running : \A m \in 1..Len(goals) :
        goals[m].srv = "wire" =>
            goals[m].bt = goals[n].bt /\ ~goals[n].cancelRequested

\* What Nav2 executes is what the navigator tracks as its live goal, or a goal
\* about to be replaced by a later one on its way to Nav2.
RunningGoalIsTracked ==
    \A n \in Running :
        \/ n = liveSeq /\ liveState # "NONE"
        \/ \E m \in (n + 1)..Len(goals) : goals[m].srv \in {"unsent", "wire"}

\* A cancel request is never forgotten: the live goal under cancellation has
\* either been asked to stop, or its acceptance has not been seen yet (and
\* will be followed by the request).
CancelIsNotForgotten ==
    liveCanceling =>
        \/ liveState = "PENDING" /\ goals[liveSeq].cb = "response"
        \/ liveState = "ACTIVE" /\ goals[liveSeq].cancelRequested

\* No logical goal is lost, orphaned or left waiting for nothing between the
\* threads of the navigator (navigator.py: _dispatch, _mark_live_done and the
\* callbacks that carry a goal), and its attributes keep their types.
GoalsAreAccountedFor ==
    /\ NavTypeOK
    /\ WaitingSendHasATrigger
    /\ ActiveGoalIsCarried
    /\ RunningGoalIsTracked

\* Cancelling works across the wire: a cancel issued before the acceptance is
\* made up for later, and nothing is sent to Nav2 that it would refuse because
\* of what is being cancelled (navigator.py: cancel, _on_goal_response).
CancelsAreHonoured == NeverPreemptsAcrossTrees /\ CancelIsNotForgotten

=============================================================================
