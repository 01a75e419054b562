--------------------------- MODULE NavigatorProofs ---------------------------
(***************************************************************************)
(* Theorems about WaypointNavigator under any caller that sends its next   *)
(* goal only when the previous one was reported or cancelled, for every    *)
(* set of behaviour trees and of callbacks and any number of goals.        *)
(***************************************************************************)
EXTENDS NavigatorCaller, SequenceTheorems, TLAPS

\* The live goal's state is the position of its callback: PENDING while its
\* acceptance is awaited, ACTIVE while its result is, NONE once it has ended at
\* Nav2.  A cancel request reaches the live goal only by marking it.
LiveFollowsCallback ==
    /\ Len(goals) = 0 => liveState = "NONE"
    /\ Len(goals) > 0 =>
         /\ liveState = "PENDING" <=> goals[Len(goals)].cb = "response"
         /\ liveState = "ACTIVE" <=> goals[Len(goals)].cb = "result"
         /\ liveState = "NONE" => goals[Len(goals)].srv \in Ended
         /\ liveState # "NONE" => liveBt = goals[Len(goals)].bt
         /\ (goals[Len(goals)].cancelRequested /\ liveState # "NONE") => liveCanceling
         /\ (liveCanceling /\ liveState = "ACTIVE") => goals[Len(goals)].cancelRequested
    /\ liveCanceling => liveState # "NONE"

\* Goals reach and leave Nav2 in the order they were dispatched: behind a goal
\* that has not ended every later one is still on its way, asks for the same
\* tree, and nobody has asked the earlier one to stop.
ServedInOrder ==
    \A i, j \in 1..Len(goals) :
        (i < j /\ goals[i].srv \notin Ended) =>
            /\ goals[i].srv # "unsent"
            /\ goals[j].srv \in {"unsent", "wire"}
            /\ goals[i].bt = goals[j].bt
            /\ ~goals[i].cancelRequested

\* Only the latest goal can be between the lock and send_goal_async, and no
\* other goal can be sent before it is: it is the current one, or cancelled.
UnsentIsGuarded ==
    \A n \in 1..Len(goals) : goals[n].srv = "unsent" =>
        /\ n = Len(goals) /\ liveState = "PENDING"
        /\ liveCanceling \/ IsCurrent(goals[n].gid)

\* The requests on the wire are the goals in that state, oldest first.
WireIsTheGoals ==
    /\ \A i \in 1..Len(wire) :
         wire[i] \in 1..Len(goals) /\ goals[wire[i]].srv = "wire"
    /\ \A i, j \in 1..Len(wire) : i < j => wire[i] < wire[j]
    /\ \A n \in 1..Len(goals) : goals[n].srv = "wire" =>
         \E i \in 1..Len(wire) : wire[i] = n

\* Goal n's callback has a send in hand that it has not made yet.
Holds(n) == goals[n].cb \in {"finish", "idle"} /\ goals[n].onIdle.gid = goalId

\* A logical goal is dispatched once: goal ids grow along goals, and a goal
\* that still waits to be sent has not been sent and waits in one place only.
DispatchedOnce ==
    /\ \A n \in 1..Len(goals) :
         goals[n].gid <= goalId /\ goals[n].onIdle.gid <= goalId
    /\ \A i, j \in 1..Len(goals) : i < j => goals[i].gid < goals[j].gid
    /\ onLiveIdle.gid # 0 => \A n \in 1..Len(goals) : goals[n].gid < goalId /\ ~Holds(n)
    /\ \A n \in 1..Len(goals) : (active /\ Holds(n)) =>
         /\ \A m \in 1..Len(goals) : goals[m].gid < goalId
         /\ \A m \in 1..Len(goals) : Holds(m) => m = n
    /\ active => goalId > 0

NavInv ==
    /\ NavTypeOK
    /\ LiveFollowsCallback
    /\ ServedInOrder
    /\ UnsentIsGuarded
    /\ WireIsTheGoals
    /\ DispatchedOnce
    /\ WaitingSendHasATrigger
    /\ ActiveGoalIsCarried
-----------------------------------------------------------------------------
(* What the operators of the model do to the sequence of goals.            *)

\* Rewriting one goal keeps the others and their number.
LEMMA GoalUpdated ==
    ASSUME NavTypeOK, NEW n \in 1..Len(goals), NEW r \in Goals,
           goals' = [goals EXCEPT ![n] = r]
    PROVE  /\ goals' \in Seq(Goals)
           /\ Len(goals') = Len(goals)
           /\ goals'[n] = r
           /\ \A k \in 1..Len(goals) : k # n => goals'[k] = goals[k]
<1>1. goals \in Seq(Goals)
  BY DEF NavTypeOK
<1> QED
  BY <1>1, ExceptSeq

\* Dispatching a goal adds one behind the others.
LEMMA GoalAppended ==
    ASSUME NEW g \in Seq(Goals), NEW r \in Goals, goals' = Append(g, r)
    PROVE  /\ goals' \in Seq(Goals)
           /\ Len(goals') = Len(g) + 1
           /\ goals'[Len(g) + 1] = r
           /\ \A k \in 1..Len(g) : goals'[k] = g[k]
  OBVIOUS

\* A goal's record is well typed.
LEMMA GoalType ==
    ASSUME NavTypeOK, NEW n \in 1..Len(goals)
    PROVE  goals[n] \in Goals
  BY DEF NavTypeOK

\* ... and so is that of a new one.
LEMMA NewGoalType ==
    ASSUME NEW gid \in Nat \ {0}, NEW bt \in BTs, NEW srv \in {"unsent", "wire"}
    PROVE  NewGoal(gid, bt, srv) \in Goals
  BY BTsAssumption DEF NewGoal, Goals, NoDispatch, Dispatches, Results

\* A cancel request changes nothing but the mark of the live goal.
LEMMA CancelRequestedFields ==
    ASSUME NavTypeOK, LiveFollowsCallback
    PROVE  /\ CancelRequested \in Seq(Goals)
           /\ Len(CancelRequested) = Len(goals)
           /\ \A k \in 1..Len(goals) :
                /\ CancelRequested[k].gid = goals[k].gid /\ CancelRequested[k].bt = goals[k].bt
                /\ CancelRequested[k].srv = goals[k].srv /\ CancelRequested[k].cb = goals[k].cb
                /\ CancelRequested[k].onIdle = goals[k].onIdle
                /\ k # Len(goals) => CancelRequested[k] = goals[k]
                /\ k = Len(goals) =>
                     CancelRequested[k].cancelRequested =
                       (goals[k].cancelRequested \/ (liveState = "ACTIVE" /\ ~liveCanceling))
<1>1. CASE liveState = "ACTIVE" /\ ~liveCanceling
  <2>1. Len(goals) \in 1..Len(goals) /\ goals \in Seq(Goals)
    BY <1>1 DEF LiveFollowsCallback, NavTypeOK
  <2> DEFINE r == [goals[Len(goals)] EXCEPT !.cancelRequested = TRUE]
  <2>2. /\ r \in Goals /\ r.gid = goals[Len(goals)].gid /\ r.bt = goals[Len(goals)].bt
        /\ r.srv = goals[Len(goals)].srv /\ r.cb = goals[Len(goals)].cb
        /\ r.onIdle = goals[Len(goals)].onIdle /\ r.cancelRequested = TRUE
    BY <2>1, GoalType DEF Goals
  <2>3. CancelRequested = [goals EXCEPT ![Len(goals)] = r]
    BY <1>1, <2>1 DEF CancelRequested, liveSeq
  <2> HIDE DEF r
  <2>4. /\ CancelRequested \in Seq(Goals)
        /\ Len(CancelRequested) = Len(goals)
        /\ CancelRequested[Len(goals)] = r
        /\ \A k \in 1..Len(goals) : k # Len(goals) => CancelRequested[k] = goals[k]
    BY <2>1, <2>2, <2>3, ExceptSeq
  <2> QED
    BY <1>1, <2>1, <2>2, <2>4
<1>2. CASE ~(liveState = "ACTIVE" /\ ~liveCanceling)
  <2>1. CancelRequested = goals
    BY <1>2 DEF CancelRequested
  <2>2. \A k \in 1..Len(goals) : goals[k].cancelRequested \in BOOLEAN
    BY GoalType DEF Goals
  <2> QED
    BY <1>2, <2>1, <2>2 DEF NavTypeOK
<1> QED
  BY <1>1, <1>2

\* The same of a step that assigns it.
LEMMA CancelMarks ==
    ASSUME NavTypeOK, LiveFollowsCallback, goals' = CancelRequested
    PROVE  /\ goals' \in Seq(Goals)
           /\ Len(goals') = Len(goals)
           /\ \A k \in 1..Len(goals) :
                /\ goals'[k].gid = goals[k].gid /\ goals'[k].bt = goals[k].bt
                /\ goals'[k].srv = goals[k].srv /\ goals'[k].cb = goals[k].cb
                /\ goals'[k].onIdle = goals[k].onIdle
                /\ k # Len(goals) => goals'[k] = goals[k]
                /\ k = Len(goals) =>
                     goals'[k].cancelRequested =
                       (goals[k].cancelRequested \/ (liveState = "ACTIVE" /\ ~liveCanceling))
  BY CancelRequestedFields

\* What the type invariant says of the goals, field by field.
LEMMA GoalFields ==
    ASSUME NavTypeOK
    PROVE  /\ Len(goals) \in Nat /\ Len(wire) \in Nat /\ goalId \in Nat
           /\ onLiveIdle.gid \in Nat /\ onLiveIdle.bt \in BTs
           /\ \A n \in 1..Len(goals) :
                /\ goals[n] \in Goals
                /\ goals[n].gid \in Nat /\ goals[n].gid > 0 /\ goals[n].bt \in BTs
                /\ goals[n].srv \in {"unsent", "wire", "running"} \cup Ended
                /\ goals[n].cb \in {"response", "result", "finish", "idle", "done"}
                /\ goals[n].cancelRequested \in BOOLEAN
                /\ goals[n].onIdle \in Dispatches
                /\ goals[n].onIdle.gid \in Nat /\ goals[n].onIdle.bt \in BTs
                /\ goals[n].res \in Results
           /\ \A i \in 1..Len(wire) : wire[i] \in Nat
<1>1. \A n \in 1..Len(goals) : goals[n] \in Goals
  BY GoalType
<1>2. \A n \in 1..Len(goals) : goals[n].onIdle \in Dispatches
  BY <1>1 DEF Goals
<1>3. /\ \A n \in 1..Len(goals) : goals[n].onIdle.gid \in Nat /\ goals[n].onIdle.bt \in BTs
      /\ onLiveIdle.gid \in Nat /\ onLiveIdle.bt \in BTs
  BY <1>2 DEF Dispatches, NavTypeOK
<1>4. Len(goals) \in Nat /\ Len(wire) \in Nat /\ goalId \in Nat
  BY DEF NavTypeOK
<1>5. \A i \in 1..Len(wire) : wire[i] \in Nat
  BY DEF NavTypeOK
<1> QED
  BY <1>1, <1>2, <1>3, <1>4, <1>5 DEF Goals

-----------------------------------------------------------------------------
(* When a step leaves what a part of the invariant speaks of alone.        *)

\* The wire.
LEMMA WireKept ==
    ASSUME WireIsTheGoals, Len(goals') = Len(goals), wire' = wire,
           \A k \in 1..Len(goals) : goals'[k].srv = goals[k].srv
    PROVE  WireIsTheGoals'
  BY DEF WireIsTheGoals

\* The order at Nav2; only the latest goal's mark may change.
LEMMA OrderKept ==
    ASSUME ServedInOrder, Len(goals') = Len(goals), Len(goals) \in Nat,
           \A k \in 1..Len(goals) :
             /\ goals'[k].srv = goals[k].srv
             /\ goals'[k].bt = goals[k].bt
             /\ k # Len(goals) => goals'[k].cancelRequested = goals[k].cancelRequested
    PROVE  ServedInOrder'
  BY DEF ServedInOrder

\* The dispatches; no callback gains a send.
LEMMA OnceKept ==
    ASSUME DispatchedOnce, Len(goals') = Len(goals), goalId' = goalId, active' => active,
           onLiveIdle' = onLiveIdle \/ onLiveIdle'.gid = 0,
           \A k \in 1..Len(goals) :
             /\ goals'[k].gid = goals[k].gid
             /\ goals'[k].onIdle = goals[k].onIdle
             /\ Holds(k)' => Holds(k)
    PROVE  DispatchedOnce'
  BY DEF DispatchedOnce

\* The live goal.
LEMMA LiveKept ==
    ASSUME LiveFollowsCallback, Len(goals') = Len(goals), Len(goals) \in Nat,
           UNCHANGED <<liveState, liveBt, liveCanceling>>,
           Len(goals) > 0 =>
             /\ goals'[Len(goals)].bt = goals[Len(goals)].bt
             /\ goals'[Len(goals)].cancelRequested = goals[Len(goals)].cancelRequested
             /\ goals[Len(goals)].srv \in Ended => goals'[Len(goals)].srv \in Ended
             /\ \A c \in {"response", "result"} :
                  goals'[Len(goals)].cb = c <=> goals[Len(goals)].cb = c
    PROVE  LiveFollowsCallback'
  BY DEF LiveFollowsCallback

-----------------------------------------------------------------------------
(* One lemma per action: the inductive invariant survives it.              *)

\* cancel(): the logical goal ends, the live one is asked to stop.  The step
\* may deliver reports too, as the FSM's do.
LEMMA CancelInv == ASSUME NavInv, Cancel, reports' \subseteq reports PROVE NavInv'
<1> USE DEF NavInv
<1>1. /\ goals' \in Seq(Goals)
      /\ Len(goals') = Len(goals)
      /\ \A k \in 1..Len(goals) :
           /\ goals'[k].gid = goals[k].gid /\ goals'[k].bt = goals[k].bt
           /\ goals'[k].srv = goals[k].srv /\ goals'[k].cb = goals[k].cb
           /\ goals'[k].onIdle = goals[k].onIdle
           /\ k # Len(goals) => goals'[k] = goals[k]
           /\ k = Len(goals) =>
                goals'[k].cancelRequested =
                  (goals[k].cancelRequested \/ (liveState = "ACTIVE" /\ ~liveCanceling))
  BY CancelMarks DEF Cancel, BeginCancelLive
<1>2. /\ active' = FALSE /\ onLiveIdle' = NoDispatch
      /\ liveCanceling' = (liveState # "NONE" \/ liveCanceling)
      /\ goalId' = goalId /\ resultCallback' = resultCallback /\ through' = through
      /\ planAdopted' = planAdopted /\ liveState' = liveState /\ liveBt' = liveBt
      /\ wire' = wire /\ reports' \subseteq reports
  BY DEF Cancel, BeginCancelLive
<1>3. NoDispatch \in Dispatches /\ NoDispatch.gid = 0
  BY BTsAssumption DEF NoDispatch, Dispatches
<1> USE GoalFields
<1>4. NavTypeOK'
  BY <1>1, <1>2, <1>3 DEF NavTypeOK
<1>5. LiveFollowsCallback'
  BY <1>1, <1>2 DEF LiveFollowsCallback, NavTypeOK
<1>6. ServedInOrder'
  BY <1>1, <1>2 DEF ServedInOrder
<1>7. UnsentIsGuarded'
  BY <1>1, <1>2 DEF UnsentIsGuarded
<1>8. WireIsTheGoals'
  BY <1>1, <1>2 DEF WireIsTheGoals
<1>9. DispatchedOnce'
  BY <1>1, <1>2, <1>3 DEF DispatchedOnce, Holds
<1>10. WaitingSendHasATrigger' /\ ActiveGoalIsCarried'
  BY <1>2, <1>3 DEF WaitingSendHasATrigger, ActiveGoalIsCarried
<1> QED
  BY <1>4, <1>5, <1>6, <1>7, <1>8, <1>9, <1>10

\* A step that leaves the goals alone; it may deliver reports.
LEMMA NavFrame ==
    ASSUME NavInv, UNCHANGED <<logicalVars, liveVars, goals, wire>>, reports' \subseteq reports
    PROVE  NavInv'
<1>1. /\ UNCHANGED <<goalId, active, resultCallback, through, planAdopted>>
      /\ UNCHANGED <<liveState, liveBt, liveCanceling, onLiveIdle, goals, wire>>
  BY DEF logicalVars, liveVars
<1>2. NavTypeOK' /\ LiveFollowsCallback' /\ ServedInOrder'
  BY <1>1 DEF NavInv, NavTypeOK, LiveFollowsCallback, ServedInOrder
<1>3. UnsentIsGuarded' /\ WireIsTheGoals' /\ WaitingSendHasATrigger'
  BY <1>1 DEF NavInv, UnsentIsGuarded, WireIsTheGoals, WaitingSendHasATrigger, IsCurrent
<1>4. DispatchedOnce' /\ ActiveGoalIsCarried'
  BY <1>1 DEF NavInv, DispatchedOnce, Holds, ActiveGoalIsCarried, Carries
<1> QED
  BY <1>2, <1>3, <1>4 DEF NavInv

\* _plan_callback only notes that the plan was adopted.
LEMMA PlanInv == ASSUME NavInv, PlanCallback PROVE NavInv'
<1> USE DEF NavInv
<1>2. /\ UNCHANGED <<goalId, active, resultCallback, through, reports>>
      /\ UNCHANGED <<liveState, liveBt, liveCanceling, onLiveIdle, goals, wire>>
      /\ planAdopted' = TRUE
  BY DEF PlanCallback, liveVars
<1>3. NavTypeOK'
  BY <1>2 DEF NavTypeOK
<1> QED
  BY <1>2, <1>3 DEF LiveFollowsCallback, ServedInOrder, UnsentIsGuarded, WireIsTheGoals,
     DispatchedOnce, Holds, WaitingSendHasATrigger, ActiveGoalIsCarried, Carries, IsCurrent

\* A report made for the current goal is well typed: _finish takes the callback
\* only while the goal is active.
LEMMA ReportType ==
    ASSUME NavTypeOK, active, NEW res \in Results, NEW by \in Nat
    PROVE  [gid |-> goalId, res |-> res, to |-> resultCallback, by |-> by] \in Reports
  BY DEF NavTypeOK, Reports

\* The current goal has been dispatched only as the latest one.
LEMMA CurrentIsLatest ==
    ASSUME NavInv, NEW n \in 1..Len(goals), goals[n].gid = goalId
    PROVE  n = Len(goals) /\ onLiveIdle.gid = 0
<1>1. \A k \in 1..Len(goals) : goals[k].gid \in Nat /\ goals[k].gid <= goalId
  BY GoalFields DEF NavInv, DispatchedOnce
<1>2. n = Len(goals)
  <2> SUFFICES ASSUME n # Len(goals) PROVE FALSE
    OBVIOUS
  <2>1. Len(goals) \in 1..Len(goals) /\ n < Len(goals)
    BY GoalFields DEF NavInv
  <2>2. goals[n].gid < goals[Len(goals)].gid
    BY <2>1 DEF NavInv, DispatchedOnce
  <2> QED
    BY <1>1, <2>1, <2>2, GoalFields DEF NavInv
<1> QED
  BY <1>2, GoalFields DEF NavInv, DispatchedOnce

\* _feedback_callback ends the current goal as passed.
LEMMA FeedbackInv ==
    ASSUME NavInv, NEW n \in 1..Len(goals), FeedbackPassed(n) PROVE NavInv'
<1> USE DEF NavInv
<1>2. /\ UNCHANGED <<goalId, resultCallback, through, planAdopted>>
      /\ UNCHANGED <<liveState, liveBt, liveCanceling, onLiveIdle, goals, wire>>
      /\ active' = FALSE /\ active /\ goals[n].gid = goalId /\ goals[n].srv # "unsent"
      /\ reports' = reports \cup
           {[gid |-> goalId, res |-> "PASSED", to |-> resultCallback, by |-> 0]}
  BY DEF FeedbackPassed, liveVars, IsCurrent
<1>3. NavTypeOK'
  <2>1. [gid |-> goalId, res |-> "PASSED", to |-> resultCallback, by |-> 0] \in Reports
    BY <1>2, ReportType DEF Results
  <2> QED
    BY <1>2, <2>1 DEF NavTypeOK
<1>4. n = Len(goals) /\ onLiveIdle.gid = 0
  BY <1>2, CurrentIsLatest
<1>5. UnsentIsGuarded'
  BY <1>2, <1>4 DEF UnsentIsGuarded
<1>6. WaitingSendHasATrigger' /\ ActiveGoalIsCarried'
  BY <1>2, <1>4 DEF WaitingSendHasATrigger, ActiveGoalIsCarried
<1> QED
  BY <1>2, <1>3, <1>5, <1>6 DEF LiveFollowsCallback, ServedInOrder, WireIsTheGoals,
     DispatchedOnce, Holds

\* _finish, called by the callback of goal n.
LEMMA FinishInv ==
    ASSUME NavInv, NEW n \in 1..Len(goals), Finish(n) PROVE NavInv'
<1> USE DEF NavInv
<1> DEFINE r == [goals[n] EXCEPT !.cb = "idle"]
<1>0. /\ \A k \in 1..Len(goals) : goals[k] \in Goals
      /\ Len(goals) \in Nat /\ goals[n].res \in Results
  BY GoalFields
<1>1. goals' = [goals EXCEPT ![n] = r] /\ goals[n].cb = "finish"
  BY DEF Finish, NavTypeOK
<1>2. r \in Goals
  BY <1>0 DEF Goals
<1>3. /\ r.gid = goals[n].gid /\ r.bt = goals[n].bt /\ r.srv = goals[n].srv
      /\ r.cancelRequested = goals[n].cancelRequested /\ r.onIdle = goals[n].onIdle
      /\ r.cb = "idle"
  BY <1>0 DEF Goals
<1> HIDE DEF r
<1>4. /\ goals' \in Seq(Goals)
      /\ Len(goals') = Len(goals)
      /\ \A k \in 1..Len(goals) :
           /\ goals'[k].gid = goals[k].gid /\ goals'[k].bt = goals[k].bt
           /\ goals'[k].srv = goals[k].srv /\ goals'[k].onIdle = goals[k].onIdle
           /\ goals'[k].cancelRequested = goals[k].cancelRequested
           /\ k # n => goals'[k].cb = goals[k].cb
      /\ goals'[n].cb = "idle"
  <2>1. /\ goals' \in Seq(Goals)
        /\ Len(goals') = Len(goals)
        /\ goals'[n] = r
        /\ \A k \in 1..Len(goals) : k # n => goals'[k] = goals[k]
    BY <1>1, <1>2, GoalUpdated
  <2> QED
    BY <1>3, <2>1
<1>5. /\ UNCHANGED <<goalId, resultCallback, through, planAdopted, wire>>
      /\ UNCHANGED <<liveState, liveBt, liveCanceling, onLiveIdle>>
  BY DEF Finish, liveVars
<1>6. \/ /\ active /\ goals[n].gid = goalId /\ active' = FALSE
         /\ reports' = reports \cup
              {[gid |-> goalId, res |-> goals[n].res, to |-> resultCallback, by |-> n]}
      \/ ~(active /\ goals[n].gid = goalId) /\ UNCHANGED <<active, reports>>
  BY DEF Finish, IsCurrent
<1>7. (active /\ goals[n].gid = goalId) => (n = Len(goals) /\ onLiveIdle.gid = 0)
  BY CurrentIsLatest
<1>8. NavTypeOK'
  <2>1. CASE active /\ goals[n].gid = goalId
    <3>1. [gid |-> goalId, res |-> goals[n].res, to |-> resultCallback, by |-> n] \in Reports
      BY <2>1, <1>0, ReportType
    <3> QED
      BY <2>1, <3>1, <1>4, <1>5, <1>6 DEF NavTypeOK
  <2>2. CASE ~(active /\ goals[n].gid = goalId)
    BY <2>2, <1>4, <1>5, <1>6 DEF NavTypeOK
  <2> QED
    BY <2>1, <2>2
<1>9. LiveFollowsCallback'
  <2>1. \A k \in 1..Len(goals) : \A c \in {"response", "result"} :
          goals'[k].cb = c <=> goals[k].cb = c
    BY <1>1, <1>4
  <2>2. Len(goals) > 0 => Len(goals) \in 1..Len(goals)
    BY <1>0
  <2> QED
    BY <1>0, <1>4, <1>5, <2>1, <2>2, LiveKept
<1>10. ServedInOrder'
  BY <1>0, <1>4, OrderKept
<1>11. UnsentIsGuarded'
  <2>1. CASE n = Len(goals)
    BY <2>1, <1>1, <1>4, <1>5 DEF UnsentIsGuarded, LiveFollowsCallback
  <2>2. CASE n # Len(goals)
    BY <2>2, <1>4, <1>5, <1>6, <1>7 DEF UnsentIsGuarded, IsCurrent
  <2> QED
    BY <2>1, <2>2
<1>12. WireIsTheGoals'
  BY <1>4, <1>5, WireKept
<1>14. \A k \in 1..Len(goals) : Holds(k)' <=> Holds(k)
  BY <1>1, <1>4, <1>5 DEF Holds
<1>15. DispatchedOnce'
  BY <1>4, <1>5, <1>6, <1>14, OnceKept
<1>16. WaitingSendHasATrigger'
  BY <1>5, <1>6, <1>7 DEF WaitingSendHasATrigger, IsCurrent
<1>17. ActiveGoalIsCarried'
  <2> SUFFICES ASSUME active', active, goals[n].gid # goalId PROVE ActiveGoalIsCarried'
    BY <1>6 DEF ActiveGoalIsCarried
  <2>1. \A k \in 1..Len(goals) : Carries(k) => Carries(k)'
    BY <1>1, <1>4, <1>5 DEF Carries
  <2> QED
    BY <2>1, <1>4, <1>5 DEF ActiveGoalIsCarried
<1> QED
  BY <1>8, <1>9, <1>10, <1>11, <1>12, <1>15, <1>16, <1>17

\* send_goal_async outside the lock: only the latest goal can be unsent.
LEMMA TransmitInv ==
    ASSUME NavInv, NEW n \in 1..Len(goals), Transmit(n) PROVE NavInv'
<1> USE DEF NavInv
<1>0. /\ \A k \in 1..Len(goals) : goals[k] \in Goals
      /\ Len(goals) \in Nat /\ Len(wire) \in Nat
  BY GoalFields
<1> DEFINE r == [goals[n] EXCEPT !.srv = "wire"]
<1>1. goals' = [goals EXCEPT ![n] = r] /\ goals[n].srv = "unsent"
  BY DEF Transmit, NavTypeOK
<1>2. r \in Goals
  BY <1>0 DEF Goals
<1>3. /\ r.gid = goals[n].gid /\ r.bt = goals[n].bt /\ r.srv = "wire"
      /\ r.cancelRequested = goals[n].cancelRequested /\ r.onIdle = goals[n].onIdle
      /\ r.cb = goals[n].cb
  BY <1>0 DEF Goals
<1> HIDE DEF r
<1>4. /\ goals' \in Seq(Goals)
      /\ Len(goals') = Len(goals)
      /\ \A k \in 1..Len(goals) :
           /\ goals'[k].gid = goals[k].gid /\ goals'[k].bt = goals[k].bt
           /\ goals'[k].cb = goals[k].cb /\ goals'[k].onIdle = goals[k].onIdle
           /\ goals'[k].cancelRequested = goals[k].cancelRequested
           /\ k # n => goals'[k].srv = goals[k].srv
      /\ goals'[n].srv = "wire"
  <2>1. /\ goals' \in Seq(Goals)
        /\ Len(goals') = Len(goals)
        /\ goals'[n] = r
        /\ \A k \in 1..Len(goals) : k # n => goals'[k] = goals[k]
    BY <1>1, <1>2, GoalUpdated
  <2> QED
    BY <1>3, <2>1
<1>5. /\ UNCHANGED <<goalId, active, resultCallback, through, planAdopted, reports>>
      /\ UNCHANGED <<liveState, liveBt, liveCanceling, onLiveIdle>>
      /\ wire' = Append(wire, n)
  BY DEF Transmit, liveVars, logicalVars
<1>6. n = Len(goals) /\ liveState = "PENDING"
  BY <1>1 DEF UnsentIsGuarded
<1>7. /\ wire \in Seq(Nat) /\ wire' \in Seq(Nat \ {0}) /\ Len(wire') = Len(wire) + 1
      /\ wire'[Len(wire) + 1] = n
      /\ \A i \in 1..Len(wire) : wire'[i] = wire[i]
  BY <1>5 DEF NavTypeOK
<1>8. NavTypeOK'
  BY <1>4, <1>5, <1>7 DEF NavTypeOK
<1>9. LiveFollowsCallback'
  BY <1>0, <1>1, <1>4, <1>5, <1>6, LiveKept DEF Ended
<1>10. ServedInOrder'
  <2> SUFFICES ASSUME NEW i \in 1..Len(goals), NEW j \in 1..Len(goals), i < j,
                      goals'[i].srv \notin Ended
               PROVE  /\ goals'[i].srv # "unsent" /\ goals'[j].srv \in {"unsent", "wire"}
                      /\ goals'[i].bt = goals'[j].bt /\ ~goals'[i].cancelRequested
    BY <1>4 DEF ServedInOrder
  <2>1. i # n /\ goals'[i].srv = goals[i].srv
    BY <1>0, <1>4, <1>6
  <2>2. /\ goals[i].srv # "unsent" /\ goals[j].srv \in {"unsent", "wire"}
        /\ goals[i].bt = goals[j].bt /\ ~goals[i].cancelRequested
    BY <2>1 DEF ServedInOrder
  <2>3. goals'[j].srv \in {"unsent", "wire"}
    BY <1>4, <2>2
  <2> QED
    BY <1>4, <2>1, <2>2, <2>3
<1>11. UnsentIsGuarded'
  BY <1>4, <1>5 DEF UnsentIsGuarded, IsCurrent
<1>12. WireIsTheGoals'
  <2>0. Len(wire') = Len(wire) + 1
    BY <1>7
  <2>1. \A i \in 1..Len(wire) : wire[i] \in 1..Len(goals) /\ goals[wire[i]].srv = "wire"
    BY DEF WireIsTheGoals
  <2>2. \A i \in 1..Len(wire) : wire[i] # n /\ wire[i] < n
    BY <1>0, <1>1, <1>6, <2>1
  <2>3. \A i \in 1..Len(wire') :
          wire'[i] \in 1..Len(goals') /\ goals'[wire'[i]].srv = "wire"
    <3> SUFFICES ASSUME NEW i \in 1..Len(wire')
                 PROVE  wire'[i] \in 1..Len(goals) /\ goals'[wire'[i]].srv = "wire"
      BY <1>4
    <3>1. i \in 1..Len(wire) \/ i = Len(wire) + 1
      BY <1>0, <2>0
    <3>2. CASE i = Len(wire) + 1
      BY <1>4, <1>7, <3>2
    <3>3. CASE i \in 1..Len(wire)
      <4>1. wire'[i] = wire[i] /\ wire[i] \in 1..Len(goals) /\ wire[i] # n
        BY <1>7, <2>1, <2>2, <3>3
      <4> QED
        BY <1>4, <2>1, <3>3, <4>1
    <3> QED
      BY <3>1, <3>2, <3>3
  <2>4. \A i, j \in 1..Len(wire') : i < j => wire'[i] < wire'[j]
    <3> SUFFICES ASSUME NEW i \in 1..Len(wire'), NEW j \in 1..Len(wire'), i < j
                 PROVE  wire'[i] < wire'[j]
      OBVIOUS
    <3>1. i \in 1..Len(wire) /\ (j \in 1..Len(wire) \/ j = Len(wire) + 1)
      BY <1>0, <2>0
    <3>2. \A k, m \in 1..Len(wire) : k < m => wire[k] < wire[m]
      BY DEF WireIsTheGoals
    <3> QED
      BY <1>7, <2>2, <3>1, <3>2
  <2>5. \A k \in 1..Len(goals) : goals'[k].srv = "wire" => \E i \in 1..Len(wire') : wire'[i] = k
    <3> SUFFICES ASSUME NEW k \in 1..Len(goals), goals'[k].srv = "wire"
                 PROVE  \E i \in 1..Len(wire') : wire'[i] = k
      OBVIOUS
    <3>1. CASE k = n
      <4>1. Len(wire) + 1 \in 1..Len(wire') /\ wire'[Len(wire) + 1] = k
        BY <1>0, <3>1, <1>7
      <4> QED
        BY <4>1
    <3>2. CASE k # n
      <4>1. PICK i \in 1..Len(wire) : wire[i] = k
        BY <3>2, <1>4 DEF WireIsTheGoals
      <4>2. i \in 1..Len(wire') /\ wire'[i] = k
        BY <1>0, <4>1, <1>7
      <4> QED
        BY <4>2
    <3> QED
      BY <3>1, <3>2
  <2> QED
    BY <1>4, <2>3, <2>4, <2>5 DEF WireIsTheGoals
<1>14. DispatchedOnce'
  <2>1. \A k \in 1..Len(goals) : Holds(k)' => Holds(k)
    BY <1>4, <1>5 DEF Holds
  <2> QED
    BY <1>4, <1>5, <2>1, OnceKept
<1>15. WaitingSendHasATrigger' /\ ActiveGoalIsCarried'
  BY <1>4, <1>5 DEF WaitingSendHasATrigger, ActiveGoalIsCarried, Carries, IsCurrent
<1> QED
  BY <1>8, <1>9, <1>10, <1>11, <1>12, <1>14, <1>15

\* The locked region that ends goal n (_mark_live_done and the send it takes).
LEMMA MarkDoneInv ==
    ASSUME NavInv, NEW n \in 1..Len(goals), NEW res \in Results,
           goals[n].cb \in {"response", "result"}, goals[n].srv \in Ended,
           goals' = [goals EXCEPT ![n].cb = "finish", ![n].res = res,
                                  ![n].onIdle = TakenIdle(n)],
           MarkLiveDone(n), UNCHANGED <<logicalVars, reports, wire>>
    PROVE  NavInv'
<1> USE DEF NavInv
<1> DEFINE r == [goals[n] EXCEPT !.cb = "finish", !.res = res, !.onIdle = TakenIdle(n)]
<1>0. /\ \A k \in 1..Len(goals) : goals[k] \in Goals
      /\ \A k \in 1..Len(goals) : goals[k].gid \in Nat /\ goals[k].onIdle.gid \in Nat
      /\ Len(goals) \in Nat /\ goalId \in Nat /\ onLiveIdle.gid \in Nat
  BY GoalFields
<1>1. goals' = [goals EXCEPT ![n] = r]
  BY DEF NavTypeOK
<1>n. NoDispatch \in Dispatches /\ NoDispatch.gid = 0
  BY BTsAssumption DEF NoDispatch, Dispatches
<1>2. TakenIdle(n) \in Dispatches /\ r \in Goals
  BY <1>0, <1>n DEF Goals, NavTypeOK, TakenIdle
<1>3. /\ r.gid = goals[n].gid /\ r.bt = goals[n].bt /\ r.srv = goals[n].srv
      /\ r.cancelRequested = goals[n].cancelRequested /\ r.onIdle = TakenIdle(n)
      /\ r.cb = "finish"
  BY <1>0 DEF Goals
<1> HIDE DEF r
<1>4. /\ goals' \in Seq(Goals)
      /\ Len(goals') = Len(goals)
      /\ \A k \in 1..Len(goals) :
           /\ goals'[k].gid = goals[k].gid /\ goals'[k].bt = goals[k].bt
           /\ goals'[k].srv = goals[k].srv
           /\ goals'[k].cancelRequested = goals[k].cancelRequested
           /\ k # n => goals'[k] = goals[k]
      /\ goals'[n].cb = "finish" /\ goals'[n].onIdle = TakenIdle(n)
  <2>1. /\ goals' \in Seq(Goals)
        /\ Len(goals') = Len(goals)
        /\ goals'[n] = r
        /\ \A k \in 1..Len(goals) : k # n => goals'[k] = goals[k]
    BY <1>1, <1>2, GoalUpdated
  <2> QED
    BY <1>3, <2>1
<1>5. UNCHANGED <<goalId, active, resultCallback, through, planAdopted, reports, wire>>
  BY DEF logicalVars
<1>6. CASE n = Len(goals)
  <2>1. /\ liveState' = "NONE" /\ liveCanceling' = FALSE /\ onLiveIdle' = NoDispatch
        /\ liveBt' = liveBt /\ TakenIdle(n) = onLiveIdle
    BY <1>6 DEF MarkLiveDone, TakenIdle, liveSeq
  <2>2. NavTypeOK'
    BY <1>4, <1>5, <1>n, <2>1 DEF NavTypeOK
  <2>3. LiveFollowsCallback'
    BY <1>0, <1>4, <1>6, <2>1 DEF LiveFollowsCallback
  <2>4. UnsentIsGuarded'
    BY <1>4, <1>6 DEF UnsentIsGuarded, Ended
  <2>5. DispatchedOnce'
    <3>1. \A k \in 1..Len(goals) : Holds(k)' => Holds(k) \/ (k = n /\ onLiveIdle.gid = goalId)
      BY <1>4, <1>5, <2>1 DEF Holds
    <3>2. \A k \in 1..Len(goals) : goals'[k].gid <= goalId /\ goals'[k].onIdle.gid <= goalId
      <4>1. onLiveIdle.gid <= goalId
        BY <1>0 DEF WaitingSendHasATrigger, IsCurrent
      <4> QED
        BY <1>4, <2>1, <4>1 DEF DispatchedOnce
    <3>3. active => goalId > 0
      BY DEF DispatchedOnce
    <3>4. onLiveIdle'.gid = 0
      BY <1>n, <2>1
    <3>5. ASSUME NEW k \in 1..Len(goals), active, Holds(k)'
          PROVE  /\ \A m \in 1..Len(goals) : goals[m].gid < goalId
                 /\ \A m \in 1..Len(goals) : Holds(m)' => m = k
      <4>1. CASE onLiveIdle.gid = goalId
        <5>1. \A m \in 1..Len(goals) : goals[m].gid < goalId /\ ~Holds(m)
          BY <1>0, <3>3, <3>5, <4>1 DEF DispatchedOnce
        <5> QED
          BY <3>1, <3>5, <5>1
      <4>2. CASE onLiveIdle.gid # goalId
        BY <3>1, <3>5, <4>2 DEF DispatchedOnce
      <4> QED
        BY <4>1, <4>2
    <3>6. \A i, j \in 1..Len(goals) : i < j => goals[i].gid < goals[j].gid
      BY DEF DispatchedOnce
    <3> QED
      BY <1>4, <1>5, <3>2, <3>3, <3>4, <3>5, <3>6 DEF DispatchedOnce
  <2>6. WaitingSendHasATrigger'
    BY <1>n, <2>1 DEF WaitingSendHasATrigger
  <2>7. ActiveGoalIsCarried'
    <3> SUFFICES ASSUME active PROVE \E k \in 1..Len(goals) : Carries(k)'
      BY <1>4, <1>5 DEF ActiveGoalIsCarried
    <3>1. CASE onLiveIdle.gid = goalId
      <4>1. Carries(n)'
        BY <1>4, <1>5, <2>1, <3>1 DEF Carries
      <4> QED
        BY <4>1
    <3>2. CASE onLiveIdle.gid # goalId
      <4>1. PICK k \in 1..Len(goals) : Carries(k)
        BY <3>2 DEF ActiveGoalIsCarried
      <4>2. Carries(k)'
        BY <1>4, <1>5, <4>1 DEF Carries
      <4> QED
        BY <4>2
    <3> QED
      BY <3>1, <3>2
  <2> QED
    BY <1>0, <1>4, <1>5, <2>2, <2>3, <2>4, <2>5, <2>6, <2>7, OrderKept, WireKept
<1>7. CASE n # Len(goals)
  <2>1. /\ UNCHANGED <<liveState, liveBt, liveCanceling, onLiveIdle>>
        /\ TakenIdle(n) = NoDispatch
    BY <1>7 DEF MarkLiveDone, TakenIdle, liveSeq, liveVars
  <2>2. NavTypeOK'
    BY <1>4, <1>5, <2>1 DEF NavTypeOK
  <2>3. LiveFollowsCallback'
    BY <1>0, <1>4, <1>7, <2>1, LiveKept
  <2>4. UnsentIsGuarded'
    BY <1>4, <1>5, <2>1 DEF UnsentIsGuarded, Ended, IsCurrent
  <2>5. DispatchedOnce'
    <3>1. \A k \in 1..Len(goals) : goals'[k].gid <= goalId /\ goals'[k].onIdle.gid <= goalId
      BY <1>0, <1>4, <1>n, <2>1 DEF DispatchedOnce
    <3>2. active => goalId > 0
      BY DEF DispatchedOnce
    <3>3. \A k \in 1..Len(goals) : (active /\ Holds(k)') => Holds(k)
      BY <1>4, <1>5, <1>n, <2>1, <3>2 DEF Holds
    <3>4. onLiveIdle.gid # 0 => active
      BY DEF WaitingSendHasATrigger, IsCurrent
    <3>5. \A i, j \in 1..Len(goals) : i < j => goals[i].gid < goals[j].gid
      BY DEF DispatchedOnce
    <3>6. onLiveIdle.gid # 0 => \A k \in 1..Len(goals) : goals[k].gid < goalId /\ ~Holds(k)'
      BY <3>3, <3>4 DEF DispatchedOnce
    <3>7. ASSUME NEW k \in 1..Len(goals), active, Holds(k)'
          PROVE  /\ \A m \in 1..Len(goals) : goals[m].gid < goalId
                 /\ \A m \in 1..Len(goals) : Holds(m)' => m = k
      BY <3>3, <3>7 DEF DispatchedOnce
    <3> QED
      BY <1>4, <1>5, <2>1, <3>1, <3>2, <3>5, <3>6, <3>7 DEF DispatchedOnce
  <2>6. WaitingSendHasATrigger'
    BY <1>5, <2>1 DEF WaitingSendHasATrigger, IsCurrent
  <2>7. ActiveGoalIsCarried'
    <3>1. \A k \in 1..Len(goals) : Carries(k) => Carries(k)'
      BY <1>4, <1>5 DEF Carries
    <3> QED
      BY <1>4, <1>5, <2>1, <3>1 DEF ActiveGoalIsCarried
  <2> QED
    BY <1>0, <1>4, <1>5, <2>2, <2>3, <2>4, <2>5, <2>6, <2>7, OrderKept, WireKept
<1> QED
  BY <1>6, <1>7

\* _result_done_callback.
LEMMA ResultDoneInv ==
    ASSUME NavInv, NEW n \in 1..Len(goals), ResultDoneCallback(n) PROVE NavInv'
<1>1. ResultOf(goals[n].srv) \in Results
  BY DEF ResultOf, Results
<1> QED
  BY <1>1, MarkDoneInv DEF ResultDoneCallback

\* _goal_response_callback: rejected, superseded or accepted.
LEMMA ResponseInv ==
    ASSUME NavInv, NEW n \in 1..Len(goals), ResponseCallback(n) PROVE NavInv'
<1> USE DEF NavInv
<1>0. /\ \A k \in 1..Len(goals) : goals[k] \in Goals
      /\ \A k \in 1..Len(goals) : goals[k].gid \in Nat /\ goals[k].onIdle.gid \in Nat
      /\ Len(goals) \in Nat /\ goalId \in Nat /\ onLiveIdle.gid \in Nat
  BY GoalFields
<1>1. /\ goals[n].cb = "response" /\ goals[n].srv \notin {"unsent", "wire"}
      /\ UNCHANGED <<logicalVars, reports, wire>>
      /\ UNCHANGED <<goalId, active, resultCallback, through, planAdopted, reports, wire>>
  BY DEF ResponseCallback, logicalVars
<1>2. CASE /\ goals[n].srv = "rejected"
           /\ goals' = [goals EXCEPT ![n].cb = "finish", ![n].res = "FAILED",
                                     ![n].onIdle = TakenIdle(n)]
           /\ MarkLiveDone(n)
  BY <1>1, <1>2, MarkDoneInv DEF Results, Ended
<1>3. CASE /\ goals[n].srv # "rejected" /\ n # Len(goals)
           /\ goals' = [goals EXCEPT ![n].cb = "done"]
           /\ UNCHANGED liveVars
  <2> DEFINE r == [goals[n] EXCEPT !.cb = "done"]
  <2>1. goals' = [goals EXCEPT ![n] = r]
    BY <1>3 DEF NavTypeOK
  <2>2. /\ r \in Goals /\ r.gid = goals[n].gid /\ r.bt = goals[n].bt
        /\ r.srv = goals[n].srv /\ r.cancelRequested = goals[n].cancelRequested
        /\ r.onIdle = goals[n].onIdle /\ r.cb = "done"
    BY <1>0 DEF Goals
  <2> HIDE DEF r
  <2>3. /\ goals' \in Seq(Goals)
        /\ Len(goals') = Len(goals)
        /\ goals'[n] = r
        /\ \A k \in 1..Len(goals) : k # n => goals'[k] = goals[k]
    BY <2>1, <2>2, GoalUpdated
  <2>4. /\ \A k \in 1..Len(goals) :
             /\ goals'[k].gid = goals[k].gid /\ goals'[k].bt = goals[k].bt
             /\ goals'[k].srv = goals[k].srv /\ goals'[k].onIdle = goals[k].onIdle
             /\ goals'[k].cancelRequested = goals[k].cancelRequested
             /\ k # n => goals'[k].cb = goals[k].cb
        /\ goals'[n].cb = "done"
    BY <2>2, <2>3
  <2>5. UNCHANGED <<liveState, liveBt, liveCanceling, onLiveIdle>>
    BY <1>3 DEF liveVars
  <2>6. NavTypeOK'
    BY <1>1, <2>3, <2>5 DEF NavTypeOK
  <2>7. LiveFollowsCallback'
    BY <1>0, <1>3, <2>3, <2>5, LiveKept
  <2>8. UnsentIsGuarded' /\ WaitingSendHasATrigger'
    BY <1>1, <2>3, <2>4, <2>5 DEF UnsentIsGuarded, WaitingSendHasATrigger, IsCurrent
  <2>9. \A k \in 1..Len(goals) : Holds(k)' => Holds(k)
    BY <1>1, <2>4 DEF Holds
  <2>10. DispatchedOnce'
    BY <1>1, <2>3, <2>4, <2>5, <2>9, OnceKept
  <2>11. ActiveGoalIsCarried'
    <3>1. goals[n].gid # goalId
      BY <1>3, CurrentIsLatest
    <3>2. \A k \in 1..Len(goals) : Carries(k) => Carries(k)'
      BY <1>1, <2>4, <3>1 DEF Carries
    <3> QED
      BY <1>1, <2>3, <2>5, <3>2 DEF ActiveGoalIsCarried
  <2> QED
    BY <1>0, <1>1, <2>3, <2>4, <2>6, <2>7, <2>8, <2>10, <2>11, OrderKept, WireKept
<1>4. CASE /\ goals[n].srv # "rejected" /\ n = Len(goals)
           /\ liveState' = "ACTIVE"
           /\ goals' = [goals EXCEPT ![n].cb = "result",
                             ![n].cancelRequested = @ \/ liveCanceling]
           /\ UNCHANGED <<liveBt, liveCanceling, onLiveIdle>>
  <2> DEFINE r == [goals[n] EXCEPT !.cb = "result",
                        !.cancelRequested = goals[n].cancelRequested \/ liveCanceling]
  <2>1. goals' = [goals EXCEPT ![n] = r]
    BY <1>0, <1>4 DEF NavTypeOK, Goals
  <2>2. /\ r \in Goals /\ r.gid = goals[n].gid /\ r.bt = goals[n].bt
        /\ r.srv = goals[n].srv
        /\ r.cancelRequested = (goals[n].cancelRequested \/ liveCanceling)
        /\ r.onIdle = goals[n].onIdle /\ r.cb = "result"
    BY <1>0 DEF Goals
  <2> HIDE DEF r
  <2>3. /\ goals' \in Seq(Goals)
        /\ Len(goals') = Len(goals)
        /\ goals'[n] = r
        /\ \A k \in 1..Len(goals) : k # n => goals'[k] = goals[k]
    BY <2>1, <2>2, GoalUpdated
  <2>4. /\ \A k \in 1..Len(goals) :
             /\ goals'[k].gid = goals[k].gid /\ goals'[k].bt = goals[k].bt
             /\ goals'[k].srv = goals[k].srv /\ goals'[k].onIdle = goals[k].onIdle
             /\ k # n => goals'[k].cancelRequested = goals[k].cancelRequested
             /\ k # n => goals'[k].cb = goals[k].cb
        /\ goals'[n].cb = "result"
        /\ goals'[n].cancelRequested = (goals[n].cancelRequested \/ liveCanceling)
    BY <2>2, <2>3
  <2>6. NavTypeOK'
    BY <1>1, <1>4, <2>3 DEF NavTypeOK
  <2>7. LiveFollowsCallback'
    <3>1. Len(goals) > 0 /\ goals[Len(goals)].cb = "response"
      BY <1>0, <1>1, <1>4
    <3>2. /\ liveState = "PENDING" /\ liveBt = goals[Len(goals)].bt
          /\ goals[Len(goals)].cancelRequested => liveCanceling
      BY <3>1 DEF LiveFollowsCallback
    <3>3. /\ liveState' = "ACTIVE" /\ liveBt' = goals'[Len(goals)].bt
          /\ goals'[Len(goals)].cb = "result"
          /\ goals'[Len(goals)].cancelRequested => liveCanceling'
          /\ liveCanceling' => goals'[Len(goals)].cancelRequested
      BY <1>4, <2>4, <3>2
    <3> QED
      BY <2>3, <3>1, <3>3 DEF LiveFollowsCallback
  <2>8. UnsentIsGuarded' /\ WaitingSendHasATrigger'
    BY <1>1, <1>4, <2>3, <2>4 DEF UnsentIsGuarded, WaitingSendHasATrigger, IsCurrent
  <2>9. \A k \in 1..Len(goals) : Holds(k)' => Holds(k)
    BY <1>1, <2>4 DEF Holds
  <2>10. DispatchedOnce'
    BY <1>1, <1>4, <2>3, <2>4, <2>9, OnceKept
  <2>11. ActiveGoalIsCarried'
    <3>2. \A k \in 1..Len(goals) : Carries(k) => Carries(k)'
      BY <1>1, <2>4 DEF Carries
    <3> QED
      BY <1>1, <1>4, <2>3, <3>2 DEF ActiveGoalIsCarried
  <2> QED
    BY <1>0, <1>1, <1>4, <2>3, <2>4, <2>6, <2>7, <2>8, <2>10, <2>11, OrderKept, WireKept
<1> QED
  BY <1>2, <1>3, <1>4 DEF ResponseCallback, liveSeq

\* The running goal ends at Nav2.
LEMMA Nav2EndInv ==
    ASSUME NavInv, NEW n \in 1..Len(goals), Nav2End(n) PROVE NavInv'
<1> USE DEF NavInv
<1>0. /\ \A k \in 1..Len(goals) : goals[k] \in Goals
      /\ Len(goals) \in Nat
  BY GoalFields
<1>1. PICK s \in {"succeeded", "aborted", "canceled"} : goals' = [goals EXCEPT ![n].srv = s]
  BY DEF Nav2End
<1>2. /\ goals[n].srv = "running" /\ UNCHANGED <<reports, wire>>
      /\ UNCHANGED <<goalId, active, resultCallback, through, planAdopted>>
      /\ UNCHANGED <<liveState, liveBt, liveCanceling, onLiveIdle>>
  BY DEF Nav2End, Running, logicalVars, liveVars
<1> DEFINE r == [goals[n] EXCEPT !.srv = s]
<1>3. goals' = [goals EXCEPT ![n] = r]
  BY <1>1 DEF NavTypeOK
<1>4. /\ r \in Goals /\ r.gid = goals[n].gid /\ r.bt = goals[n].bt
      /\ r.cb = goals[n].cb /\ r.cancelRequested = goals[n].cancelRequested
      /\ r.onIdle = goals[n].onIdle /\ r.srv = s
  BY <1>0 DEF Goals, Ended
<1> HIDE DEF r
<1>5. /\ goals' \in Seq(Goals)
      /\ Len(goals') = Len(goals)
      /\ goals'[n] = r
      /\ \A k \in 1..Len(goals) : k # n => goals'[k] = goals[k]
  BY <1>3, <1>4, GoalUpdated
<1>6. /\ \A k \in 1..Len(goals) :
           /\ goals'[k].gid = goals[k].gid /\ goals'[k].bt = goals[k].bt
           /\ goals'[k].cb = goals[k].cb /\ goals'[k].onIdle = goals[k].onIdle
           /\ goals'[k].cancelRequested = goals[k].cancelRequested
           /\ k # n => goals'[k].srv = goals[k].srv
      /\ goals'[n].srv \in Ended
  BY <1>4, <1>5 DEF Ended
<1>7. NavTypeOK'
  BY <1>2, <1>5 DEF NavTypeOK
<1>8. LiveFollowsCallback'
  <2>1. \A k \in 1..Len(goals) : goals[k].srv \in Ended => goals'[k].srv \in Ended
    BY <1>6
  <2>2. Len(goals) > 0 => Len(goals) \in 1..Len(goals)
    BY <1>0
  <2> QED
    BY <1>0, <1>2, <1>5, <1>6, <2>1, <2>2, LiveKept
<1>9. ServedInOrder'
  <2> SUFFICES ASSUME NEW i \in 1..Len(goals), NEW j \in 1..Len(goals), i < j,
                      goals'[i].srv \notin Ended
               PROVE  /\ goals'[i].srv # "unsent" /\ goals'[j].srv \in {"unsent", "wire"}
                      /\ goals'[i].bt = goals'[j].bt /\ ~goals'[i].cancelRequested
    BY <1>5 DEF ServedInOrder
  <2>1. i # n /\ goals'[i].srv = goals[i].srv
    BY <1>6
  <2>2. /\ goals[i].srv # "unsent" /\ goals[j].srv \in {"unsent", "wire"}
        /\ goals[i].bt = goals[j].bt /\ ~goals[i].cancelRequested
    BY <2>1 DEF ServedInOrder
  <2>3. j # n
    BY <1>2, <2>2
  <2> QED
    BY <1>6, <2>1, <2>2, <2>3
<1>10. UnsentIsGuarded' /\ WaitingSendHasATrigger'
  BY <1>2, <1>5, <1>6 DEF UnsentIsGuarded, WaitingSendHasATrigger, IsCurrent, Ended
<1>11. WireIsTheGoals'
  <2>1. \A k \in 1..Len(goals) : goals'[k].srv = "wire" <=> goals[k].srv = "wire"
    BY <1>2, <1>6 DEF Ended
  <2> QED
    BY <1>2, <1>5, <2>1 DEF WireIsTheGoals
<1>12. \A k \in 1..Len(goals) : (Holds(k)' <=> Holds(k)) /\ (Carries(k)' <=> Carries(k))
  BY <1>2, <1>6 DEF Holds, Carries
<1>13. DispatchedOnce'
  BY <1>2, <1>5, <1>6, <1>12, OnceKept
<1>14. ActiveGoalIsCarried'
  BY <1>2, <1>5, <1>12 DEF ActiveGoalIsCarried
<1> QED
  BY <1>7, <1>8, <1>9, <1>10, <1>11, <1>13, <1>14

\* Dispatching the new current goal when Nav2 may take it: g is what the goals
\* are once the dispatching callback, if there is one, is done.
LEMMA SentInv ==
    ASSUME NavInv, NEW g \in Seq(Goals), Len(g) = Len(goals),
           NEW gid \in Nat \ {0}, NEW bt \in BTs, NEW srv \in {"unsent", "wire"},
           \A k \in 1..Len(goals) :
             /\ g[k].gid = goals[k].gid /\ g[k].bt = goals[k].bt
             /\ g[k].srv = goals[k].srv /\ g[k].onIdle = goals[k].onIdle
             /\ g[k].cancelRequested = goals[k].cancelRequested
             /\ goals[k].srv # "unsent" /\ goals[k].gid < gid
             /\ ~(g[k].cb \in {"finish", "idle"} /\ g[k].onIdle.gid = gid),
           onLiveIdle.gid = 0, goalId <= gid, CanSend(bt),
           goals' = Append(g, NewGoal(gid, bt, srv)),
           wire' = IF srv = "wire" THEN Append(wire, Len(goals) + 1) ELSE wire,
           liveState' = "PENDING", liveBt' = bt, liveCanceling' = FALSE,
           onLiveIdle' = onLiveIdle, goalId' = gid, active' = TRUE,
           resultCallback' \in Callbacks, through' \in BOOLEAN, planAdopted' \in BOOLEAN,
           reports' \subseteq reports
    PROVE  NavInv'
<1> USE DEF NavInv
<1> DEFINE N == Len(goals)  new == NewGoal(gid, bt, srv)
<1>0. /\ N \in Nat /\ goalId \in Nat /\ Len(wire) \in Nat
      /\ \A k \in 1..N : goals[k].gid \in Nat /\ goals[k].onIdle.gid \in Nat
      /\ \A k \in 1..N : goals[k].srv \in {"unsent", "wire", "running"} \cup Ended
  BY GoalFields
<1>1. /\ new \in Goals /\ new.gid = gid /\ new.bt = bt /\ new.srv = srv
      /\ new.cb = "response" /\ new.cancelRequested = FALSE /\ new.onIdle.gid = 0
  BY NewGoalType DEF NewGoal, NoDispatch
<1> HIDE DEF new
<1>2. /\ goals' \in Seq(Goals)
      /\ Len(goals') = N + 1
      /\ goals'[N + 1] = new
      /\ \A k \in 1..N : goals'[k] = g[k]
  BY <1>1, GoalAppended DEF new
<1>3. /\ \A k \in 1..N :
           /\ goals'[k].gid = goals[k].gid /\ goals'[k].bt = goals[k].bt
           /\ goals'[k].srv = goals[k].srv /\ goals'[k].onIdle = goals[k].onIdle
           /\ goals'[k].cancelRequested = goals[k].cancelRequested
           /\ goals'[k].cb = g[k].cb
      /\ goals'[N + 1].gid = gid /\ goals'[N + 1].bt = bt /\ goals'[N + 1].srv = srv
      /\ goals'[N + 1].cb = "response" /\ goals'[N + 1].cancelRequested = FALSE
      /\ goals'[N + 1].onIdle.gid = 0
  BY <1>1, <1>2
<1>4. Len(goals') = N + 1 /\ \A k \in 1..Len(goals') : k \in 1..N \/ k = N + 1
  BY <1>0, <1>2
<1> HIDE DEF N
<1>5. NavTypeOK'
  <2>1. wire' \in Seq(Nat \ {0})
    <3>1. wire \in Seq(Nat \ {0}) /\ N + 1 \in Nat \ {0}
      BY <1>0 DEF NavTypeOK
    <3> QED
      BY <3>1 DEF N
  <2> QED
    BY <1>2, <2>1 DEF NavTypeOK
<1>6. LiveFollowsCallback'
  BY <1>0, <1>3, <1>4 DEF LiveFollowsCallback
<1>7. ASSUME NEW i \in 1..N, goals[i].srv \notin Ended
      PROVE  /\ goals[i].bt = bt /\ ~goals[i].cancelRequested
             /\ goals[i].srv # "unsent"
  <2>0. N \in 1..N
    BY <1>0
  <2>1. i # N => /\ goals[N].srv \in {"unsent", "wire"} /\ goals[i].bt = goals[N].bt
                 /\ ~goals[i].cancelRequested
    BY <1>0, <1>7, <2>0 DEF ServedInOrder, N
  <2>2. goals[N].srv \notin Ended
    BY <1>7, <2>1 DEF Ended
  <2>3. liveState # "NONE"
    BY <1>0, <2>0, <2>2 DEF LiveFollowsCallback, N
  <2>4. ~liveCanceling /\ liveBt = bt
    BY <2>3 DEF CanSend
  <2>5. goals[N].bt = bt /\ ~goals[N].cancelRequested
    BY <1>0, <2>0, <2>3, <2>4 DEF LiveFollowsCallback, N
  <2> QED
    BY <2>1, <2>5 DEF N
<1>8. ServedInOrder'
  <2>1. ASSUME NEW i \in 1..Len(goals'), NEW j \in 1..Len(goals'), i < j,
               goals'[i].srv \notin Ended
        PROVE  /\ goals'[i].srv # "unsent" /\ goals'[j].srv \in {"unsent", "wire"}
               /\ goals'[i].bt = goals'[j].bt /\ ~goals'[i].cancelRequested
    <3>1. i \in 1..N /\ (j \in 1..N \/ j = N + 1)
      BY <1>0, <1>4, <2>1
    <3>2. goals[i].srv \notin Ended
      BY <1>3, <2>1, <3>1
    <3>3. CASE j = N + 1
      <4>1. goals[i].bt = bt /\ ~goals[i].cancelRequested /\ goals[i].srv # "unsent"
        BY <1>7, <3>1, <3>2
      <4> QED
        BY <1>3, <3>1, <3>3, <4>1
    <3>4. CASE j \in 1..N
      <4>1. /\ goals[i].srv # "unsent" /\ goals[j].srv \in {"unsent", "wire"}
            /\ goals[i].bt = goals[j].bt /\ ~goals[i].cancelRequested
        BY <2>1, <3>1, <3>2, <3>4 DEF ServedInOrder, N
      <4> QED
        BY <1>3, <3>1, <3>4, <4>1
    <3> QED
      BY <3>1, <3>3, <3>4
  <2> QED
    BY ONLY <2>1 DEF ServedInOrder
<1>9. UnsentIsGuarded'
  BY <1>3, <1>4 DEF UnsentIsGuarded, IsCurrent, N
<1>10. WireIsTheGoals'
  <2>1. /\ \A i \in 1..Len(wire) : wire[i] \in 1..N /\ goals[wire[i]].srv = "wire"
        /\ \A i, j \in 1..Len(wire) : i < j => wire[i] < wire[j]
        /\ \A n \in 1..N : goals[n].srv = "wire" => \E i \in 1..Len(wire) : wire[i] = n
    BY DEF WireIsTheGoals, N
  <2>2. CASE srv = "unsent"
    <3>1. wire' = wire
      BY <2>2
    <3>2. \A i \in 1..Len(wire) : wire[i] \in 1..Len(goals') /\ goals'[wire[i]].srv = "wire"
      BY <1>0, <1>3, <1>4, <2>1
    <3>3. \A n \in 1..Len(goals') : goals'[n].srv = "wire" => n \in 1..N /\ goals[n].srv = "wire"
      BY <1>3, <1>4, <2>2
    <3> QED
      BY <2>1, <3>1, <3>2, <3>3 DEF WireIsTheGoals
  <2>3. CASE srv = "wire"
    <3>1. /\ Len(wire') = Len(wire) + 1
          /\ wire'[Len(wire) + 1] = N + 1
          /\ \A i \in 1..Len(wire) : wire'[i] = wire[i]
      BY <2>3 DEF NavTypeOK, N
    <3>2. \A i \in 1..Len(wire') : i \in 1..Len(wire) \/ i = Len(wire) + 1
      BY <1>0, <3>1
    <3>3. \A i \in 1..Len(wire) : wire[i] \in 1..Len(goals') /\ goals'[wire[i]].srv = "wire"
      BY <1>0, <1>3, <1>4, <2>1
    <3>4. N + 1 \in 1..Len(goals') /\ goals'[N + 1].srv = "wire"
      BY <1>0, <1>3, <1>4, <2>3
    <3>5. \A i \in 1..Len(wire') : wire'[i] \in 1..Len(goals') /\ goals'[wire'[i]].srv = "wire"
      BY <3>1, <3>2, <3>3, <3>4
    <3>6. ASSUME NEW i \in 1..Len(wire'), NEW j \in 1..Len(wire'), i < j
          PROVE  wire'[i] < wire'[j]
      <4>1. i \in 1..Len(wire) /\ (j \in 1..Len(wire) \/ j = Len(wire) + 1)
        BY <1>0, <3>1, <3>2, <3>6
      <4>2. wire[i] \in 1..N /\ wire[i] < N + 1
        BY <1>0, <2>1, <4>1
      <4> QED
        BY <2>1, <3>1, <3>6, <4>1, <4>2
    <3>7. ASSUME NEW n \in 1..Len(goals'), goals'[n].srv = "wire"
          PROVE  \E i \in 1..Len(wire') : wire'[i] = n
      <4>1. CASE n = N + 1
        <5>1. Len(wire) + 1 \in 1..Len(wire')
          BY <1>0, <3>1
        <5> QED
          BY <3>1, <4>1, <5>1
      <4>2. CASE n \in 1..N
        <5>1. PICK i \in 1..Len(wire) : wire[i] = n
          BY <1>3, <2>1, <3>7, <4>2
        <5>2. i \in 1..Len(wire')
          BY <1>0, <3>1
        <5> QED
          BY <3>1, <5>1, <5>2
      <4> QED
        BY <1>4, <4>1, <4>2
    <3> QED
      BY <3>5, <3>6, <3>7 DEF WireIsTheGoals
  <2> QED
    BY <2>2, <2>3
<1>11. DispatchedOnce'
  <2>1. \A n \in 1..Len(goals') : goals'[n].gid <= gid /\ goals'[n].onIdle.gid <= gid
    <3>1. \A n \in 1..N : goals[n].gid <= goalId /\ goals[n].onIdle.gid <= goalId
      BY DEF DispatchedOnce, N
    <3>2. \A n \in 1..N : goals[n].gid <= gid /\ goals[n].onIdle.gid <= gid
      BY <1>0, <3>1
    <3> QED
      BY <1>3, <1>4, <3>2
  <2>2. ASSUME NEW i \in 1..Len(goals'), NEW j \in 1..Len(goals'), i < j
        PROVE  goals'[i].gid < goals'[j].gid
    <3>1. i \in 1..N /\ (j \in 1..N \/ j = N + 1)
      BY <1>0, <1>4, <2>2
    <3>2. CASE j = N + 1
      BY <1>3, <3>1, <3>2 DEF N
    <3>3. CASE j \in 1..N
      BY <1>3, <2>2, <3>1, <3>3 DEF DispatchedOnce, N
    <3> QED
      BY <3>1, <3>2, <3>3
  <2>3. \A n \in 1..Len(goals') : ~Holds(n)'
    BY <1>3, <1>4 DEF Holds, N
  <2> QED
    BY <2>1, <2>2, <2>3 DEF DispatchedOnce
<1>12. WaitingSendHasATrigger'
  BY DEF WaitingSendHasATrigger
<1>13. ActiveGoalIsCarried'
  <2>1. N + 1 \in 1..Len(goals') /\ \A m \in 1..Len(goals') : m = N + 1 => Carries(m)'
    BY <1>0, <1>3, <1>4 DEF Carries
  <2> QED
    BY <2>1 DEF ActiveGoalIsCarried
<1> QED
  BY <1>5, <1>6, <1>8, <1>9, <1>10, <1>11, <1>12, <1>13

\* ... and when it has to wait in _on_live_idle for the live goal's end.
LEMMA WaitInv ==
    ASSUME NavInv, NEW gid \in Nat \ {0}, NEW bt \in BTs,
           goals' \in Seq(Goals), Len(goals') = Len(goals),
           \A k \in 1..Len(goals) :
             /\ goals'[k].gid = goals[k].gid /\ goals'[k].bt = goals[k].bt
             /\ goals'[k].srv = goals[k].srv /\ goals'[k].onIdle = goals[k].onIdle
             /\ goals'[k].cb = goals[k].cb \/ (goals[k].cb = "idle" /\ goals'[k].cb = "done")
             /\ k # Len(goals) => goals'[k].cancelRequested = goals[k].cancelRequested
             /\ k = Len(goals) =>
                  goals'[k].cancelRequested =
                    (goals[k].cancelRequested \/ (liveState = "ACTIVE" /\ ~liveCanceling))
             /\ goals[k].gid < gid
             /\ ~(goals'[k].cb \in {"finish", "idle"} /\ goals'[k].onIdle.gid = gid),
           goalId <= gid, ~CanSend(bt),
           onLiveIdle' = [gid |-> gid, bt |-> bt], liveCanceling' = TRUE,
           UNCHANGED <<liveState, liveBt, wire>>, reports' \subseteq reports,
           goalId' = gid, active' = TRUE,
           resultCallback' \in Callbacks, through' \in BOOLEAN, planAdopted' \in BOOLEAN
    PROVE  NavInv'
<1> USE DEF NavInv
<1>0. /\ Len(goals) \in Nat /\ goalId \in Nat
      /\ \A k \in 1..Len(goals) : goals[k].gid \in Nat /\ goals[k].onIdle.gid \in Nat
      /\ \A k \in 1..Len(goals) : goals[k].cancelRequested \in BOOLEAN
  BY GoalFields
<1>1. onLiveIdle' \in Dispatches /\ onLiveIdle'.gid = gid /\ gid > 0
  BY DEF Dispatches
<1>2. liveState # "NONE" /\ Len(goals) \in 1..Len(goals)
  BY <1>0 DEF CanSend, LiveFollowsCallback
<1>3. NavTypeOK'
  BY <1>1 DEF NavTypeOK
<1>4. LiveFollowsCallback'
  <2>1. /\ liveState = "PENDING" <=> goals[Len(goals)].cb = "response"
        /\ liveState = "ACTIVE" <=> goals[Len(goals)].cb = "result"
        /\ liveBt = goals[Len(goals)].bt
        /\ (liveCanceling /\ liveState = "ACTIVE") => goals[Len(goals)].cancelRequested
    BY <1>0, <1>2 DEF LiveFollowsCallback
  <2>2. /\ goals'[Len(goals)].cb = "response" <=> goals[Len(goals)].cb = "response"
        /\ goals'[Len(goals)].cb = "result" <=> goals[Len(goals)].cb = "result"
        /\ goals'[Len(goals)].bt = goals[Len(goals)].bt
    BY <1>2
  <2>3. liveState = "ACTIVE" => goals'[Len(goals)].cancelRequested
    BY <1>2, <2>1
  <2> QED
    BY <1>2, <2>1, <2>2, <2>3 DEF LiveFollowsCallback
<1>5. UnsentIsGuarded'
  BY DEF UnsentIsGuarded
<1>6. \A k \in 1..Len(goals) : ~Holds(k)'
  BY DEF Holds
<1>7. DispatchedOnce'
  <2>1. \A k \in 1..Len(goals) : goals[k].gid <= goalId /\ goals[k].onIdle.gid <= goalId
    BY DEF DispatchedOnce
  <2>2. \A k \in 1..Len(goals) : goals'[k].gid <= gid /\ goals'[k].onIdle.gid <= gid
    BY <1>0, <2>1
  <2>3. \A i, j \in 1..Len(goals) : i < j => goals'[i].gid < goals'[j].gid
    BY DEF DispatchedOnce
  <2> QED
    BY <1>1, <1>6, <2>2, <2>3 DEF DispatchedOnce
<1>8. WaitingSendHasATrigger' /\ ActiveGoalIsCarried'
  BY <1>1, <1>2 DEF WaitingSendHasATrigger, ActiveGoalIsCarried, IsCurrent
<1> QED
  BY <1>0, <1>3, <1>4, <1>5, <1>7, <1>8, OrderKept, WireKept

\* send_goal: sent, kept waiting, or failed for want of a server.
LEMMA SendGoalInv ==
    ASSUME NavInv, ~active, reports' \subseteq reports,
           NEW to \in Callbacks, NEW bt \in BTs, NEW th \in BOOLEAN,
           SendGoal(to, bt, th) \/ SendGoalNoServer(to, th)
    PROVE  NavInv'
<1> USE DEF NavInv
<1>0. /\ Len(goals) \in Nat /\ goalId \in Nat
      /\ \A k \in 1..Len(goals) : goals[k].gid \in Nat /\ goals[k].onIdle.gid \in Nat
  BY GoalFields
<1>1. SendGoal(to, bt, th) \/ SendGoalNoServer(to, th)
  OBVIOUS
<1>2. ~active /\ onLiveIdle.gid = 0 /\ reports' \subseteq reports
  BY DEF WaitingSendHasATrigger, IsCurrent
<1>3. /\ goalId' = goalId + 1 /\ resultCallback' = to /\ through' = th
      /\ planAdopted' = FALSE
  BY <1>1 DEF SendGoal, SendGoalNoServer, NewLogicalGoal
<1>4. \A k \in 1..Len(goals) :
        goals[k].gid < goalId + 1 /\ goals[k].onIdle.gid < goalId + 1
  <2>1. \A k \in 1..Len(goals) : goals[k].gid <= goalId /\ goals[k].onIdle.gid <= goalId
    BY DEF DispatchedOnce
  <2> QED
    BY <1>0, <2>1
<1>5. CASE SendGoal(to, bt, th) /\ CanSend(bt)
  <2>1. /\ goals' = Append(goals, NewGoal(goalId + 1, bt, "wire"))
        /\ wire' = Append(wire, Len(goals) + 1)
        /\ liveState' = "PENDING" /\ liveBt' = bt /\ liveCanceling' = FALSE
        /\ onLiveIdle' = onLiveIdle /\ active' = TRUE
    BY <1>5 DEF SendGoal, Dispatch
  <2>2. \A k \in 1..Len(goals) : goals[k].srv # "unsent"
    BY <1>2, <1>5 DEF UnsentIsGuarded, CanSend, IsCurrent
  <2>3. /\ goals \in Seq(Goals) /\ goalId + 1 \in Nat \ {0}
        /\ goalId <= goalId + 1 /\ FALSE \in BOOLEAN
    BY <1>0 DEF NavTypeOK
  <2>4. \A k \in 1..Len(goals) : goals[k].onIdle.gid # goalId + 1
    BY <1>0, <1>4
  <2> QED
    BY <1>2, <1>3, <1>4, <1>5, <2>1, <2>2, <2>3, <2>4, SentInv
<1>6. CASE SendGoal(to, bt, th) /\ ~CanSend(bt)
  <2>1. /\ goals' = CancelRequested /\ liveCanceling' = TRUE /\ active' = TRUE
        /\ onLiveIdle' = [gid |-> goalId + 1, bt |-> bt]
        /\ UNCHANGED <<liveState, liveBt, wire>>
    BY <1>6 DEF SendGoal, Dispatch, BeginCancelLive, CanSend
  <2>2. /\ goals' \in Seq(Goals)
        /\ Len(goals') = Len(goals)
        /\ \A k \in 1..Len(goals) :
             /\ goals'[k].gid = goals[k].gid /\ goals'[k].bt = goals[k].bt
             /\ goals'[k].srv = goals[k].srv /\ goals'[k].cb = goals[k].cb
             /\ goals'[k].onIdle = goals[k].onIdle
             /\ k # Len(goals) => goals'[k].cancelRequested = goals[k].cancelRequested
             /\ k = Len(goals) =>
                  goals'[k].cancelRequested =
                    (goals[k].cancelRequested \/ (liveState = "ACTIVE" /\ ~liveCanceling))
    BY <2>1, CancelMarks
  <2>3. goalId + 1 \in Nat \ {0} /\ goalId <= goalId + 1 /\ FALSE \in BOOLEAN
    BY <1>0
  <2>4. \A k \in 1..Len(goals) : goals'[k].onIdle.gid # goalId + 1
    BY <1>0, <1>4, <2>2
  <2> QED
    BY <1>2, <1>3, <1>4, <1>6, <2>1, <2>2, <2>3, <2>4, WaitInv
<1>7. CASE SendGoalNoServer(to, th)
  <2>1. /\ active' = FALSE /\ UNCHANGED <<goals, wire>>
        /\ UNCHANGED <<liveState, liveBt, liveCanceling, onLiveIdle>>
        /\ \A n \in 1..Len(goals) : goals[n].srv \notin {"unsent", "wire", "running"}
    BY <1>7 DEF SendGoalNoServer, liveVars, ServerMayBeGone
  <2>2. NavTypeOK'
    <3>1. goalId' \in Nat
      BY <1>0, <1>3
    <3>2. /\ active' \in BOOLEAN /\ through' \in BOOLEAN /\ ~active'
          /\ planAdopted' \in BOOLEAN /\ resultCallback' \in Callbacks \cup {"None"}
      BY <1>3, <2>1, Zenon
    <3> QED
      BY <1>2, <2>1, <3>1, <3>2 DEF NavTypeOK
  <2>3. DispatchedOnce'
    <3>1. \A k \in 1..Len(goals) : goals[k].gid <= goalId + 1 /\ goals[k].onIdle.gid <= goalId + 1
      BY <1>0, <1>4
    <3> QED
      BY <1>2, <1>3, <2>1, <3>1 DEF DispatchedOnce
  <2>4. WaitingSendHasATrigger' /\ ActiveGoalIsCarried'
    BY <1>2, <2>1 DEF WaitingSendHasATrigger, ActiveGoalIsCarried
  <2>5. LiveFollowsCallback' /\ ServedInOrder' /\ UnsentIsGuarded' /\ WireIsTheGoals'
    BY <2>1 DEF LiveFollowsCallback, ServedInOrder, UnsentIsGuarded, WireIsTheGoals
  <2> QED
    BY <2>2, <2>3, <2>4, <2>5
<1> QED
  BY <1>1, <1>5, <1>6, <1>7

\* The trailing on_idle() of the callback of goal n.
LEMMA RunOnIdleInv ==
    ASSUME NavInv, NEW n \in 1..Len(goals), RunOnIdle(n) PROVE NavInv'
<1> USE DEF NavInv
<1> DEFINE next == goals[n].onIdle
           r == [goals[n] EXCEPT !.cb = "done"]
           g == [goals EXCEPT ![n] = r]
<1>0. /\ Len(goals) \in Nat /\ goalId \in Nat
      /\ next \in Dispatches /\ next.gid \in Nat /\ next.bt \in BTs
      /\ next = [gid |-> next.gid, bt |-> next.bt]
      /\ \A k \in 1..Len(goals) : goals[k] \in Goals
      /\ \A k \in 1..Len(goals) : goals[k].gid \in Nat /\ goals[k].onIdle.gid \in Nat
  BY GoalFields DEF Dispatches
<1>1. /\ goals[n].cb = "idle" /\ UNCHANGED <<logicalVars, reports, wire>>
      /\ UNCHANGED <<goalId, active, resultCallback, through, planAdopted, reports, wire>>
  BY DEF RunOnIdle, logicalVars
<1>2. /\ r \in Goals /\ r.gid = goals[n].gid /\ r.bt = goals[n].bt
      /\ r.srv = goals[n].srv /\ r.cancelRequested = goals[n].cancelRequested
      /\ r.onIdle = goals[n].onIdle /\ r.cb = "done"
  BY <1>0 DEF Goals
<1>3. g = [goals EXCEPT ![n].cb = "done"]
  BY DEF NavTypeOK
<1> HIDE DEF r
<1>4. /\ g \in Seq(Goals) /\ Len(g) = Len(goals) /\ g[n] = r
      /\ \A k \in 1..Len(goals) : k # n => g[k] = goals[k]
  BY <1>2, ExceptSeq DEF NavTypeOK
<1>5. /\ \A k \in 1..Len(goals) :
           /\ g[k].gid = goals[k].gid /\ g[k].bt = goals[k].bt
           /\ g[k].srv = goals[k].srv /\ g[k].onIdle = goals[k].onIdle
           /\ g[k].cancelRequested = goals[k].cancelRequested
           /\ k # n => g[k].cb = goals[k].cb
      /\ g[n].cb = "done"
  BY <1>2, <1>4
<1> HIDE DEF g
<1>6. ASSUME IsCurrent(next.gid)
      PROVE  /\ active /\ next.gid = goalId /\ goalId > 0 /\ onLiveIdle.gid = 0
             /\ \A k \in 1..Len(goals) :
                  /\ goals[k].gid < goalId
                  /\ ~(g[k].cb \in {"finish", "idle"} /\ g[k].onIdle.gid = goalId)
  <2>1. active /\ next.gid = goalId /\ goalId > 0
    BY <1>6 DEF IsCurrent, DispatchedOnce
  <2>2. Holds(n)
    BY <1>1, <2>1 DEF Holds
  <2>3. /\ \A k \in 1..Len(goals) : goals[k].gid < goalId
        /\ \A k \in 1..Len(goals) : Holds(k) => k = n
        /\ onLiveIdle.gid = 0
    BY <2>1, <2>2 DEF DispatchedOnce
  <2>4. \A k \in 1..Len(goals) : ~(g[k].cb \in {"finish", "idle"} /\ g[k].onIdle.gid = goalId)
    BY <1>5, <2>3 DEF Holds
  <2> QED
    BY <2>1, <2>3, <2>4
<1>7. CASE /\ IsCurrent(next.gid) /\ CanSend(next.bt)
           /\ liveState' = "PENDING" /\ liveBt' = next.bt
           /\ liveCanceling' = FALSE
           /\ goals' = Append(g, NewGoal(next.gid, next.bt, "unsent"))
           /\ UNCHANGED onLiveIdle
  <2>1. \A k \in 1..Len(goals) : goals[k].srv # "unsent"
    BY <1>0, <1>6, <1>7 DEF UnsentIsGuarded, CanSend, IsCurrent
  <2>2. next.gid \in Nat \ {0} /\ goalId <= next.gid
    BY <1>0, <1>6, <1>7
  <2>3. /\ resultCallback' \in Callbacks /\ through' \in BOOLEAN /\ planAdopted' \in BOOLEAN
        /\ goalId' = next.gid /\ active' = TRUE
    BY <1>1, <1>6, <1>7 DEF NavTypeOK
  <2>4. \A k \in 1..Len(goals) :
          /\ g[k].gid = goals[k].gid /\ g[k].bt = goals[k].bt
          /\ g[k].srv = goals[k].srv /\ g[k].onIdle = goals[k].onIdle
          /\ g[k].cancelRequested = goals[k].cancelRequested
          /\ goals[k].srv # "unsent" /\ goals[k].gid < next.gid
          /\ ~(g[k].cb \in {"finish", "idle"} /\ g[k].onIdle.gid = next.gid)
    BY <1>5, <1>6, <1>7, <2>1
  <2>5. wire' = IF "unsent" = "wire" THEN Append(wire, Len(goals) + 1) ELSE wire
    BY <1>1
  <2>6. onLiveIdle.gid = 0 /\ "unsent" \in {"unsent", "wire"} /\ reports' = reports
    BY <1>1, <1>6, <1>7
  <2> HIDE DEF next
  <2> QED
    BY <1>0, <1>4, <1>7, <2>2, <2>3, <2>4, <2>5, <2>6, SentInv
<1>8. CASE /\ IsCurrent(next.gid) /\ ~CanSend(next.bt)
           /\ onLiveIdle' = next /\ liveCanceling' = TRUE
           /\ goals' = [CancelRequested EXCEPT ![n].cb = "done"]
           /\ UNCHANGED <<liveState, liveBt>>
  <2>1. /\ CancelRequested \in Seq(Goals) /\ Len(CancelRequested) = Len(goals)
        /\ \A k \in 1..Len(goals) :
             /\ CancelRequested[k].gid = goals[k].gid /\ CancelRequested[k].bt = goals[k].bt
             /\ CancelRequested[k].srv = goals[k].srv /\ CancelRequested[k].cb = goals[k].cb
             /\ CancelRequested[k].onIdle = goals[k].onIdle
             /\ k # Len(goals) => CancelRequested[k] = goals[k]
             /\ k = Len(goals) =>
                  CancelRequested[k].cancelRequested =
                    (goals[k].cancelRequested \/ (liveState = "ACTIVE" /\ ~liveCanceling))
    BY CancelRequestedFields
  <2> DEFINE c == CancelRequested
             q == [c[n] EXCEPT !.cb = "done"]
  <2>2. c[n] \in Goals /\ \A k \in 1..Len(goals) : c[k] \in Goals
    BY <2>1
  <2>3. /\ q \in Goals /\ q.gid = c[n].gid /\ q.bt = c[n].bt
        /\ q.srv = c[n].srv /\ q.cancelRequested = c[n].cancelRequested
        /\ q.onIdle = c[n].onIdle /\ q.cb = "done"
    BY <2>2 DEF Goals
  <2>4. goals' = [c EXCEPT ![n] = q]
    BY <1>8, <2>1
  <2> HIDE DEF q, c
  <2>5. /\ goals' \in Seq(Goals) /\ Len(goals') = Len(goals) /\ goals'[n] = q
        /\ \A k \in 1..Len(goals) : k # n => goals'[k] = c[k]
    BY <2>1, <2>3, <2>4, ExceptSeq DEF c
  <2>6. \A k \in 1..Len(goals) :
          /\ goals'[k].gid = goals[k].gid /\ goals'[k].bt = goals[k].bt
          /\ goals'[k].srv = goals[k].srv /\ goals'[k].onIdle = goals[k].onIdle
          /\ goals'[k].cancelRequested = c[k].cancelRequested
          /\ k # n => goals'[k].cb = goals[k].cb
    BY <2>1, <2>3, <2>5 DEF c
  <2>7. goals'[n].cb = "done"
    BY <2>3, <2>5
  <2>8. \A k \in 1..Len(goals) :
          /\ goals'[k].cb = goals[k].cb \/ (goals[k].cb = "idle" /\ goals'[k].cb = "done")
          /\ k # Len(goals) => goals'[k].cancelRequested = goals[k].cancelRequested
          /\ k = Len(goals) =>
               goals'[k].cancelRequested =
                 (goals[k].cancelRequested \/ (liveState = "ACTIVE" /\ ~liveCanceling))
    BY <1>1, <2>1, <2>6, <2>7 DEF c
  <2>9. \A k \in 1..Len(goals) :
          ~(goals'[k].cb \in {"finish", "idle"} /\ goals'[k].onIdle.gid = next.gid)
    BY <1>5, <1>6, <1>8, <2>6, <2>7
  <2>10. next.gid \in Nat \ {0} /\ goalId <= next.gid
    BY <1>0, <1>6, <1>8
  <2>11. /\ resultCallback' \in Callbacks /\ through' \in BOOLEAN /\ planAdopted' \in BOOLEAN
         /\ goalId' = next.gid /\ active' = TRUE
         /\ \A k \in 1..Len(goals) : goals[k].gid < next.gid
    BY <1>1, <1>6, <1>8 DEF NavTypeOK
  <2>12. onLiveIdle' = [gid |-> next.gid, bt |-> next.bt]
    BY <1>0, <1>8
  <2>13. \A k \in 1..Len(goals) :
          /\ goals'[k].gid = goals[k].gid /\ goals'[k].bt = goals[k].bt
          /\ goals'[k].srv = goals[k].srv /\ goals'[k].onIdle = goals[k].onIdle
          /\ goals'[k].cb = goals[k].cb \/ (goals[k].cb = "idle" /\ goals'[k].cb = "done")
          /\ k # Len(goals) => goals'[k].cancelRequested = goals[k].cancelRequested
          /\ k = Len(goals) =>
               goals'[k].cancelRequested =
                 (goals[k].cancelRequested \/ (liveState = "ACTIVE" /\ ~liveCanceling))
          /\ goals[k].gid < next.gid
          /\ ~(goals'[k].cb \in {"finish", "idle"} /\ goals'[k].onIdle.gid = next.gid)
    BY <2>6, <2>8, <2>9, <2>11
  <2>14. UNCHANGED <<liveState, liveBt, wire, reports>>
    BY <1>1, <1>8
  <2> HIDE DEF next
  <2> QED
    BY <1>0, <1>8, <2>5, <2>10, <2>11, <2>12, <2>13, <2>14, WaitInv
<1>9. CASE ~IsCurrent(next.gid) /\ goals' = g /\ UNCHANGED liveVars
  <2>1. UNCHANGED <<liveState, liveBt, liveCanceling, onLiveIdle>>
    BY <1>9 DEF liveVars
  <2>2. NavTypeOK'
    BY <1>1, <1>4, <1>9, <2>1 DEF NavTypeOK
  <2>3. LiveFollowsCallback'
    <3>1. \A k \in 1..Len(goals) : \A c \in {"response", "result"} :
            g[k].cb = c <=> goals[k].cb = c
      BY <1>1, <1>5
    <3>2. Len(goals) > 0 => Len(goals) \in 1..Len(goals)
      BY <1>0
    <3> QED
      BY <1>0, <1>4, <1>5, <1>9, <2>1, <3>1, <3>2, LiveKept
  <2>4. UnsentIsGuarded' /\ WaitingSendHasATrigger'
    BY <1>1, <1>4, <1>5, <1>9, <2>1 DEF UnsentIsGuarded, WaitingSendHasATrigger, IsCurrent
  <2>5. \A k \in 1..Len(goals) : Holds(k)' => Holds(k)
    BY <1>1, <1>5, <1>9 DEF Holds
  <2>6. DispatchedOnce'
    BY <1>1, <1>4, <1>5, <1>9, <2>1, <2>5, OnceKept
  <2>7. ActiveGoalIsCarried'
    <3>1. \A k \in 1..Len(goals) : (active /\ Carries(k)) => Carries(k)'
      BY <1>1, <1>5, <1>9 DEF Carries, IsCurrent
    <3> QED
      BY <1>1, <1>4, <1>9, <2>1, <3>1 DEF ActiveGoalIsCarried
  <2> QED
    BY <1>0, <1>1, <1>4, <1>5, <1>9, <2>2, <2>3, <2>4, <2>6, <2>7, OrderKept, WireKept
<1> QED
  BY <1>3, <1>7, <1>8, <1>9 DEF RunOnIdle

\* The head of the wire is the oldest goal on it; behind it the rest stays.
LEMMA WireHead ==
    ASSUME NavInv, wire # <<>>
    PROVE  /\ Head(wire) \in 1..Len(goals) /\ goals[Head(wire)].srv = "wire"
           /\ Tail(wire) \in Seq(Nat \ {0}) /\ Len(Tail(wire)) = Len(wire) - 1
           /\ Len(wire) \in Nat /\ Len(wire) > 0
           /\ \A i \in 1..Len(Tail(wire)) : i + 1 \in 1..Len(wire) /\ Tail(wire)[i] = wire[i + 1]
           /\ Head(wire) = wire[1] /\ 1 \in 1..Len(wire)
           /\ \A k \in 1..Len(goals) : goals[k].srv = "wire" => Head(wire) <= k
<1> USE DEF NavInv
<1>1. wire \in Seq(Nat \ {0})
  BY DEF NavTypeOK
<1>2. Len(wire) \in Nat /\ Len(wire) > 0 /\ Head(wire) = wire[1] /\ 1 \in 1..Len(wire)
  BY <1>1
<1>3. Tail(wire) \in Seq(Nat \ {0}) /\ Len(Tail(wire)) = Len(wire) - 1
  BY <1>1
<1>4. \A i \in 1..Len(Tail(wire)) : i + 1 \in 1..Len(wire) /\ Tail(wire)[i] = wire[i + 1]
  BY <1>1, <1>2, <1>3
<1>5. Head(wire) \in 1..Len(goals) /\ goals[Head(wire)].srv = "wire"
  BY <1>2 DEF WireIsTheGoals
<1>6. ASSUME NEW k \in 1..Len(goals), goals[k].srv = "wire" PROVE Head(wire) <= k
  <2>1. PICK i \in 1..Len(wire) : wire[i] = k
    BY <1>6 DEF WireIsTheGoals
  <2>2. i = 1 \/ wire[1] < wire[i]
    BY <1>2 DEF WireIsTheGoals
  <2>3. k \in Nat /\ Head(wire) \in Nat
    BY <1>5, GoalFields
  <2> QED
    BY <1>2, <2>1, <2>2, <2>3
<1> QED
  BY <1>2, <1>3, <1>4, <1>5, <1>6

\* Nav2 takes the head of the wire and ends it or runs it; goals that ran before
\* it may end.
LEMMA TakenInv ==
    ASSUME NavInv, wire # <<>>, wire' = Tail(wire),
           goals' \in Seq(Goals), Len(goals') = Len(goals),
           \A k \in 1..Len(goals) :
             /\ goals'[k].gid = goals[k].gid /\ goals'[k].bt = goals[k].bt
             /\ goals'[k].cb = goals[k].cb /\ goals'[k].onIdle = goals[k].onIdle
             /\ goals'[k].cancelRequested = goals[k].cancelRequested
             /\ k = Head(wire) => goals'[k].srv \in {"running"} \cup Ended
             /\ k # Head(wire) => \/ goals'[k].srv = goals[k].srv
                                  \/ goals[k].srv = "running" /\ goals'[k].srv \in Ended
             /\ k # Head(wire) => goals'[k].srv # "running",
           UNCHANGED <<goalId, active, resultCallback, through, planAdopted, reports>>,
           UNCHANGED <<liveState, liveBt, liveCanceling, onLiveIdle>>
    PROVE  NavInv'
<1> USE DEF NavInv
<1> DEFINE h == Head(wire)
<1>0. /\ Len(goals) \in Nat
      /\ \A k \in 1..Len(goals) : goals[k].srv \in {"unsent", "wire", "running"} \cup Ended
  BY GoalFields
<1>1. /\ h \in 1..Len(goals) /\ goals[h].srv = "wire"
      /\ Tail(wire) \in Seq(Nat \ {0}) /\ Len(Tail(wire)) = Len(wire) - 1
      /\ Len(wire) \in Nat /\ Len(wire) > 0
      /\ \A i \in 1..Len(Tail(wire)) : i + 1 \in 1..Len(wire) /\ Tail(wire)[i] = wire[i + 1]
      /\ h = wire[1] /\ 1 \in 1..Len(wire)
      /\ \A k \in 1..Len(goals) : goals[k].srv = "wire" => h <= k
  BY WireHead
<1> HIDE DEF h
<1>2. \A k \in 1..Len(goals) :
        /\ k = h => goals'[k].srv \in {"running"} \cup Ended
        /\ k # h => \/ goals'[k].srv = goals[k].srv
                    \/ goals[k].srv = "running" /\ goals'[k].srv \in Ended
        /\ k # h => goals'[k].srv # "running"
  BY DEF h
<1>3. NavTypeOK'
  BY <1>1 DEF NavTypeOK
<1>4. LiveFollowsCallback'
  <2>1. \A k \in 1..Len(goals) : goals[k].srv \in Ended => goals'[k].srv \in Ended
    BY <1>1, <1>2 DEF Ended
  <2>2. Len(goals) > 0 => Len(goals) \in 1..Len(goals)
    BY <1>0
  <2> QED
    BY <1>0, <2>1, <2>2, LiveKept
<1>5. ServedInOrder'
  <2> SUFFICES ASSUME NEW i \in 1..Len(goals), NEW j \in 1..Len(goals), i < j,
                      goals'[i].srv \notin Ended
               PROVE  /\ goals'[i].srv # "unsent" /\ goals'[j].srv \in {"unsent", "wire"}
                      /\ goals'[i].bt = goals'[j].bt /\ ~goals'[i].cancelRequested
    BY DEF ServedInOrder
  <2>1. goals[i].srv \notin Ended
    BY <1>1, <1>2 DEF Ended
  <2>2. /\ goals[i].srv # "unsent" /\ goals[j].srv \in {"unsent", "wire"}
        /\ goals[i].bt = goals[j].bt /\ ~goals[i].cancelRequested
    BY <2>1 DEF ServedInOrder
  <2>3. goals'[i].srv # "unsent"
    BY <1>2, <2>2 DEF Ended
  <2>4. j # h
    <3> SUFFICES ASSUME j = h PROVE FALSE
      OBVIOUS
    <3>1. i # h /\ goals'[i].srv = goals[i].srv /\ goals'[i].srv # "running"
      BY <1>0, <1>2
    <3>2. goals[i].srv = "wire"
      BY <1>0, <2>1, <2>2, <3>1
    <3> QED
      BY <1>0, <1>1, <3>2
  <2>5. goals'[j].srv = goals[j].srv
    BY <1>2, <2>2, <2>4
  <2> QED
    BY <2>2, <2>3, <2>5
<1>6. UnsentIsGuarded' /\ WaitingSendHasATrigger'
  BY <1>1, <1>2 DEF UnsentIsGuarded, WaitingSendHasATrigger, IsCurrent, Ended
<1>7. WireIsTheGoals'
  <2>1. /\ \A i \in 1..Len(wire) : wire[i] \in 1..Len(goals) /\ goals[wire[i]].srv = "wire"
        /\ \A i, j \in 1..Len(wire) : i < j => wire[i] < wire[j]
        /\ \A n \in 1..Len(goals) : goals[n].srv = "wire" =>
             \E i \in 1..Len(wire) : wire[i] = n
    BY DEF WireIsTheGoals
  <2>2. \A i \in 1..Len(Tail(wire)) :
          i \in Nat /\ i + 1 \in 1..Len(wire) /\ Tail(wire)[i] = wire[i + 1]
    BY <1>1
  <2>3. ASSUME NEW i \in 1..Len(Tail(wire))
        PROVE  Tail(wire)[i] \in 1..Len(goals) /\ goals'[Tail(wire)[i]].srv = "wire"
    <3>1. Tail(wire)[i] \in 1..Len(goals) /\ goals[Tail(wire)[i]].srv = "wire"
      BY <2>1, <2>2
    <3>2. 1 < i + 1 /\ wire[1] < wire[i + 1]
      BY <1>1, <2>1, <2>2
    <3>3. Tail(wire)[i] # h
      BY <1>0, <1>1, <2>2, <3>1, <3>2
    <3> QED
      BY <1>2, <3>1, <3>3
  <2>4. ASSUME NEW i \in 1..Len(Tail(wire)), NEW j \in 1..Len(Tail(wire)), i < j
        PROVE  Tail(wire)[i] < Tail(wire)[j]
    <3>1. i + 1 < j + 1
      BY <2>2, <2>4
    <3> QED
      BY <2>1, <2>2, <3>1
  <2>5. ASSUME NEW k \in 1..Len(goals), goals'[k].srv = "wire"
        PROVE  \E i \in 1..Len(Tail(wire)) : Tail(wire)[i] = k
    <3>1. k # h /\ goals[k].srv = "wire"
      BY <1>2, <2>5 DEF Ended
    <3>2. PICK i \in 1..Len(wire) : wire[i] = k
      BY <2>1, <3>1
    <3>3. i # 1
      BY <1>1, <3>1, <3>2
    <3>4. i - 1 \in 1..Len(Tail(wire)) /\ (i - 1) + 1 = i
      BY <1>1, <3>3
    <3>5. Tail(wire)[i - 1] = k
      BY <2>2, <3>2, <3>4
    <3> QED
      BY <3>4, <3>5
  <2> QED
    BY <2>3, <2>4, <2>5 DEF WireIsTheGoals
<1>8. \A k \in 1..Len(goals) : (Holds(k)' <=> Holds(k)) /\ (Carries(k)' <=> Carries(k))
  BY DEF Holds, Carries
<1>9. DispatchedOnce'
  BY <1>8, OnceKept
<1>10. ActiveGoalIsCarried'
  BY <1>8 DEF ActiveGoalIsCarried
<1> QED
  BY <1>3, <1>4, <1>5, <1>6, <1>7, <1>9, <1>10

\* Nav2 accepts the oldest request; by the invariant it never crosses trees.
LEMMA Nav2AcceptInv == ASSUME NavInv, Nav2Accept PROVE NavInv'
<1> USE DEF NavInv
<1> DEFINE h == Head(wire)
           cross == \E k \in Running : goals[k].bt # goals[h].bt
           s(k) == IF k = h THEN (IF cross THEN "aborted" ELSE "running")
                   ELSE IF k \in Running /\ ~cross THEN "aborted" ELSE goals[k].srv
<1>0. /\ Len(goals) \in Nat
      /\ \A k \in 1..Len(goals) : goals[k] \in Goals
      /\ \A k \in 1..Len(goals) : goals[k].srv \in {"unsent", "wire", "running"} \cup Ended
  BY GoalFields
<1>1. /\ wire # <<>> /\ wire' = Tail(wire)
      /\ goals' = [k \in 1..Len(goals) |-> [goals[k] EXCEPT !.srv = s(k)]]
      /\ UNCHANGED <<goalId, active, resultCallback, through, planAdopted, reports>>
      /\ UNCHANGED <<liveState, liveBt, liveCanceling, onLiveIdle>>
  BY DEF Nav2Accept, logicalVars, liveVars
<1>2. h \in 1..Len(goals) /\ goals[h].srv = "wire"
  BY <1>1, WireHead
<1>3. ~cross
  <2> SUFFICES ASSUME NEW k \in 1..Len(goals), goals[k].srv = "running"
               PROVE  goals[k].bt = goals[h].bt
    BY DEF Running
  <2>1. goals[k].srv \notin Ended /\ goals[h].srv \notin Ended
    BY <1>2 DEF Ended
  <2>2. CASE k < h
    BY <1>2, <2>1, <2>2 DEF ServedInOrder
  <2>3. CASE h < k
    BY <1>2, <2>1, <2>3 DEF ServedInOrder
  <2> QED
    BY <1>0, <1>2, <2>2, <2>3
<1>4. \A k \in 1..Len(goals) :
        /\ k = h => s(k) = "running"
        /\ k # h => s(k) = goals[k].srv \/ (goals[k].srv = "running" /\ s(k) = "aborted")
        /\ k # h => s(k) # "running"
  BY <1>3 DEF Running
<1>5. \A k \in 1..Len(goals) : s(k) \in {"unsent", "wire", "running"} \cup Ended
  BY <1>0, <1>4 DEF Ended
<1> HIDE DEF cross, s, h
<1>6. \A k \in 1..Len(goals) :
        /\ [goals[k] EXCEPT !.srv = s(k)] \in Goals
        /\ [goals[k] EXCEPT !.srv = s(k)].srv = s(k)
        /\ [goals[k] EXCEPT !.srv = s(k)].gid = goals[k].gid
        /\ [goals[k] EXCEPT !.srv = s(k)].bt = goals[k].bt
        /\ [goals[k] EXCEPT !.srv = s(k)].cb = goals[k].cb
        /\ [goals[k] EXCEPT !.srv = s(k)].onIdle = goals[k].onIdle
        /\ [goals[k] EXCEPT !.srv = s(k)].cancelRequested = goals[k].cancelRequested
  BY <1>0, <1>5 DEF Goals
<1>7. /\ goals' \in Seq(Goals) /\ Len(goals') = Len(goals)
      /\ \A k \in 1..Len(goals) : goals'[k] = [goals[k] EXCEPT !.srv = s(k)]
  <2>1. \A k \in 1..Len(goals) : [goals[k] EXCEPT !.srv = s(k)] \in Goals
    BY <1>6
  <2>2. goals' \in [1..Len(goals) -> Goals]
    BY <1>1, <2>1
  <2>3. goals' \in Seq(Goals)
    BY <1>0, <2>2
  <2>4. DOMAIN goals' = 1..Len(goals)
    BY <2>2
  <2>5. Len(goals') = Len(goals)
    BY <1>0, <2>3, <2>4
  <2> QED
    BY <1>1, <2>3, <2>5
<1>8. \A k \in 1..Len(goals) :
        /\ goals'[k].gid = goals[k].gid /\ goals'[k].bt = goals[k].bt
        /\ goals'[k].cb = goals[k].cb /\ goals'[k].onIdle = goals[k].onIdle
        /\ goals'[k].cancelRequested = goals[k].cancelRequested
        /\ goals'[k].srv = s(k)
  BY <1>6, <1>7
<1>9. \A k \in 1..Len(goals) :
        /\ k = Head(wire) => goals'[k].srv \in {"running"} \cup Ended
        /\ k # Head(wire) => \/ goals'[k].srv = goals[k].srv
                             \/ goals[k].srv = "running" /\ goals'[k].srv \in Ended
        /\ k # Head(wire) => goals'[k].srv # "running"
  BY <1>4, <1>8 DEF h, Ended
<1> QED
  BY <1>1, <1>7, <1>8, <1>9, TakenInv

\* Nav2 refuses the oldest request.
LEMMA Nav2RejectInv == ASSUME NavInv, Nav2Reject PROVE NavInv'
<1> USE DEF NavInv
<1> DEFINE h == Head(wire)
           r == [goals[h] EXCEPT !.srv = "rejected"]
<1>0. \A k \in 1..Len(goals) : goals[k] \in Goals
  BY GoalFields
<1>1. /\ wire # <<>> /\ wire' = Tail(wire) /\ Running = {}
      /\ goals' = [goals EXCEPT ![h].srv = "rejected"]
      /\ UNCHANGED <<goalId, active, resultCallback, through, planAdopted, reports>>
      /\ UNCHANGED <<liveState, liveBt, liveCanceling, onLiveIdle>>
  BY DEF Nav2Reject, logicalVars, liveVars
<1>2. h \in 1..Len(goals)
  BY <1>1, WireHead
<1> HIDE DEF h
<1>3. goals' = [goals EXCEPT ![h] = r]
  BY <1>1, <1>2 DEF NavTypeOK
<1>4. /\ r \in Goals /\ r.gid = goals[h].gid /\ r.bt = goals[h].bt
      /\ r.cb = goals[h].cb /\ r.cancelRequested = goals[h].cancelRequested
      /\ r.onIdle = goals[h].onIdle /\ r.srv = "rejected"
  BY <1>0, <1>2 DEF Goals, Ended
<1> HIDE DEF r
<1>5. /\ goals' \in Seq(Goals)
      /\ Len(goals') = Len(goals)
      /\ goals'[h] = r
      /\ \A k \in 1..Len(goals) : k # h => goals'[k] = goals[k]
  BY <1>2, <1>3, <1>4, GoalUpdated
<1>6. \A k \in 1..Len(goals) : goals[k].srv # "running"
  BY <1>1 DEF Running
<1>7. \A k \in 1..Len(goals) :
        /\ goals'[k].gid = goals[k].gid /\ goals'[k].bt = goals[k].bt
        /\ goals'[k].cb = goals[k].cb /\ goals'[k].onIdle = goals[k].onIdle
        /\ goals'[k].cancelRequested = goals[k].cancelRequested
        /\ k = h => goals'[k].srv \in {"running"} \cup Ended
        /\ k # h => goals'[k].srv = goals[k].srv
        /\ k # h => goals'[k].srv # "running"
  BY <1>4, <1>5, <1>6 DEF Ended
<1> QED
  BY <1>1, <1>5, <1>7, TakenInv DEF h

-----------------------------------------------------------------------------
\* The invariant is kept by every callback and every step of Nav2.
LEMMA ThreadsKeepNavInv == ASSUME NavInv, CallbackStep \/ Nav2Step PROVE NavInv'
<1>1. CASE CallbackStep
  <2>1. CASE PlanCallback
    BY <2>1, PlanInv
  <2>2. ASSUME NEW n \in 1..Len(goals),
               \/ ResponseCallback(n) \/ ResultDoneCallback(n)
               \/ Finish(n) \/ RunOnIdle(n) \/ Transmit(n) \/ FeedbackPassed(n)
        PROVE  NavInv'
    BY <2>2, ResponseInv, ResultDoneInv, FinishInv, RunOnIdleInv, TransmitInv, FeedbackInv
  <2> QED
    BY <1>1, <2>1, <2>2 DEF CallbackStep
<1>2. CASE Nav2Step
  <2>1. ASSUME NEW n \in 1..Len(goals), Nav2End(n) PROVE NavInv'
    BY <2>1, Nav2EndInv
  <2> QED
    BY <1>2, <2>1, Nav2AcceptInv, Nav2RejectInv DEF Nav2Step
<1> QED
  BY <1>1, <1>2

\* ... and by every call.
LEMMA NavInvInductive == NavInv /\ [NavNext]_navVars => NavInv'
<1> SUFFICES ASSUME NavInv, [NavNext]_navVars PROVE NavInv'
  OBVIOUS
<1>1. CASE CallSendGoal
  BY <1>1, SendGoalInv DEF CallSendGoal
<1>2. CASE CallCancel
  BY <1>2, CancelInv DEF CallCancel
<1>3. CASE \E r \in reports : Deliver(r)
  BY <1>3, NavFrame DEF Deliver
<1>4. CASE CallbackStep \/ Nav2Step
  BY <1>4, ThreadsKeepNavInv
<1>5. CASE UNCHANGED navVars
  <2>1. UNCHANGED <<logicalVars, liveVars, goals, wire>> /\ reports' \subseteq reports
    BY <1>5 DEF navVars
  <2> QED
    BY <2>1, NavFrame
<1> QED
  BY <1>1, <1>2, <1>3, <1>4, <1>5 DEF NavNext

\* ... and holds initially.
LEMMA NavInvInit == NavInit => NavInv
<1> SUFFICES ASSUME NavInit PROVE NavInv
  OBVIOUS
<1>1. NoDispatch \in Dispatches /\ NoDispatch.gid = 0
  BY BTsAssumption DEF NoDispatch, Dispatches
<1>2. goals = <<>> /\ wire = <<>> /\ Len(goals) = 0 /\ Len(wire) = 0
  BY DEF NavInit
<1>3. NavTypeOK
  <2>1. goals \in Seq(Goals) /\ wire \in Seq(Nat \ {0})
    BY <1>2
  <2>2. reports \subseteq Reports /\ goalId \in Nat /\ liveBt \in BTs
    BY BTsAssumption DEF NavInit
  <2>3. /\ active \in BOOLEAN /\ through \in BOOLEAN /\ planAdopted \in BOOLEAN
        /\ liveCanceling \in BOOLEAN /\ ~active
    BY Zenon DEF NavInit
  <2>4. /\ resultCallback \in Callbacks \cup {"None"} /\ onLiveIdle \in Dispatches
        /\ liveState \in {"NONE", "PENDING", "ACTIVE"}
    BY <1>1 DEF NavInit
  <2> QED
    BY <2>1, <2>2, <2>3, <2>4 DEF NavTypeOK
<1> QED
  BY <1>1, <1>2, <1>3 DEF NavInit, NavInv, LiveFollowsCallback, ServedInOrder, UnsentIsGuarded,
     WireIsTheGoals, DispatchedOnce, Holds, WaitingSendHasATrigger, ActiveGoalIsCarried

\* NavInv holds in every reachable state of the navigator.
THEOREM NavInvariance == NavSpec => []NavInv
  BY NavInvInit, NavInvInductive, PTL DEF NavSpec

\* No logical goal is lost, orphaned or left waiting for nothing between the
\* threads of the navigator (navigator.py: _dispatch, _mark_live_done and the
\* callbacks), for every set of trees and callbacks and any number of goals.
THEOREM GoalsAccountedFor == NavSpec => []GoalsAreAccountedFor
<1>1. NavInv => GoalsAreAccountedFor
  <2> SUFFICES ASSUME NavInv, NEW n \in 1..Len(goals), goals[n].srv = "running"
               PROVE  \/ n = liveSeq /\ liveState # "NONE"
                      \/ \E m \in (n + 1)..Len(goals) : goals[m].srv \in {"unsent", "wire"}
    BY DEF NavInv, GoalsAreAccountedFor, RunningGoalIsTracked, Running
  <2>0. n \in Nat /\ Len(goals) \in Nat /\ n <= Len(goals)
    BY GoalFields DEF NavInv
  <2>1. CASE n = Len(goals)
    BY <2>0, <2>1 DEF NavInv, LiveFollowsCallback, Ended, liveSeq
  <2>2. CASE n # Len(goals)
    <3>1. Len(goals) \in (n + 1)..Len(goals) /\ n < Len(goals) /\ Len(goals) \in 1..Len(goals)
      BY <2>0, <2>2
    <3>2. goals[Len(goals)].srv \in {"unsent", "wire"}
      BY <3>1 DEF NavInv, ServedInOrder, Ended
    <3> QED
      BY <3>1, <3>2
  <2> QED
    BY <2>1, <2>2
<1> QED
  BY <1>1, NavInvariance, PTL

\* Cancelling works across the wire (navigator.py: cancel, _begin_cancel_live,
\* _goal_response_callback): nothing is sent that Nav2 would refuse because of
\* what is being cancelled, and a cancel before the acceptance is made up for.
THEOREM CancelsHonoured == NavSpec => []CancelsAreHonoured
<1>1. NavInv => NeverPreemptsAcrossTrees
  <2> SUFFICES ASSUME NavInv, NEW n \in 1..Len(goals), goals[n].srv = "running",
                      NEW m \in 1..Len(goals), goals[m].srv = "wire"
               PROVE  goals[m].bt = goals[n].bt /\ ~goals[n].cancelRequested
    BY DEF NeverPreemptsAcrossTrees, Running
  <2>0. n \in Nat /\ m \in Nat /\ n # m
    BY GoalFields DEF NavInv
  <2>1. n < m
    <3> SUFFICES ASSUME m < n PROVE FALSE
      BY <2>0
    <3> QED
      BY DEF NavInv, ServedInOrder, Ended
  <2> QED
    BY <2>1 DEF NavInv, ServedInOrder, Ended
<1>2. NavInv => CancelIsNotForgotten
  <2> SUFFICES ASSUME NavInv, liveCanceling
               PROVE  \/ liveState = "PENDING" /\ goals[liveSeq].cb = "response"
                      \/ liveState = "ACTIVE" /\ goals[liveSeq].cancelRequested
    BY DEF CancelIsNotForgotten
  <2>1. liveState \in {"PENDING", "ACTIVE"} /\ Len(goals) > 0
    BY GoalFields DEF NavInv, NavTypeOK, LiveFollowsCallback
  <2> QED
    BY <2>1 DEF NavInv, LiveFollowsCallback, liveSeq
<1> QED
  BY <1>1, <1>2, NavInvariance, PTL DEF CancelsAreHonoured
=============================================================================
