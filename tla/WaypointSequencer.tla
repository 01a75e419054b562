-------------------------- MODULE WaypointSequencer --------------------------
(***************************************************************************)
(* The waypoint sequencer: its state machine (waypoint_sequencer/fsm.py)   *)
(* on top of WaypointNavigator, with the threads that drive it.            *)
(*                                                                         *)
(* Every method that takes the FSM's lock is one action.  The services and *)
(* topics of the node are in one mutually exclusive callback group, so one *)
(* command is served at a time; the countdown timer, the action executor   *)
(* and the Nav2 callbacks are threads of their own.  navigate_to_pose      *)
(* releases the lock while it switches the costmap layers, so it is two    *)
(* actions.  fsm.py expects other commands in between (its comments say    *)
(* so) and checks again afterwards; the node's callback group lets none    *)
(* in.  ServesWhileWaiting covers both.                                    *)
(***************************************************************************)
EXTENDS WaypointNavigator, FiniteSets

CONSTANTS WaypointLists,    \* waypoint files the node may load: sequences of
                            \* [through |-> BOOLEAN, actions |-> Seq(ActionTypes)]
          Requesters,       \* ids that send pause requests
          ManualModes,      \* modes of the manual goals sent ({}: none is sent)
          CostmapMayFail,   \* can the costmap's parameter service fail?
          ServesWhileWaiting,   \* are commands served while navigate_to_pose waits?
          MaxCommands       \* bound on the commands the node receives

ASSUME RequestersAssumption == IsFiniteSet(Requesters)
ASSUME MaxCommandsAssumption == MaxCommands \in Nat
ASSUME CostmapAssumption == CostmapMayFail \in BOOLEAN
ASSUME ServingAssumption == ServesWhileWaiting \in BOOLEAN
ASSUME SequencerCallbacks == Callbacks = {"sequence", "manual"}

VARIABLES
    state, waypoints, index, stopPending, preSuspend, slots,
    navigationMode, manualGoalActive, waitingTrigger,
    timerGeneration, timerArmed, timerFired,    \* CountdownTimer
    executing, actionsLeft,                     \* ActionExecutor's thread
    manualRequest,  \* navigate_to_pose between its two locked regions
    layersEnabled,  \* global_costmap's sensor obstacle layers (external)
    commands,       \* commands received so far
    \* history: a result was applied to a goal it is not about; a transition
    \* was refused; since the executor last switched the layers, a switch has
    \* failed or a manual goal has made one
    misapplied, refused, layersStrayed

timerVars == <<timerGeneration, timerArmed, timerFired>>
executorVars == <<executing, actionsLeft>>
runVars == <<index, stopPending, preSuspend, navigationMode>>
sendVars == <<logicalVars, liveVars, goals, wire>>
seqVars == <<state, waypoints, index, stopPending, preSuspend, slots,
             navigationMode, manualGoalActive, waitingTrigger, timerVars,
             executorVars, manualRequest, layersEnabled, commands, misapplied, refused,
             layersStrayed>>
vars == <<navVars, seqVars>>

States == {"IDLE", "NAVIGATING", "GOAL_REACHED", "SUSPENDED", "ERROR",
           "ON_STARTING", "ON_ARRIVING"}
Modes == {"normal", "queue_wait"}
\* "normal" and "queue_wait" stand for set_navigation_mode with that mode,
\* "other" for the actions that leave the sequencer alone.
ActionTypes == {"wait_trigger", "other"} \cup Modes

ASSUME WaypointListsAssumption ==
    WaypointLists \subseteq Seq([through : BOOLEAN, actions : Seq(ActionTypes)])
ASSUME ManualModesAssumption == ManualModes \subseteq Modes \cup {"default"}

\* as pairs of a state and one that may follow it
AllowedTransitions ==
    ({"IDLE"} \X {"ON_STARTING"})
    \cup ({"ON_STARTING"} \X {"NAVIGATING", "SUSPENDED", "IDLE"})
    \cup ({"NAVIGATING"} \X {"NAVIGATING", "ON_ARRIVING", "GOAL_REACHED", "IDLE",
                             "ERROR", "SUSPENDED"})
    \cup ({"ON_ARRIVING"} \X {"NAVIGATING", "GOAL_REACHED", "IDLE", "SUSPENDED"})
    \cup ({"GOAL_REACHED"} \X {"ON_STARTING", "IDLE"})
    \cup ({"SUSPENDED"} \X {"ON_STARTING", "NAVIGATING", "IDLE"})
    \cup ({"ERROR"} \X {"IDLE"})

ManualGoalStates == {"IDLE", "GOAL_REACHED", "ERROR"}

\* WaypointNavigator.behavior_tree_for
BehaviorTreeFor(mode) == CASE mode = "default"    -> DefaultBT
                           [] mode = "queue_wait" -> "queue_wait.xml"
                           [] OTHER               -> "normal.xml"

ASSUME TreesAssumption == {"queue_wait.xml", "normal.xml"} \subseteq BTs

Size == Len(waypoints)
\* _waypoints.get(_current_index); indices start at 0
CurrentWaypoint == waypoints[index + 1]

Init ==
    /\ NavInit
    /\ state = "IDLE" /\ waypoints \in WaypointLists /\ index = 0
    /\ stopPending = FALSE /\ preSuspend = "IDLE" /\ slots = {}
    /\ navigationMode = "normal" /\ manualGoalActive = FALSE
    /\ waitingTrigger = FALSE
    /\ timerGeneration = 0 /\ timerArmed = 0 /\ timerFired = {}
    /\ executing = FALSE /\ actionsLeft = <<>>
    /\ manualRequest = "none" /\ layersEnabled = TRUE
    /\ commands = 0
    /\ misapplied = FALSE /\ refused = FALSE /\ layersStrayed = FALSE

-----------------------------------------------------------------------------
(* Building blocks.                                                        *)

\* _transition leaves a state alone when the transition is not allowed
After(s, new) == IF <<s, new>> \in AllowedTransitions THEN new ELSE s

\* mutated form: a transition keeps the wait for a trigger
TransitionKeepsWait(new) ==
    /\ state' = After(state, new)
    /\ refused' = (refused \/ <<state, new>> \notin AllowedTransitions)
    /\ UNCHANGED waitingTrigger

Transition(new) ==
    /\ state' = After(state, new)
    /\ waitingTrigger' = (waitingTrigger /\ <<state, new>> \notin AllowedTransitions)
    /\ refused' = (refused \/ <<state, new>> \notin AllowedTransitions)

\* CountdownTimer.start and cancel; generation 0 in timerArmed: no timer.
TimerStart ==
    /\ timerGeneration' = timerGeneration + 1
    /\ timerArmed' = timerGeneration + 1
    /\ UNCHANGED timerFired

\* mutated form: a timer that has fired is not invalidated
TimerCancelKeepsGeneration ==
    /\ timerArmed' = 0
    /\ UNCHANGED <<timerGeneration, timerFired>>

TimerCancel ==
    /\ timerGeneration' = timerGeneration + 1
    /\ timerArmed' = 0
    /\ UNCHANGED timerFired

EnterOnStarting ==
    /\ Transition("ON_STARTING")
    /\ TimerStart

\* Either Nav2's server answers, or wait_for_server times out and the result
\* callback runs at once, inside send_goal.
EnterNavigating(i) ==
    /\ i < Size
    /\ LET w == waypoints[i + 1]
       IN  \/ /\ Transition("NAVIGATING")
              /\ SendGoal("sequence", BehaviorTreeFor(navigationMode), w.through)
           \/ /\ state' = After(After(state, "NAVIGATING"), "ERROR")
              /\ waitingTrigger' = FALSE
              /\ refused' = (refused \/ <<state, "NAVIGATING">> \notin AllowedTransitions)
              /\ SendGoalNoServer("sequence", w.through)

\* mutated form: the mode is switched by the executor only
ModeKept(actions, mode) == mode

\* The mode the set_navigation_mode actions of a list leave behind: the last
\* one wins.
ModeAfter(actions, mode) ==
    LET setters == {k \in 1..Len(actions) : actions[k] \in Modes}
    IN  IF setters = {} THEN mode
        ELSE actions[CHOOSE k \in setters : \A j \in setters : j <= k]

EnterOnArriving(actions) ==
    /\ Cancel
    /\ navigationMode' = ModeAfter(actions, navigationMode)
    /\ Transition("ON_ARRIVING")
    /\ executing' = TRUE /\ actionsLeft' = actions
    /\ UNCHANGED <<index, stopPending, preSuspend, slots>>

HasTrigger(w) == \E k \in 1..Len(w.actions) : w.actions[k] = "wait_trigger"

\* PauseSlotManager.is_active
Paused == slots # {}

\* mutated form: the deferred stop stays pending
TakeDeferredStopAgain ==
    /\ stopPending
    /\ slots' = {}
    /\ Cancel
    /\ Transition("IDLE")
    /\ UNCHANGED <<stopPending, index, preSuspend>>

TakeDeferredStop ==
    /\ stopPending
    /\ stopPending' = FALSE /\ slots' = {}
    /\ Cancel
    /\ Transition("IDLE")
    /\ UNCHANGED <<index, preSuspend>>

\* _advance_to_next, leaving the executor's thread to its caller
AdvanceToNext ==
    /\ \/ TakeDeferredStop
       \/ /\ ~stopPending
          /\ index' = index + 1
          /\ UNCHANGED <<stopPending, slots>>
          /\ \/ /\ index + 1 >= Size
                /\ Cancel
                /\ Transition("GOAL_REACHED")
                /\ UNCHANGED preSuspend
             \/ /\ index + 1 < Size /\ HasTrigger(CurrentWaypoint)
                /\ Cancel
                /\ state' = After(state, "IDLE")
                /\ waitingTrigger' = (state' = "IDLE")
                /\ refused' = (refused \/ <<state, "IDLE">> \notin AllowedTransitions)
                /\ UNCHANGED preSuspend
             \/ /\ index + 1 < Size /\ ~HasTrigger(CurrentWaypoint) /\ Paused
                /\ Cancel
                /\ preSuspend' = "NAVIGATING"
                /\ Transition("SUSPENDED")
             \/ /\ index + 1 < Size /\ ~HasTrigger(CurrentWaypoint) /\ ~Paused
                /\ EnterNavigating(index + 1)
                /\ UNCHANGED preSuspend
    /\ UNCHANGED navigationMode

-----------------------------------------------------------------------------
(* Commands.  A command that is refused changes nothing and is left out.   *)

Receive ==
    /\ manualRequest = "none" \/ ServesWhileWaiting
    /\ commands < MaxCommands
    /\ commands' = commands + 1
    /\ UNCHANGED <<reports, manualRequest, misapplied>>

SetNextIndex(i) ==
    /\ Receive
    /\ state \in {"IDLE", "SUSPENDED"}
    /\ i \in 0..(Size - 1)
    /\ index' = i
    /\ waitingTrigger' = FALSE
    /\ UNCHANGED <<sendVars, state, waypoints, stopPending, preSuspend, slots,
                   navigationMode, manualGoalActive, timerVars, executorVars,
                   layersEnabled, layersStrayed, refused>>

ReloadWaypoints(list) ==
    /\ Receive
    /\ state \in {"IDLE", "GOAL_REACHED", "ERROR"}
    /\ waypoints' = list
    /\ waitingTrigger' = FALSE
    /\ index' = IF Len(list) = 0 THEN 0
                ELSE IF index >= Len(list) THEN Len(list) - 1 ELSE index
    /\ UNCHANGED <<sendVars, state, stopPending, preSuspend, slots, navigationMode,
                   manualGoalActive, timerVars, executorVars, layersEnabled, layersStrayed, refused>>

Start ==
    /\ Receive
    /\ ~manualGoalActive
    /\ ~Paused
    /\ \/ state = "IDLE" /\ Size # 0 /\ UNCHANGED index
       \/ state = "GOAL_REACHED" /\ index' = 0
    /\ EnterOnStarting
    /\ UNCHANGED <<sendVars, waypoints, stopPending, preSuspend, slots,
                   navigationMode, manualGoalActive, executorVars, layersEnabled, layersStrayed>>

\* stop(): the navigator is cancelled for a manual goal and in NAVIGATING.
Stop ==
    /\ Receive
    /\ manualGoalActive' = FALSE
    /\ IF manualGoalActive \/ state = "NAVIGATING"
       THEN Cancel ELSE UNCHANGED sendVars
    /\ \/ /\ state = "IDLE"
          /\ UNCHANGED <<state, stopPending, slots, waitingTrigger, refused, timerVars>>
       \/ /\ state = "ON_ARRIVING"
          /\ stopPending' = TRUE
          /\ UNCHANGED <<state, slots, waitingTrigger, refused, timerVars>>
       \/ /\ state = "ON_STARTING"
          /\ TimerCancel
          /\ slots' = {} /\ Transition("IDLE") /\ UNCHANGED stopPending
       \/ /\ state \in {"NAVIGATING", "SUSPENDED", "GOAL_REACHED", "ERROR"}
          /\ slots' = {} /\ Transition("IDLE") /\ UNCHANGED <<stopPending, timerVars>>
    /\ UNCHANGED <<waypoints, index, preSuspend, navigationMode, executorVars,
                   layersEnabled, layersStrayed>>

\* pause_request(q, True) with _apply_pause
PauseRequest(q) ==
    /\ Receive
    /\ slots' = slots \cup {q}
    /\ \/ /\ state = "ON_STARTING"
          /\ TimerCancel
          /\ preSuspend' = "ON_STARTING"
          /\ Transition("SUSPENDED")
          /\ UNCHANGED sendVars
       \/ /\ state = "NAVIGATING"
          /\ Cancel
          /\ preSuspend' = "NAVIGATING"
          /\ Transition("SUSPENDED")
          /\ UNCHANGED timerVars
       \/ /\ state \notin {"ON_STARTING", "NAVIGATING"}
          /\ UNCHANGED <<sendVars, timerVars, state, waitingTrigger, refused, preSuspend>>
    /\ UNCHANGED <<waypoints, index, stopPending, navigationMode, manualGoalActive,
                   executorVars, layersEnabled, layersStrayed>>

\* pause_request(q, False) with _try_resume
ResumeRequest(q) ==
    /\ Receive
    /\ q \in slots
    /\ slots' = slots \ {q}
    /\ \/ /\ Paused' \/ state # "SUSPENDED"
          /\ UNCHANGED <<sendVars, timerVars, state, waitingTrigger, refused>>
       \/ /\ ~Paused' /\ state = "SUSPENDED" /\ preSuspend = "ON_STARTING"
          /\ EnterOnStarting
          /\ UNCHANGED sendVars
       \/ /\ ~Paused' /\ state = "SUSPENDED" /\ preSuspend # "ON_STARTING"
          /\ EnterNavigating(index)
          /\ UNCHANGED timerVars
    /\ UNCHANGED <<waypoints, index, stopPending, preSuspend, navigationMode,
                   manualGoalActive, executorVars, layersEnabled, layersStrayed>>

ManualGoalRejected == state \notin ManualGoalStates \/ Paused

\* navigate_to_pose up to the release of the lock
NavigateToPose(mode) ==
    /\ manualRequest = "none" /\ commands < MaxCommands
    /\ commands' = commands + 1
    /\ ~ManualGoalRejected
    /\ manualRequest' = mode
    /\ UNCHANGED <<navVars, state, waypoints, runVars, slots, manualGoalActive,
                   waitingTrigger, timerVars, executorVars, layersEnabled, layersStrayed,
                   misapplied, refused>>

\* set_global_obstacle_layers: the parameters are set atomically; a failure
\* is a refusal, or an answer that came too late.
SwitchLayers(mode, ok) ==
    LET enabled == mode # "queue_wait"
    IN  \/ ok /\ layersEnabled' = enabled
        \/ ~ok /\ CostmapMayFail /\ layersEnabled' \in {layersEnabled, enabled}

\* ... made for a manual goal
StrayLayers(mode, ok) == SwitchLayers(mode, ok) /\ layersStrayed' = TRUE

\* mutated form: the state is not looked at again
NavigateToPoseSendUnchecked ==
    /\ manualRequest # "none"
    /\ manualRequest' = "none"
    /\ IF manualRequest = "default" THEN UNCHANGED <<layersEnabled, layersStrayed>>
       ELSE StrayLayers(manualRequest, TRUE)
    /\ SendGoal("manual", BehaviorTreeFor(manualRequest), FALSE)
    /\ manualGoalActive' = TRUE
    /\ UNCHANGED <<reports, state, waypoints, runVars, slots, waitingTrigger,
                   timerVars, executorVars, commands, misapplied, refused>>

\* ... and from the answer of the costmap to the end
NavigateToPoseSend ==
    /\ manualRequest # "none"
    /\ manualRequest' = "none"
    /\ \/ /\ manualRequest # "default" /\ StrayLayers(manualRequest, FALSE)
          /\ UNCHANGED <<sendVars, manualGoalActive>>
       \/ /\ IF manualRequest = "default" THEN UNCHANGED <<layersEnabled, layersStrayed>>
             ELSE StrayLayers(manualRequest, TRUE)
          /\ \/ ManualGoalRejected /\ UNCHANGED <<sendVars, manualGoalActive>>
             \/ /\ ~ManualGoalRejected
                /\ SendGoal("manual", BehaviorTreeFor(manualRequest), FALSE)
                /\ manualGoalActive' = TRUE
             \/ /\ ~ManualGoalRejected
                /\ SendGoalNoServer("manual", FALSE)
                /\ manualGoalActive' = FALSE
    /\ UNCHANGED <<reports, state, waypoints, runVars, slots, waitingTrigger,
                   timerVars, executorVars, commands, misapplied, refused>>

-----------------------------------------------------------------------------
(* Threads.                                                                *)

TimerFires ==
    /\ timerArmed # 0
    /\ timerFired' = timerFired \cup {timerArmed}
    /\ timerArmed' = 0
    /\ UNCHANGED <<navVars, state, waypoints, runVars, slots, manualGoalActive,
                   waitingTrigger, timerGeneration, executorVars, manualRequest,
                   layersEnabled, layersStrayed, commands, misapplied, refused>>

\* An index past the list raises IndexError in the timer's thread, which dies.
OnStartingDone(generation) ==
    /\ generation \in timerFired
    /\ timerFired' = timerFired \ {generation}
    /\ \/ /\ state # "ON_STARTING" \/ generation # timerGeneration \/ index >= Size
          /\ UNCHANGED <<sendVars, state, waitingTrigger, refused>>
       \/ /\ state = "ON_STARTING" /\ generation = timerGeneration
          /\ EnterNavigating(index)
    /\ UNCHANGED <<reports, waypoints, runVars, slots, manualGoalActive,
                   timerGeneration, timerArmed, executorVars, manualRequest,
                   layersEnabled, layersStrayed, commands, misapplied>>

Applies(r) == state = "NAVIGATING" /\ r.res # "CANCELED"

OnNavigationResult(r) ==
    /\ r \in reports /\ r.to = "sequence"
    /\ reports' = reports \ {r}
    /\ misapplied' = (misapplied \/ (Applies(r) /\ r.gid # goalId))
    /\ \/ /\ ~Applies(r)
          /\ UNCHANGED <<sendVars, state, runVars, slots, waitingTrigger,
                         executorVars, refused>>
       \/ /\ Applies(r) /\ r.res = "FAILED"
          /\ Transition("ERROR")
          /\ UNCHANGED <<sendVars, runVars, slots, executorVars>>
       \/ /\ Applies(r) /\ r.res # "FAILED" /\ CurrentWaypoint.actions # <<>>
          /\ EnterOnArriving(CurrentWaypoint.actions)
       \/ /\ Applies(r) /\ r.res # "FAILED" /\ CurrentWaypoint.actions = <<>>
          /\ AdvanceToNext
          /\ UNCHANGED executorVars
    /\ UNCHANGED <<waypoints, manualGoalActive, timerVars, manualRequest,
                   layersEnabled, layersStrayed, commands>>

OnManualGoalResult(r) ==
    /\ r \in reports /\ r.to = "manual"
    /\ reports' = reports \ {r}
    /\ manualGoalActive' = FALSE
    /\ misapplied' = (misapplied \/ (manualGoalActive /\ r.gid # goalId))
    /\ UNCHANGED <<sendVars, state, waypoints, runVars, slots, waitingTrigger,
                   timerVars, executorVars, manualRequest, layersEnabled, layersStrayed,
                   commands, refused>>

\* One action of the executor's list; a failing one is logged and skipped.
ExecuteAction ==
    /\ executing /\ actionsLeft # <<>>
    /\ actionsLeft' = Tail(actionsLeft)
    /\ IF Head(actionsLeft) \in Modes
       THEN \E ok \in BOOLEAN : SwitchLayers(Head(actionsLeft), ok) /\ layersStrayed' = ~ok
       ELSE UNCHANGED <<layersEnabled, layersStrayed>>
    /\ UNCHANGED <<navVars, state, waypoints, runVars, slots, manualGoalActive,
                   waitingTrigger, timerVars, executing, manualRequest, commands,
                   misapplied, refused>>

\* done_callback at the end of the executor's thread
OnArrivingDone ==
    /\ executing /\ actionsLeft = <<>>
    /\ executing' = FALSE
    /\ \/ state # "ON_ARRIVING" /\ UNCHANGED <<sendVars, state, runVars, slots,
                                               waitingTrigger, refused>>
       \/ state = "ON_ARRIVING" /\ AdvanceToNext
    /\ UNCHANGED <<reports, waypoints, manualGoalActive, timerVars, actionsLeft,
                   manualRequest, layersEnabled, layersStrayed, commands, misapplied>>

-----------------------------------------------------------------------------
Command ==
    \/ Start \/ Stop
    \/ \E q \in Requesters : PauseRequest(q) \/ ResumeRequest(q)
    \/ \E i \in 0..(Size - 1) : SetNextIndex(i)
    \/ \E list \in WaypointLists : ReloadWaypoints(list)
    \/ \E mode \in ManualModes : NavigateToPose(mode)

Thread ==
    \/ NavigateToPoseSend
    \/ TimerFires
    \/ \E generation \in timerFired : OnStartingDone(generation)
    \/ \E r \in reports : OnNavigationResult(r) \/ OnManualGoalResult(r)
    \/ ExecuteAction
    \/ OnArrivingDone

Next ==
    \/ Command
    \/ Thread
    \/ (CallbackStep \/ Nav2Step) /\ UNCHANGED seqVars

Spec == Init /\ [][Next]_vars

-----------------------------------------------------------------------------
(* Fairness: every thread runs, Nav2 answers requests and ends a goal that *)
(* was asked to stop.  Nav2 need not end a goal otherwise (its recoveries  *)
(* are practically unlimited) and nobody need send a command.              *)

Fairness ==
    /\ WF_vars(Thread)
    /\ WF_vars(\E n \in 1..Len(goals) :
                 /\ \/ ResponseCallback(n) \/ ResultDoneCallback(n)
                    \/ Finish(n) \/ RunOnIdle(n) \/ Transmit(n)
                 /\ UNCHANGED seqVars)
    /\ WF_vars((Nav2Accept \/ Nav2Reject) /\ UNCHANGED seqVars)
    /\ WF_vars(\E n \in 1..Len(goals) :
                 goals[n].cancelRequested /\ Nav2End(n) /\ UNCHANGED seqVars)

FairSpec == Spec /\ Fairness

-----------------------------------------------------------------------------
(* Properties                                                              *)

\* The type invariant of the state machine and its threads.
SeqTypeOK ==
    /\ state \in States /\ waypoints \in WaypointLists /\ index \in Nat
    /\ stopPending \in BOOLEAN
    /\ preSuspend \in {"IDLE", "ON_STARTING", "NAVIGATING"}
    /\ slots \subseteq Requesters
    /\ navigationMode \in Modes /\ manualGoalActive \in BOOLEAN
    /\ waitingTrigger \in BOOLEAN
    /\ timerGeneration \in Nat /\ timerArmed \in Nat /\ timerFired \subseteq Nat
    /\ executing \in BOOLEAN /\ actionsLeft \in Seq(ActionTypes)
    /\ manualRequest \in ManualModes \cup {"none"}
    /\ layersEnabled \in BOOLEAN
    /\ commands \in 0..MaxCommands
    /\ misapplied \in BOOLEAN /\ refused \in BOOLEAN /\ layersStrayed \in BOOLEAN

\* The type invariant of the whole sequencer (fsm.py and navigator.py).
TypeOK == NavTypeOK /\ SeqTypeOK

\* A pause slot held by anybody keeps the sequence from counting down and from
\* driving, and SUSPENDED lasts exactly as long as somebody holds a slot:
\* pause_request, stop and the end of the on-arrival actions agree on it.
PauseHolds ==
    /\ state \in {"ON_STARTING", "NAVIGATING"} => slots = {}
    /\ state = "SUSPENDED" => slots # {}

\* _transition never finds its transition missing from ALLOWED_TRANSITIONS:
\* no caller goes on with effects of a state that was not entered.
NoTransitionRefused == ~refused

\* A deferred stop is pending only while the on-arrival actions run, so it can
\* never end a later run; and the executor's thread runs exactly in that state.
DeferredStopBelongsToActions ==
    /\ stopPending => state = "ON_ARRIVING"
    /\ executing <=> state = "ON_ARRIVING"

\* A countdown that can still start the drive belongs to ON_STARTING: pause,
\* stop and restart leave no timer behind that could.
NoStrayCountdown ==
    (timerArmed # 0 \/ timerGeneration \in timerFired) =>
        /\ state = "ON_STARTING"
        /\ timerArmed # 0 => timerArmed = timerGeneration /\ timerGeneration \notin timerFired

\* While the sequence drives there is a waypoint it drives to.
DrivesToAWaypoint == state = "NAVIGATING" => index < Size

\* What is reported as waiting for a trigger is so: the sequence is parked at a
\* waypoint that follows a wait_trigger one, whatever reloads, index changes
\* and manual goals came in between.
TriggerWaitIsGenuine ==
    waitingTrigger => /\ state = "IDLE" /\ index \in 1..(Size - 1)
                      /\ HasTrigger(waypoints[index])

\* Nothing is asked of Nav2 any more: no logical goal (so no waiting send
\* either), and whatever it still executes or is about to receive is being
\* cancelled.
Quiet ==
    /\ ~active
    /\ (\E n \in 1..Len(goals) : goals[n].srv \in {"unsent", "wire", "running"})
          => liveCanceling

\* Outside NAVIGATING and manual goals the navigator is quiet, whatever state
\* transition parked it and whatever callback was under way.  It holds until a
\* result is applied to a goal it is not about (OldResultsAreIgnored).
ParkedIsQuiet ==
    (~misapplied /\ state # "NAVIGATING" /\ ~manualGoalActive) => Quiet

\* The caller's discipline NavigatorCaller assumes: the sequence hands over a
\* goal only when the previous one was reported or cancelled, unless a result
\* was applied to a goal it is not about.
SendsOneAtATime ==
    [][(goalId' # goalId /\ state' = "NAVIGATING") => ~active \/ misapplied']_vars

\* The layers of the global costmap match the mode the waypoint goals are sent
\* with, although the mode is set by the FSM and the layers by the thread that
\* executes the actions - unless the last switch failed or a manual goal has
\* switched them since, and again from the next switch that succeeds.
LayersFollowMode ==
    state = "NAVIGATING" /\ ~layersStrayed => (layersEnabled <=> navigationMode # "queue_wait")

\* While a manual goal is marked as running the sequence is in a state that
\* does not drive, also when it was started while the costmap answered
\* navigate_to_pose (the second check sees it).
ManualExcludesSequence == manualGoalActive => state \in ManualGoalStates

\* the navigator has a manual goal in hand
ManualGoalRuns == active /\ resultCallback = "manual"

\* A manual goal that runs is marked, so that start() refuses, until a result
\* was applied to a goal it is not about: that of an earlier manual goal clears
\* the mark (OldResultsAreIgnored).
ManualGoalIsMarked == ManualGoalRuns => manualGoalActive \/ misapplied

\* A stop deferred by running actions takes effect.
DeferredStopHappens == stopPending ~> (state = "IDLE" /\ ~stopPending)

\* Whenever the sequence parks (paused, stopped, at its goal, running actions,
\* failed), Nav2 comes to rest, unless the sequence or a manual goal drives on.
ParkedComesToRest ==
    (state # "NAVIGATING" /\ ~manualGoalActive) ~>
        (Running = {} \/ state = "NAVIGATING" \/ manualGoalActive \/ misapplied)

\* A goal that had to wait for another one to end is sent, or given up.
WaitingSendIsReleased == (onLiveIdle.gid # 0) ~> (onLiveIdle.gid = 0)

\* The state machine's own books agree whichever thread ran last: pauses,
\* transitions, the deferred stop and the countdown (fsm.py: the four are
\* updated by different methods under one lock).
FsmIsConsistent ==
    /\ PauseHolds
    /\ NoTransitionRefused
    /\ DeferredStopBelongsToActions
    /\ NoStrayCountdown

\* The sequence's place in its list is a real one whatever was reloaded, moved
\* or parked meanwhile (fsm.py: reload_waypoints, set_next_index), and every
\* attribute keeps its type.
PositionIsGenuine == TypeOK /\ TriggerWaitIsGenuine /\ DrivesToAWaypoint

\* navigate_to_pose and its docstring: the sequence neither counts down nor
\* drives beside a manual goal, by the mark and by the goal itself, up to a late
\* result, whether commands are served while the costmap answers or not.
ManualIsExclusive == ManualExcludesSequence /\ ManualGoalIsMarked

\* What the threads owe each other is delivered: a deferred stop by the thread
\* of the executor, a waiting send by the thread that sees the live goal end.
PromisesAreKept == DeferredStopHappens /\ WaitingSendIsReleased

-----------------------------------------------------------------------------
\* doc/architecture.md: results that arrive after a cancel or after the next
\* goal was sent are ignored.  Here: the FSM never acts on the result of
\* another goal than the one it last sent.  The code does not keep this (a run
\* of its own shows how).
OldResultsAreIgnored == ~misapplied

=============================================================================
