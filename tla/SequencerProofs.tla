--------------------------- MODULE SequencerProofs ---------------------------
(***************************************************************************)
(* Theorems about WaypointSequencer, for every set of waypoint lists,      *)
(* requesters and modes, and for any number of commands.                   *)
(***************************************************************************)
EXTENDS WaypointSequencer, NavigatorProofs, DataInduction, TLAPS

\* A transition of the table is made, and is not a refused one.
LEMMA TransitionMoves ==
    ASSUME NEW new, <<state, new>> \in AllowedTransitions, Transition(new), refused = FALSE
    PROVE  state' = new /\ refused' = FALSE
BY DEF Transition, After

\* _enter_on_starting makes its transition and starts a new generation.
LEMMA EnterOnStartingMoves ==
    ASSUME state \in {"IDLE", "GOAL_REACHED", "SUSPENDED"}, refused = FALSE, EnterOnStarting
    PROVE  /\ state' = "ON_STARTING" /\ refused' = FALSE
           /\ timerGeneration' = timerGeneration + 1 /\ timerArmed' = timerGeneration + 1
           /\ timerFired' = timerFired
<1>1. <<state, "ON_STARTING">> \in AllowedTransitions
  BY DEF AllowedTransitions
<1> QED
  BY <1>1, TransitionMoves DEF EnterOnStarting, TimerStart

\* A goal that is handed over leaves the sequence driving, or in ERROR when
\* Nav2's server is not there.
LEMMA EnterNavigatingMoves ==
    ASSUME state \in {"ON_STARTING", "SUSPENDED", "NAVIGATING", "ON_ARRIVING"},
           refused = FALSE, NEW i, EnterNavigating(i)
    PROVE  state' \in {"NAVIGATING", "ERROR"} /\ refused' = FALSE
<1>1. <<state, "NAVIGATING">> \in AllowedTransitions
  BY DEF AllowedTransitions
<1>2. <<"NAVIGATING", "ERROR">> \in AllowedTransitions
  BY DEF AllowedTransitions
<1>3. After(After(state, "NAVIGATING"), "ERROR") = "ERROR"
  BY <1>1, <1>2 DEF After
<1>4. \/ Transition("NAVIGATING")
      \/ /\ state' = After(After(state, "NAVIGATING"), "ERROR")
         /\ refused' = (refused \/ <<state, "NAVIGATING">> \notin AllowedTransitions)
  BY DEF EnterNavigating
<1>5. CASE Transition("NAVIGATING")
  BY <1>1, <1>5, TransitionMoves
<1>6. CASE /\ state' = After(After(state, "NAVIGATING"), "ERROR")
           /\ refused' = (refused \/ <<state, "NAVIGATING">> \notin AllowedTransitions)
  BY <1>1, <1>3, <1>6
<1> QED
  BY <1>4, <1>5, <1>6

\* Where _advance_to_next leaves the sequence.
LEMMA AdvanceMoves ==
    ASSUME state \in {"NAVIGATING", "ON_ARRIVING"}, refused = FALSE,
           stopPending \in BOOLEAN, AdvanceToNext
    PROVE  /\ refused' = FALSE /\ stopPending' = FALSE
           /\ \/ state' \in {"IDLE", "GOAL_REACHED", "ERROR"}
              \/ state' = "SUSPENDED" /\ slots' # {}
              \/ state' = "NAVIGATING" /\ slots' = {}
<1>1. /\ <<state, "IDLE">> \in AllowedTransitions
      /\ <<state, "GOAL_REACHED">> \in AllowedTransitions
      /\ <<state, "SUSPENDED">> \in AllowedTransitions
  BY DEF AllowedTransitions
<1>2. CASE TakeDeferredStop
  BY <1>1, <1>2, TransitionMoves DEF TakeDeferredStop
<1>3. CASE ~stopPending /\ UNCHANGED <<stopPending, slots>> /\ Transition("GOAL_REACHED")
  BY <1>1, <1>3, TransitionMoves
<1>4. CASE /\ ~stopPending /\ UNCHANGED <<stopPending, slots>>
           /\ state' = After(state, "IDLE")
           /\ refused' = (refused \/ <<state, "IDLE">> \notin AllowedTransitions)
  BY <1>1, <1>4 DEF After
<1>5. CASE ~stopPending /\ UNCHANGED <<stopPending, slots>> /\ Paused /\ Transition("SUSPENDED")
  BY <1>1, <1>5, TransitionMoves DEF Paused
<1>6. CASE ~stopPending /\ UNCHANGED <<stopPending, slots>> /\ ~Paused /\ EnterNavigating(index + 1)
  BY <1>6, EnterNavigatingMoves DEF Paused
<1> QED
  BY <1>2, <1>3, <1>4, <1>5, <1>6 DEF AdvanceToNext

-----------------------------------------------------------------------------
(***************************************************************************)
(* The inductive invariant of the state machine.  PauseHolds and           *)
(* DeferredStopBelongsToActions need each other (a result that arrives in  *)
(* NAVIGATING must find no stop pending), and both need that no transition *)
(* is refused.                                                             *)
(***************************************************************************)

FsmTypes ==
    /\ state \in States /\ refused = FALSE
    /\ stopPending \in BOOLEAN /\ executing \in BOOLEAN /\ manualGoalActive \in BOOLEAN

FsmInv ==
    /\ FsmTypes
    /\ PauseHolds
    /\ DeferredStopBelongsToActions
    /\ ManualExcludesSequence

\* start() keeps the invariant.
LEMMA StartKeepsInv == ASSUME FsmInv, Start PROVE FsmInv'
<1>1. state \in {"IDLE", "GOAL_REACHED"} /\ EnterOnStarting
  BY DEF Start
<1>2. state' = "ON_STARTING" /\ refused' = FALSE
  BY <1>1, EnterOnStartingMoves DEF FsmInv, FsmTypes
<1>3. /\ slots = {} /\ ~manualGoalActive
      /\ UNCHANGED <<stopPending, slots, manualGoalActive, executing>>
  BY DEF Start, Receive, Paused, executorVars
<1> QED
  BY <1>1, <1>2, <1>3 DEF FsmInv, FsmTypes, States, PauseHolds, DeferredStopBelongsToActions,
     ManualExcludesSequence

\* stop() keeps the invariant, deferred or not.
LEMMA StopKeepsInv == ASSUME FsmInv, Stop PROVE FsmInv'
<1>1. manualGoalActive' = FALSE /\ executing' = executing
  BY DEF Stop, Receive, executorVars
<1>2. CASE state \in {"IDLE", "ON_ARRIVING"}
  <2>1. /\ state' = state /\ slots' = slots /\ refused' = refused
        /\ state = "IDLE" => stopPending' = stopPending
        /\ state = "ON_ARRIVING" => stopPending' = TRUE
    BY <1>2 DEF Stop
  <2>2. FsmTypes'
    BY <1>1, <1>2, <2>1 DEF FsmInv, FsmTypes
  <2>3. DeferredStopBelongsToActions'
    BY <1>1, <1>2, <2>1 DEF FsmInv, FsmTypes, DeferredStopBelongsToActions
  <2>4. PauseHolds' /\ ManualExcludesSequence'
    BY <1>1, <2>1 DEF FsmInv, PauseHolds, ManualExcludesSequence
  <2> QED
    BY <2>2, <2>3, <2>4 DEF FsmInv
<1>3. CASE state \in {"ON_STARTING", "NAVIGATING", "SUSPENDED", "GOAL_REACHED", "ERROR"}
  <2>1. Transition("IDLE") /\ slots' = {} /\ stopPending' = stopPending
    BY <1>3 DEF Stop
  <2>2. <<state, "IDLE">> \in AllowedTransitions
    BY <1>3 DEF AllowedTransitions
  <2>3. state' = "IDLE" /\ refused' = FALSE
    BY <2>1, <2>2, TransitionMoves DEF FsmInv, FsmTypes
  <2> QED
    BY <1>1, <1>3, <2>1, <2>3 DEF FsmInv, FsmTypes, States, PauseHolds,
       DeferredStopBelongsToActions, ManualExcludesSequence
<1> QED
  BY <1>2, <1>3 DEF FsmInv, FsmTypes, States

\* pause_request(q, True) keeps the invariant.
LEMMA PauseKeepsInv == ASSUME FsmInv, NEW q, PauseRequest(q) PROVE FsmInv'
<1>1. /\ slots' = slots \cup {q}
      /\ UNCHANGED <<stopPending, manualGoalActive, executing>>
  BY DEF PauseRequest, Receive, executorVars
<1>2. CASE state \in {"ON_STARTING", "NAVIGATING"}
  <2>1. Transition("SUSPENDED")
    BY <1>2 DEF PauseRequest
  <2>2. <<state, "SUSPENDED">> \in AllowedTransitions
    BY <1>2 DEF AllowedTransitions
  <2>3. state' = "SUSPENDED" /\ refused' = FALSE
    BY <2>1, <2>2, TransitionMoves DEF FsmInv, FsmTypes
  <2> QED
    BY <1>1, <1>2, <2>3 DEF FsmInv, FsmTypes, States, PauseHolds, ManualGoalStates,
       DeferredStopBelongsToActions, ManualExcludesSequence
<1>3. CASE state \notin {"ON_STARTING", "NAVIGATING"}
  <2>1. UNCHANGED <<state, refused>>
    BY <1>3 DEF PauseRequest
  <2> QED
    BY <1>1, <1>3, <2>1 DEF FsmInv, FsmTypes, PauseHolds, ManualGoalStates,
       DeferredStopBelongsToActions, ManualExcludesSequence
<1> QED
  BY <1>2, <1>3

\* pause_request(q, False) keeps the invariant.
LEMMA ResumeKeepsInv == ASSUME FsmInv, NEW q, ResumeRequest(q) PROVE FsmInv'
<1>1. UNCHANGED <<stopPending, manualGoalActive, executing>>
  BY DEF ResumeRequest, Receive, executorVars
<1>2. CASE (slots' # {} \/ state # "SUSPENDED") /\ slots' \subseteq slots /\ UNCHANGED <<state, refused>>
  BY <1>1, <1>2 DEF FsmInv, FsmTypes, PauseHolds, ManualGoalStates,
     DeferredStopBelongsToActions, ManualExcludesSequence
<1>3. CASE /\ slots' = {} /\ state = "SUSPENDED"
           /\ EnterOnStarting \/ EnterNavigating(index)
  <2>1. state' \in {"ON_STARTING", "NAVIGATING", "ERROR"} /\ refused' = FALSE
    BY <1>3, EnterOnStartingMoves, EnterNavigatingMoves DEF FsmInv, FsmTypes
  <2> QED
    BY <1>1, <1>3, <2>1 DEF FsmInv, FsmTypes, States, PauseHolds, ManualGoalStates,
       DeferredStopBelongsToActions, ManualExcludesSequence
<1> QED
  BY <1>2, <1>3 DEF ResumeRequest, Paused

\* Commands that only write variables the invariant does not read, and the
\* first half of navigate_to_pose.
LEMMA OtherCommandsKeepInv ==
    ASSUME FsmInv, \/ \E i \in 0..(Size - 1) : SetNextIndex(i)
                   \/ \E list \in WaypointLists : ReloadWaypoints(list)
                   \/ \E mode \in ManualModes : NavigateToPose(mode)
    PROVE  FsmInv'
<1>1. UNCHANGED <<state, refused, stopPending, slots, manualGoalActive, executing>>
  BY DEF SetNextIndex, ReloadWaypoints, NavigateToPose, Receive, executorVars, runVars
<1> QED
  BY <1>1 DEF FsmInv, FsmTypes, PauseHolds, DeferredStopBelongsToActions,
     ManualExcludesSequence, ManualGoalRejected, Paused

\* The second half of navigate_to_pose keeps the invariant.
LEMMA NavigateToPoseSendKeepsInv == ASSUME FsmInv, NavigateToPoseSend PROVE FsmInv'
<1>1. UNCHANGED <<state, refused, stopPending, slots, executing>>
  BY DEF NavigateToPoseSend, executorVars, runVars
<1>2. \/ manualGoalActive' = manualGoalActive
      \/ ~ManualGoalRejected /\ manualGoalActive' \in BOOLEAN
  BY DEF NavigateToPoseSend
<1> QED
  BY <1>1, <1>2 DEF FsmInv, FsmTypes, PauseHolds, DeferredStopBelongsToActions,
     ManualExcludesSequence, ManualGoalRejected

\* The end of a countdown, late or not, keeps the invariant.
LEMMA OnStartingDoneKeepsInv == ASSUME FsmInv, NEW g, OnStartingDone(g) PROVE FsmInv'
<1>1. UNCHANGED <<stopPending, slots, manualGoalActive, manualRequest, executing>>
  BY DEF OnStartingDone, executorVars, runVars
<1>2. CASE UNCHANGED <<state, refused>>
  BY <1>1, <1>2 DEF FsmInv, FsmTypes, PauseHolds, DeferredStopBelongsToActions,
     ManualExcludesSequence, ManualGoalRejected, Paused
<1>3. CASE state = "ON_STARTING" /\ EnterNavigating(index)
  <2>1. state' \in {"NAVIGATING", "ERROR"} /\ refused' = FALSE
    BY <1>3, EnterNavigatingMoves DEF FsmInv, FsmTypes
  <2>2. manualGoalActive = FALSE
    BY <1>3 DEF FsmInv, FsmTypes, ManualExcludesSequence,
       ManualGoalRejected, ManualGoalStates
  <2>3. slots = {} /\ stopPending = FALSE /\ executing = FALSE
    BY <1>3 DEF FsmInv, FsmTypes, PauseHolds, DeferredStopBelongsToActions
  <2>4. FsmTypes'
    BY <1>1, <2>1, <2>2, <2>3 DEF FsmTypes, States
  <2> QED
    BY <1>1, <2>1, <2>2, <2>3, <2>4 DEF FsmInv, PauseHolds,
       DeferredStopBelongsToActions, ManualExcludesSequence
<1> QED
  BY <1>2, <1>3 DEF OnStartingDone

\* Any result, late or not, keeps the invariant.
LEMMA ResultKeepsInv == ASSUME FsmInv, NEW r, OnNavigationResult(r) PROVE FsmInv'
<1>1. UNCHANGED <<manualGoalActive, manualRequest>>
  BY DEF OnNavigationResult
<1>2. CASE UNCHANGED <<state, refused, stopPending, slots, executing>>
  BY <1>1, <1>2 DEF FsmInv, FsmTypes, PauseHolds, DeferredStopBelongsToActions,
     ManualExcludesSequence, ManualGoalRejected, Paused
<1>3. CASE /\ state = "NAVIGATING"
           /\ \/ Transition("ERROR") /\ UNCHANGED <<stopPending, slots, executing>>
              \/ EnterOnArriving(CurrentWaypoint.actions)
              \/ AdvanceToNext /\ UNCHANGED executing
  <2>1. /\ slots = {} /\ stopPending = FALSE /\ executing = FALSE /\ refused = FALSE
        /\ manualGoalActive = FALSE
    BY <1>3 DEF FsmInv, FsmTypes, PauseHolds, DeferredStopBelongsToActions,
       ManualExcludesSequence, ManualGoalRejected, ManualGoalStates
  <2>2. /\ <<state, "ERROR">> \in AllowedTransitions
        /\ <<state, "ON_ARRIVING">> \in AllowedTransitions
    BY <1>3 DEF AllowedTransitions
  <2>3. CASE Transition("ERROR") /\ UNCHANGED <<stopPending, slots, executing>>
    <3>1. state' = "ERROR" /\ refused' = FALSE
      BY <2>1, <2>2, <2>3, TransitionMoves
    <3>2. FsmTypes'
      BY <1>1, <2>1, <2>3, <3>1 DEF FsmTypes, States
    <3> QED
      BY <1>1, <2>1, <2>3, <3>1, <3>2 DEF FsmInv, PauseHolds,
         DeferredStopBelongsToActions, ManualExcludesSequence
  <2>4. CASE EnterOnArriving(CurrentWaypoint.actions)
    <3>1. /\ Transition("ON_ARRIVING") /\ executing' = TRUE
          /\ stopPending' = stopPending /\ slots' = slots
      BY <2>4 DEF EnterOnArriving
    <3>2. state' = "ON_ARRIVING" /\ refused' = FALSE
      BY <2>1, <2>2, <3>1, TransitionMoves
    <3> QED
      BY <1>1, <2>1, <3>1, <3>2 DEF FsmInv, FsmTypes, States, PauseHolds,
         DeferredStopBelongsToActions, ManualExcludesSequence
  <2>5. CASE AdvanceToNext /\ UNCHANGED executing
    <3>1. /\ refused' = FALSE /\ stopPending' = FALSE
          /\ \/ state' \in {"IDLE", "GOAL_REACHED", "ERROR"}
             \/ state' = "SUSPENDED" /\ slots' # {}
             \/ state' = "NAVIGATING" /\ slots' = {}
      BY <1>3, <2>1, <2>5, AdvanceMoves
    <3> QED
      BY <1>1, <2>1, <2>5, <3>1 DEF FsmInv, FsmTypes, States, PauseHolds,
         DeferredStopBelongsToActions, ManualExcludesSequence
  <2> QED
    BY <1>3, <2>3, <2>4, <2>5
<1> QED
  BY <1>2, <1>3 DEF OnNavigationResult, Applies, runVars, executorVars

\* The end of the executor's thread keeps the invariant.
LEMMA ArrivingDoneKeepsInv == ASSUME FsmInv, OnArrivingDone PROVE FsmInv'
<1>1. executing = TRUE /\ executing' = FALSE /\ UNCHANGED <<manualGoalActive, manualRequest>>
  BY DEF OnArrivingDone, FsmInv, FsmTypes
<1>2. state = "ON_ARRIVING" /\ AdvanceToNext
  BY <1>1 DEF OnArrivingDone, FsmInv, DeferredStopBelongsToActions
<1>3. /\ refused' = FALSE /\ stopPending' = FALSE
      /\ \/ state' \in {"IDLE", "GOAL_REACHED", "ERROR"}
         \/ state' = "SUSPENDED" /\ slots' # {}
         \/ state' = "NAVIGATING" /\ slots' = {}
  BY <1>2, AdvanceMoves DEF FsmInv, FsmTypes
<1>4. manualGoalActive = FALSE
  BY <1>2 DEF FsmInv, FsmTypes, ManualExcludesSequence,
     ManualGoalRejected, ManualGoalStates
<1> QED
  BY <1>1, <1>3, <1>4 DEF FsmInv, FsmTypes, States, PauseHolds,
     DeferredStopBelongsToActions, ManualExcludesSequence

\* Every step of every thread keeps the invariant.
LEMMA NextKeepsFsmInv == FsmInv /\ [Next]_vars => FsmInv'
<1> SUFFICES ASSUME FsmInv, [Next]_vars PROVE FsmInv'
  OBVIOUS
<1>1. CASE Command
  BY <1>1, StartKeepsInv, StopKeepsInv, PauseKeepsInv, ResumeKeepsInv, OtherCommandsKeepInv
  DEF Command
<1>2. CASE Thread
  <2>1. CASE TimerFires \/ ExecuteAction \/ \E r \in reports : OnManualGoalResult(r)
    <3>1. /\ UNCHANGED <<state, refused, stopPending, slots, executing, manualRequest>>
          /\ manualGoalActive' = manualGoalActive \/ manualGoalActive' = FALSE
      BY <2>1 DEF TimerFires, ExecuteAction, OnManualGoalResult, executorVars, runVars
    <3>2. CASE manualGoalActive' = manualGoalActive
      BY <3>1, <3>2 DEF FsmInv, FsmTypes, ManualExcludesSequence, PauseHolds,
         DeferredStopBelongsToActions, ManualGoalRejected, Paused
    <3>3. CASE manualGoalActive' = FALSE
      <4>1. FsmTypes'
        BY <3>1, <3>3 DEF FsmInv, FsmTypes
      <4>2. ManualExcludesSequence'
        BY <3>3 DEF ManualExcludesSequence
      <4> QED
        BY <3>1, <4>1, <4>2 DEF FsmInv, PauseHolds, DeferredStopBelongsToActions, ManualGoalRejected, Paused
    <3> QED
      BY <3>1, <3>2, <3>3
  <2> QED
    BY <1>2, <2>1, NavigateToPoseSendKeepsInv, OnStartingDoneKeepsInv, ResultKeepsInv,
       ArrivingDoneKeepsInv DEF Thread
<1>3. CASE UNCHANGED seqVars
  BY <1>3 DEF seqVars, executorVars, FsmInv, FsmTypes, PauseHolds, ManualExcludesSequence,
     DeferredStopBelongsToActions, ManualGoalRejected, Paused
<1> QED
  BY <1>1, <1>2, <1>3 DEF Next, vars

\* The sequencer as it is constructed.
LEMMA InitFsmInv == Init => FsmInv
BY DEF Init, FsmInv, FsmTypes, States, PauseHolds, ManualExcludesSequence,
   DeferredStopBelongsToActions

\* The invariant holds in every state the threads can reach.
THEOREM FsmInvariant == Spec => []FsmInv
BY InitFsmInv, NextKeepsFsmInv, PTL DEF Spec

\* No interleaving of pause requests, stops, results and executed actions lets
\* the sequence count down or drive while somebody holds a pause slot, or stay
\* SUSPENDED when nobody does (fsm.py: _apply_pause, _try_resume, stop,
\* _advance_to_next).
THEOREM PausesAreKept == Spec => []PauseHolds
<1>1. FsmInv => PauseHolds
  BY DEF FsmInv
<1> QED
  BY <1>1, FsmInvariant, PTL

\* ALLOWED_TRANSITIONS is complete: no caller of _transition, in any thread, is
\* ever refused.
THEOREM TransitionsAreComplete == Spec => []NoTransitionRefused
<1>1. FsmInv => NoTransitionRefused
  BY DEF FsmInv, FsmTypes, NoTransitionRefused
<1> QED
  BY <1>1, FsmInvariant, PTL

\* A deferred stop never outlives the actions it waits for, and the executor's
\* thread runs exactly in ON_ARRIVING.
THEOREM DeferredStopIsLocal == Spec => []DeferredStopBelongsToActions
<1>1. FsmInv => DeferredStopBelongsToActions
  BY DEF FsmInv
<1> QED
  BY <1>1, FsmInvariant, PTL

-----------------------------------------------------------------------------
(* The countdown.                                                          *)

\* NoStrayCountdown with the fact that makes a new generation a fresh one.
TimerInv ==
    /\ timerGeneration \in Nat /\ timerArmed \in Nat
    /\ timerFired \subseteq 0..timerGeneration
    /\ NoStrayCountdown

\* A step that leaves the timer alone may not leave ON_STARTING.
LEMMA TimerFrame ==
    ASSUME TimerInv, UNCHANGED timerVars, state' = state \/ state # "ON_STARTING"
    PROVE  TimerInv'
BY DEF TimerInv, NoStrayCountdown, timerVars

\* A new countdown has a generation that never fired before.
LEMMA TimerStarted ==
    ASSUME TimerInv, state \in {"IDLE", "GOAL_REACHED", "SUSPENDED"}, refused = FALSE,
           EnterOnStarting
    PROVE  TimerInv'
<1>1. /\ state' = "ON_STARTING" /\ timerFired' = timerFired
      /\ timerGeneration' = timerGeneration + 1 /\ timerArmed' = timerGeneration + 1
  BY EnterOnStartingMoves
<1>2. timerFired' \subseteq 0..timerGeneration' /\ timerGeneration' \notin timerFired'
  BY <1>1 DEF TimerInv
<1> QED
  BY <1>1, <1>2 DEF TimerInv, NoStrayCountdown

\* A cancelled countdown leaves a generation nobody holds.
LEMMA TimerCancelled ==
    ASSUME TimerInv, TimerCancel PROVE TimerInv'
<1>1. /\ timerGeneration' = timerGeneration + 1 /\ timerArmed' = 0
      /\ timerFired' = timerFired
  BY DEF TimerCancel
<1>2. timerFired' \subseteq 0..timerGeneration' /\ timerGeneration' \notin timerFired'
  BY <1>1 DEF TimerInv
<1> QED
  BY <1>1, <1>2 DEF TimerInv, NoStrayCountdown

\* The armed timer that fires is the current one.
LEMMA TimerFiresKeepsInv == ASSUME TimerInv, TimerFires PROVE TimerInv'
<1>1. /\ timerArmed # 0 /\ timerArmed' = 0 /\ timerGeneration' = timerGeneration
      /\ timerFired' = timerFired \cup {timerArmed} /\ state' = state
  BY DEF TimerFires
<1>2. timerArmed = timerGeneration /\ state = "ON_STARTING"
  BY <1>1 DEF TimerInv, NoStrayCountdown
<1> QED
  BY <1>1, <1>2 DEF TimerInv, NoStrayCountdown

\* The end of a countdown uses its generation up.
LEMMA StartingDoneKeepsTimer == ASSUME TimerInv, NEW g, OnStartingDone(g) PROVE TimerInv'
<1>1. /\ g \in timerFired /\ timerFired' = timerFired \ {g}
      /\ timerGeneration' = timerGeneration /\ timerArmed' = timerArmed
      /\ state' = state \/ g = timerGeneration
  BY DEF OnStartingDone
<1>2. CASE state' = state
  BY <1>1, <1>2 DEF TimerInv, NoStrayCountdown
<1>3. CASE g = timerGeneration
  <2>1. timerArmed' = 0 /\ timerGeneration' \notin timerFired'
    BY <1>1, <1>3 DEF TimerInv, NoStrayCountdown
  <2> QED
    BY <1>1, <2>1 DEF TimerInv, NoStrayCountdown
<1> QED
  BY <1>1, <1>2, <1>3

\* Pauses, stops and restarts leave no countdown behind that could start the
\* drive: CountdownTimer's generations, whichever thread comes first.
THEOREM CountdownsAreInvalidated == Spec => []NoStrayCountdown
<1>1. Init => TimerInv
  BY DEF Init, TimerInv, NoStrayCountdown
<1>2. FsmInv /\ TimerInv /\ [Next]_vars => TimerInv'
  <2> SUFFICES ASSUME FsmInv, TimerInv, [Next]_vars PROVE TimerInv'
    OBVIOUS
  <2>1. refused = FALSE
    BY DEF FsmInv, FsmTypes
  <2>2. CASE Start
    BY <2>1, <2>2, TimerStarted DEF Start
  <2>3. CASE Stop
    <3>1. TimerCancel \/ (UNCHANGED timerVars /\ (state' = state \/ state # "ON_STARTING"))
      BY <2>3 DEF Stop
    <3> QED
      BY <3>1, TimerCancelled, TimerFrame
  <2>4. ASSUME NEW q, PauseRequest(q) PROVE TimerInv'
    <3>1. TimerCancel \/ (UNCHANGED timerVars /\ (state' = state \/ state # "ON_STARTING"))
      BY <2>4 DEF PauseRequest
    <3> QED
      BY <3>1, TimerCancelled, TimerFrame
  <2>5. ASSUME NEW q, ResumeRequest(q) PROVE TimerInv'
    <3>1. \/ UNCHANGED timerVars /\ (state' = state \/ state # "ON_STARTING")
          \/ state = "SUSPENDED" /\ EnterOnStarting
      BY <2>5 DEF ResumeRequest
    <3> QED
      BY <2>1, <3>1, TimerStarted, TimerFrame
  <2>6. CASE \/ \E i \in 0..(Size - 1) : SetNextIndex(i)
             \/ \E list \in WaypointLists : ReloadWaypoints(list)
             \/ \E mode \in ManualModes : NavigateToPose(mode)
             \/ NavigateToPoseSend \/ ExecuteAction
             \/ \E r \in reports : OnManualGoalResult(r)
    <3>1. UNCHANGED timerVars /\ state' = state
      BY <2>6 DEF SetNextIndex, ReloadWaypoints, NavigateToPose, NavigateToPoseSend,
         ExecuteAction, OnManualGoalResult
    <3> QED
      BY <3>1, TimerFrame
  <2>7. CASE TimerFires
    BY <2>7, TimerFiresKeepsInv
  <2>8. ASSUME NEW g, OnStartingDone(g) PROVE TimerInv'
    BY <2>8, StartingDoneKeepsTimer
  <2>9. ASSUME NEW r, OnNavigationResult(r) PROVE TimerInv'
    <3>1. UNCHANGED timerVars /\ (state' = state \/ state # "ON_STARTING")
      BY <2>9 DEF OnNavigationResult, Applies
    <3> QED
      BY <3>1, TimerFrame
  <2>10. CASE OnArrivingDone
    <3>1. UNCHANGED timerVars /\ (state' = state \/ state # "ON_STARTING")
      BY <2>10 DEF OnArrivingDone
    <3> QED
      BY <3>1, TimerFrame
  <2>11. CASE UNCHANGED seqVars
    BY <2>11, TimerFrame DEF seqVars
  <2> QED
    BY <2>2, <2>3, <2>4, <2>5, <2>6, <2>7, <2>8, <2>9, <2>10, <2>11
    DEF Next, Command, Thread, vars
<1>3. TimerInv => NoStrayCountdown
  BY DEF TimerInv
<1> QED
  BY <1>1, <1>2, <1>3, FsmInvariant, PTL DEF Spec

\* The four books of the state machine agree in every reachable state.
THEOREM FsmStaysConsistent == Spec => []FsmIsConsistent
<1>1. PauseHolds /\ NoTransitionRefused /\ DeferredStopBelongsToActions /\ NoStrayCountdown
        => FsmIsConsistent
  BY DEF FsmIsConsistent
<1> QED
  BY <1>1, PausesAreKept, TransitionsAreComplete, DeferredStopIsLocal,
     CountdownsAreInvalidated, PTL

-----------------------------------------------------------------------------
(***************************************************************************)
(* The navigator's types, under the sequencer.  NavigatorProofs assumes a  *)
(* caller that never sends while a goal is active; manual goals may, so    *)
(* the types are proved again without that discipline.                     *)
(***************************************************************************)

NavShape ==
    /\ NavTypeOK
    /\ active => goalId > 0
    /\ liveState # "NONE" => Len(goals) > 0

\* A step that leaves the goals alone; it may deliver reports.
LEMMA ShapeFrame ==
    ASSUME NavShape, UNCHANGED <<logicalVars, liveVars, goals, wire>>, reports' \subseteq reports
    PROVE  NavShape'
<1>1. /\ UNCHANGED <<goalId, active, resultCallback, through, planAdopted>>
      /\ UNCHANGED <<liveState, liveBt, liveCanceling, onLiveIdle, goals, wire>>
  BY DEF logicalVars, liveVars
<1> QED
  BY <1>1 DEF NavShape, NavTypeOK

\* A cancel request leaves well-typed goals, as many as before.
LEMMA CancelRequestedType ==
    ASSUME NavShape
    PROVE  CancelRequested \in Seq(Goals) /\ Len(CancelRequested) = Len(goals)
<1>1. CASE liveState = "ACTIVE" /\ ~liveCanceling
  <2>1. Len(goals) \in 1..Len(goals) /\ goals \in Seq(Goals)
    BY <1>1 DEF NavShape, NavTypeOK
  <2> DEFINE r == [goals[Len(goals)] EXCEPT !.cancelRequested = TRUE]
  <2>2. r \in Goals
    BY <2>1, GoalType DEF Goals, NavShape
  <2>3. CancelRequested = [goals EXCEPT ![Len(goals)] = r]
    BY <1>1, <2>1 DEF CancelRequested, liveSeq
  <2> HIDE DEF r
  <2> QED
    BY <2>1, <2>2, <2>3, ExceptSeq
<1>2. CASE ~(liveState = "ACTIVE" /\ ~liveCanceling)
  BY <1>2 DEF CancelRequested, NavShape, NavTypeOK
<1> QED
  BY <1>1, <1>2

\* cancel().
LEMMA ShapeCancel ==
    ASSUME NavShape, Cancel, reports' \subseteq reports PROVE NavShape'
<1>1. /\ active' = FALSE /\ onLiveIdle' = NoDispatch /\ goals' = CancelRequested
      /\ liveCanceling' = (liveState # "NONE" \/ liveCanceling)
      /\ UNCHANGED <<goalId, resultCallback, through, planAdopted, liveState, liveBt, wire>>
  BY DEF Cancel, BeginCancelLive
<1>2. NoDispatch \in Dispatches
  BY BTsAssumption DEF NoDispatch, Dispatches
<1>3. goals' \in Seq(Goals) /\ Len(goals') = Len(goals)
  BY <1>1, CancelRequestedType
<1>4. NavTypeOK'
  BY <1>1, <1>2, <1>3 DEF NavShape, NavTypeOK
<1> QED
  BY <1>1, <1>3, <1>4 DEF NavShape

\* send_goal, whatever was active before.
LEMMA ShapeSend ==
    ASSUME NavShape, reports' \subseteq reports,
           NEW to \in Callbacks, NEW bt \in BTs, NEW th \in BOOLEAN,
           SendGoal(to, bt, th) \/ SendGoalNoServer(to, th)
    PROVE  NavShape'
<1>1. /\ goalId' = goalId + 1 /\ resultCallback' = to /\ through' = th
      /\ planAdopted' = FALSE
  BY DEF SendGoal, SendGoalNoServer, NewLogicalGoal
<1>2. goalId \in Nat /\ goalId' \in Nat /\ goalId' > 0
  BY <1>1 DEF NavShape, NavTypeOK
<1>3. CASE SendGoal(to, bt, th) /\ CanSend(bt)
  <2>1. /\ goals' = Append(goals, NewGoal(goalId + 1, bt, "wire"))
        /\ wire' = Append(wire, Len(goals) + 1)
        /\ liveState' = "PENDING" /\ liveBt' = bt /\ liveCanceling' = FALSE
        /\ onLiveIdle' = onLiveIdle /\ active' = TRUE
    BY <1>3 DEF SendGoal, Dispatch
  <2> DEFINE new == NewGoal(goalId + 1, bt, "wire")
  <2>2. new \in Goals
    BY <1>1, <1>2, NewGoalType
  <2>3. goals \in Seq(Goals) /\ goals' = Append(goals, new)
    BY <2>1 DEF NavShape, NavTypeOK
  <2> HIDE DEF new
  <2>4. goals' \in Seq(Goals) /\ Len(goals') = Len(goals) + 1 /\ Len(goals) \in Nat
    BY <2>2, <2>3
  <2>5. wire' \in Seq(Nat \ {0})
    <3>1. wire \in Seq(Nat \ {0}) /\ Len(goals) + 1 \in Nat \ {0}
      BY <2>4 DEF NavShape, NavTypeOK
    <3> QED
      BY <2>1, <3>1
  <2>6. NavTypeOK'
    BY <1>1, <1>2, <2>1, <2>4, <2>5 DEF NavShape, NavTypeOK
  <2> QED
    BY <1>2, <2>4, <2>6 DEF NavShape
<1>4. CASE SendGoal(to, bt, th) /\ ~CanSend(bt)
  <2>1. /\ goals' = CancelRequested /\ active' = TRUE
        /\ liveCanceling' = (liveState # "NONE" \/ liveCanceling)
        /\ onLiveIdle' = [gid |-> goalId + 1, bt |-> bt]
        /\ UNCHANGED <<liveState, liveBt, wire>>
    BY <1>4 DEF SendGoal, Dispatch, BeginCancelLive
  <2>2. onLiveIdle' \in Dispatches
    BY <1>1, <1>2, <2>1 DEF Dispatches
  <2>3. goals' \in Seq(Goals) /\ Len(goals') = Len(goals)
    BY <2>1, CancelRequestedType
  <2>4. NavTypeOK'
    BY <1>1, <1>2, <2>1, <2>2, <2>3 DEF NavShape, NavTypeOK
  <2> QED
    BY <1>2, <2>1, <2>3, <2>4 DEF NavShape
<1>5. CASE SendGoalNoServer(to, th)
  <2>1. /\ active' = FALSE /\ UNCHANGED <<goals, wire>>
        /\ UNCHANGED <<liveState, liveBt, liveCanceling, onLiveIdle>>
    BY <1>5 DEF SendGoalNoServer, liveVars
  <2>2. NavTypeOK'
    BY <1>1, <1>2, <2>1 DEF NavShape, NavTypeOK
  <2> QED
    BY <2>1, <2>2 DEF NavShape
<1> QED
  BY <1>3, <1>4, <1>5

\* A callback that rewrites one goal, its own.
LEMMA ShapeUpdate ==
    ASSUME NavShape, NEW n \in 1..Len(goals), NEW r \in Goals,
           goals' = [goals EXCEPT ![n] = r],
           UNCHANGED <<goalId, resultCallback, through, liveBt>>,
           active' \in BOOLEAN, active' => active, planAdopted' = planAdopted,
           liveState' \in {"NONE", "PENDING", "ACTIVE"}, liveCanceling' \in BOOLEAN,
           onLiveIdle' \in Dispatches, reports' \subseteq Reports,
           wire' \in Seq(Nat \ {0})
    PROVE  NavShape'
<1>1. goals' \in Seq(Goals) /\ Len(goals') = Len(goals) /\ Len(goals) > 0
  BY GoalUpdated DEF NavShape, NavTypeOK
<1>2. NavTypeOK'
  BY <1>1 DEF NavShape, NavTypeOK
<1> QED
  BY <1>1, <1>2 DEF NavShape

\* The trailing on_idle(): the waiting goal is sent, waits again, or is dropped.
LEMMA ShapeRunOnIdle ==
    ASSUME NavShape, NEW n \in 1..Len(goals), RunOnIdle(n) PROVE NavShape'
<1> DEFINE next == goals[n].onIdle
           r == [goals[n] EXCEPT !.cb = "done"]
           g == [goals EXCEPT ![n] = r]
<1>0. /\ goals[n] \in Goals /\ goals \in Seq(Goals) /\ Len(goals) \in Nat /\ Len(goals) > 0
      /\ next \in Dispatches /\ next.gid \in Nat /\ next.bt \in BTs
      /\ active \in BOOLEAN
  BY GoalFields DEF NavShape, NavTypeOK
<1>1. UNCHANGED <<goalId, active, resultCallback, through, planAdopted, reports, wire>>
  BY DEF RunOnIdle, logicalVars
<1>2. r \in Goals
  BY <1>0 DEF Goals
<1>3. g = [goals EXCEPT ![n].cb = "done"]
  BY <1>0
<1> HIDE DEF r
<1>4. g \in Seq(Goals) /\ Len(g) = Len(goals)
  BY <1>0, <1>2, ExceptSeq
<1>5. CASE /\ IsCurrent(next.gid)
           /\ liveState' = "PENDING" /\ liveBt' = next.bt /\ liveCanceling' = FALSE
           /\ goals' = Append(g, NewGoal(next.gid, next.bt, "unsent"))
           /\ UNCHANGED onLiveIdle
  <2> DEFINE new == NewGoal(next.gid, next.bt, "unsent")
  <2>1. next.gid \in Nat \ {0}
    BY <1>0, <1>5 DEF IsCurrent, NavShape
  <2>2. new \in Goals
    <3> HIDE DEF next
    <3> QED
      BY <1>0, <2>1, NewGoalType
  <2>3. goals' = Append(g, new)
    BY <1>5
  <2> HIDE DEF new, g
  <2>4. goals' \in Seq(Goals) /\ Len(goals') = Len(goals) + 1
    BY <1>4, <2>2, <2>3
  <2>5. NavTypeOK'
    BY <1>0, <1>1, <1>5, <2>4 DEF NavShape, NavTypeOK
  <2> QED
    BY <1>0, <1>1, <2>4, <2>5 DEF NavShape
<1>6. CASE /\ IsCurrent(next.gid)
           /\ onLiveIdle' = next /\ liveCanceling' = TRUE
           /\ goals' = [CancelRequested EXCEPT ![n].cb = "done"]
           /\ UNCHANGED <<liveState, liveBt>>
  <2>1. CancelRequested \in Seq(Goals) /\ Len(CancelRequested) = Len(goals)
    BY CancelRequestedType
  <2> DEFINE c == CancelRequested
             q == [c[n] EXCEPT !.cb = "done"]
  <2>2. c \in Seq(Goals) /\ Len(c) = Len(goals) /\ c[n] \in Goals
    BY <2>1
  <2>3. goals' = [c EXCEPT ![n].cb = "done"]
    BY <1>6
  <2> HIDE DEF c
  <2>4. q \in Goals /\ goals' = [c EXCEPT ![n] = q]
    BY <2>2, <2>3 DEF Goals
  <2> HIDE DEF q
  <2>5. goals' \in Seq(Goals) /\ Len(goals') = Len(goals)
    BY <2>2, <2>4, ExceptSeq
  <2>6. NavTypeOK'
    BY <1>0, <1>1, <1>6, <2>5 DEF NavShape, NavTypeOK
  <2> QED
    BY <1>1, <1>6, <2>5, <2>6 DEF NavShape
<1>7. CASE goals' = g /\ UNCHANGED liveVars
  <2>1. UNCHANGED <<liveState, liveBt, liveCanceling, onLiveIdle>>
    BY <1>7 DEF liveVars
  <2>2. goals' \in Seq(Goals) /\ Len(goals') = Len(goals)
    BY <1>4, <1>7
  <2> HIDE DEF g
  <2>3. NavTypeOK'
    BY <1>1, <2>1, <2>2 DEF NavShape, NavTypeOK
  <2> QED
    BY <1>1, <2>1, <2>2, <2>3 DEF NavShape
<1> QED
  BY <1>3, <1>5, <1>6, <1>7 DEF RunOnIdle

\* Nav2 takes the oldest request, accepting or refusing it.
LEMMA ShapeNav2Takes == ASSUME NavShape, Nav2Accept \/ Nav2Reject PROVE NavShape'
<1>0. /\ \A n \in 1..Len(goals) : goals[n] \in Goals
      /\ goals \in Seq(Goals) /\ Len(goals) \in Nat /\ wire \in Seq(Nat \ {0})
  BY GoalFields DEF NavShape, NavTypeOK
<1>1. /\ UNCHANGED <<goalId, active, resultCallback, through, planAdopted, reports>>
      /\ UNCHANGED <<liveState, liveBt, liveCanceling, onLiveIdle>>
      /\ wire # <<>> /\ wire' = Tail(wire)
  BY DEF Nav2Accept, Nav2Reject, logicalVars, liveVars
<1>2. wire' \in Seq(Nat \ {0})
  BY <1>0, <1>1
<1>3. goals' \in Seq(Goals) /\ Len(goals') = Len(goals)
  <2>1. CASE Nav2Accept
    <3> DEFINE h == Head(wire)
               cross == \E k \in Running : goals[k].bt # goals[h].bt
               s(k) == IF k = h THEN (IF cross THEN "aborted" ELSE "running")
                       ELSE IF k \in Running /\ ~cross THEN "aborted" ELSE goals[k].srv
    <3>1. goals' = [k \in 1..Len(goals) |-> [goals[k] EXCEPT !.srv = s(k)]]
      BY <2>1 DEF Nav2Accept
    <3>2. \A k \in 1..Len(goals) : goals[k].srv \in {"unsent", "wire", "running"} \cup Ended
      BY <1>0 DEF Goals
    <3>3. \A k \in 1..Len(goals) : s(k) \in {"unsent", "wire", "running"} \cup Ended
      BY <3>2 DEF Ended
    <3> HIDE DEF s
    <3>4. \A k \in 1..Len(goals) : [goals[k] EXCEPT !.srv = s(k)] \in Goals
      BY <1>0, <3>3 DEF Goals
    <3>5. goals' \in [1..Len(goals) -> Goals]
      BY <3>1, <3>4
    <3>6. goals' \in Seq(Goals)
      BY <1>0, <3>5
    <3>7. DOMAIN goals' = 1..Len(goals)
      BY <3>5
    <3> QED
      BY <1>0, <3>6, <3>7
  <2>2. CASE Nav2Reject
    <3> DEFINE h == Head(wire)
               r == [goals[h] EXCEPT !.srv = "rejected"]
    <3>1. goals' = [goals EXCEPT ![h].srv = "rejected"]
      BY <2>2 DEF Nav2Reject
    <3>2. CASE h \in 1..Len(goals)
      <4>1. r \in Goals /\ goals' = [goals EXCEPT ![h] = r]
        BY <1>0, <3>1, <3>2 DEF Goals, Ended
      <4> HIDE DEF r, h
      <4> QED
        BY <1>0, <3>2, <4>1, ExceptSeq
    <3>3. CASE h \notin 1..Len(goals)
      <4>1. DOMAIN goals = 1..Len(goals) /\ goals = [k \in 1..Len(goals) |-> goals[k]]
        BY <1>0
      <4>2. goals' = goals
        BY <3>1, <3>3, <4>1
      <4> QED
        BY <1>0, <4>2
    <3> QED
      BY <3>2, <3>3
  <2> QED
    BY <2>1, <2>2
<1>4. NavTypeOK'
  BY <1>1, <1>2, <1>3 DEF NavShape, NavTypeOK
<1> QED
  BY <1>1, <1>3, <1>4 DEF NavShape

\* Every callback and every step of Nav2.
LEMMA ShapeThreads == ASSUME NavShape, CallbackStep \/ Nav2Step PROVE NavShape'
<1>0. /\ \A n \in 1..Len(goals) : goals[n] \in Goals
      /\ goals \in Seq(Goals) /\ Len(goals) \in Nat /\ wire \in Seq(Nat \ {0})
      /\ reports \subseteq Reports /\ active \in BOOLEAN /\ onLiveIdle \in Dispatches
      /\ liveState \in {"NONE", "PENDING", "ACTIVE"} /\ liveCanceling \in BOOLEAN
  BY GoalFields DEF NavShape, NavTypeOK
<1>n. NoDispatch \in Dispatches
  BY BTsAssumption DEF NoDispatch, Dispatches
<1>1. ASSUME NEW n \in 1..Len(goals), NEW res \in Results,
             goals' = [goals EXCEPT ![n].cb = "finish", ![n].res = res,
                                    ![n].onIdle = TakenIdle(n)],
             MarkLiveDone(n), UNCHANGED <<logicalVars, reports, wire>>
      PROVE  NavShape'
  <2> DEFINE r == [goals[n] EXCEPT !.cb = "finish", !.res = res, !.onIdle = TakenIdle(n)]
  <2>1. goals' = [goals EXCEPT ![n] = r]
    BY <1>0, <1>1
  <2>2. r \in Goals
    BY <1>0, <1>n DEF Goals, TakenIdle
  <2> HIDE DEF r
  <2>3. UNCHANGED <<goalId, active, resultCallback, through, planAdopted, reports, wire>>
    BY <1>1 DEF logicalVars
  <2>4. /\ liveState' \in {"NONE", "PENDING", "ACTIVE"} /\ liveCanceling' \in BOOLEAN
        /\ liveBt' = liveBt /\ onLiveIdle' \in Dispatches
    BY <1>0, <1>1, <1>n DEF MarkLiveDone, liveVars
  <2>5. active' \in BOOLEAN /\ (active' => active) /\ reports' \subseteq Reports
        /\ wire' \in Seq(Nat \ {0})
    BY <1>0, <2>3
  <2> QED
    BY <2>1, <2>2, <2>3, <2>4, <2>5, ShapeUpdate
<1>2. ASSUME NEW n \in 1..Len(goals), ResponseCallback(n) PROVE NavShape'
  <2>1. UNCHANGED <<goalId, active, resultCallback, through, planAdopted, reports, wire>>
    BY <1>2 DEF ResponseCallback, logicalVars
  <2>2. active' \in BOOLEAN /\ (active' => active) /\ reports' \subseteq Reports
        /\ wire' \in Seq(Nat \ {0})
    BY <1>0, <2>1
  <2>3. CASE /\ goals' = [goals EXCEPT ![n].cb = "finish", ![n].res = "FAILED",
                                       ![n].onIdle = TakenIdle(n)]
             /\ MarkLiveDone(n)
    BY <1>1, <1>2, <2>3 DEF ResponseCallback, Results
  <2>4. CASE goals' = [goals EXCEPT ![n].cb = "done"] /\ UNCHANGED liveVars
    <3> DEFINE r == [goals[n] EXCEPT !.cb = "done"]
    <3>1. goals' = [goals EXCEPT ![n] = r] /\ r \in Goals
      BY <1>0, <2>4 DEF Goals
    <3> HIDE DEF r
    <3>2. UNCHANGED <<liveState, liveBt, liveCanceling, onLiveIdle>>
      BY <2>4 DEF liveVars
    <3> QED
      BY <1>0, <2>1, <2>2, <3>1, <3>2, ShapeUpdate
  <2>5. CASE /\ liveState' = "ACTIVE"
             /\ goals' = [goals EXCEPT ![n].cb = "result",
                                       ![n].cancelRequested = @ \/ liveCanceling]
             /\ UNCHANGED <<liveBt, liveCanceling, onLiveIdle>>
    <3> DEFINE r == [goals[n] EXCEPT !.cb = "result",
                          !.cancelRequested = goals[n].cancelRequested \/ liveCanceling]
    <3>1. goals' = [goals EXCEPT ![n] = r]
      BY <1>0, <2>5 DEF Goals
    <3>2. r \in Goals
      BY <1>0 DEF Goals
    <3> HIDE DEF r
    <3> QED
      BY <1>0, <2>1, <2>2, <2>5, <3>1, <3>2, ShapeUpdate
  <2> QED
    BY <1>2, <2>3, <2>4, <2>5 DEF ResponseCallback
<1>3. ASSUME NEW n \in 1..Len(goals), ResultDoneCallback(n) PROVE NavShape'
  <2>1. ResultOf(goals[n].srv) \in Results
    BY DEF ResultOf, Results
  <2> QED
    BY <1>1, <1>3, <2>1 DEF ResultDoneCallback
<1>4. ASSUME NEW n \in 1..Len(goals), Finish(n) PROVE NavShape'
  <2> DEFINE r == [goals[n] EXCEPT !.cb = "idle"]
  <2>1. goals' = [goals EXCEPT ![n] = r] /\ r \in Goals
    BY <1>0, <1>4 DEF Finish, Goals
  <2> HIDE DEF r
  <2>2. /\ UNCHANGED <<goalId, resultCallback, through, planAdopted, wire>>
        /\ UNCHANGED <<liveState, liveBt, liveCanceling, onLiveIdle>>
    BY <1>4 DEF Finish, liveVars
  <2>3. active' \in BOOLEAN /\ (active' => active) /\ reports' \subseteq Reports
    <3>1. CASE IsCurrent(goals[n].gid)
      <4>1. active /\ goals[n].res \in Results /\ n \in Nat
        BY <1>0, <3>1 DEF IsCurrent, Goals
      <4>2. [gid |-> goalId, res |-> goals[n].res, to |-> resultCallback, by |-> n] \in Reports
        BY <4>1, ReportType DEF NavShape
      <4> QED
        BY <1>0, <1>4, <3>1, <4>1, <4>2 DEF Finish
    <3>2. CASE ~IsCurrent(goals[n].gid)
      BY <1>0, <1>4, <3>2 DEF Finish
    <3> QED
      BY <3>1, <3>2
  <2> QED
    BY <1>0, <2>1, <2>2, <2>3, ShapeUpdate
<1>5. ASSUME NEW n \in 1..Len(goals), Transmit(n) PROVE NavShape'
  <2> DEFINE r == [goals[n] EXCEPT !.srv = "wire"]
  <2>1. goals' = [goals EXCEPT ![n] = r] /\ r \in Goals
    BY <1>0, <1>5 DEF Transmit, Goals
  <2> HIDE DEF r
  <2>2. /\ UNCHANGED <<goalId, active, resultCallback, through, planAdopted, reports>>
        /\ UNCHANGED <<liveState, liveBt, liveCanceling, onLiveIdle>>
        /\ wire' = Append(wire, n)
    BY <1>5 DEF Transmit, logicalVars, liveVars
  <2>3. wire' \in Seq(Nat \ {0})
    <3>1. n \in Nat \ {0}
      BY <1>0
    <3> QED
      BY <1>0, <2>2, <3>1
  <2> QED
    BY <1>0, <2>1, <2>2, <2>3, ShapeUpdate
<1>6. ASSUME NEW n \in 1..Len(goals), FeedbackPassed(n) PROVE NavShape'
  <2>1. /\ UNCHANGED <<goalId, resultCallback, through, planAdopted, goals, wire>>
        /\ UNCHANGED <<liveState, liveBt, liveCanceling, onLiveIdle>>
        /\ active /\ active' = FALSE
        /\ reports' = reports \cup
             {[gid |-> goalId, res |-> "PASSED", to |-> resultCallback, by |-> 0]}
    BY <1>6 DEF FeedbackPassed, liveVars, IsCurrent
  <2>2. [gid |-> goalId, res |-> "PASSED", to |-> resultCallback, by |-> 0] \in Reports
    BY <2>1, ReportType DEF NavShape, Results
  <2>3. reports' \subseteq Reports
    BY <1>0, <2>1, <2>2
  <2> QED
    BY <2>1, <2>3 DEF NavShape, NavTypeOK
<1>7. ASSUME NEW n \in 1..Len(goals), Nav2End(n) PROVE NavShape'
  <2>1. PICK s \in {"succeeded", "aborted", "canceled"} : goals' = [goals EXCEPT ![n].srv = s]
    BY <1>7 DEF Nav2End
  <2> DEFINE r == [goals[n] EXCEPT !.srv = s]
  <2>2. goals' = [goals EXCEPT ![n] = r] /\ r \in Goals
    BY <1>0, <2>1 DEF Goals, Ended
  <2> HIDE DEF r
  <2>3. /\ UNCHANGED <<goalId, active, resultCallback, through, planAdopted, reports, wire>>
        /\ UNCHANGED <<liveState, liveBt, liveCanceling, onLiveIdle>>
    BY <1>7 DEF Nav2End, logicalVars, liveVars
  <2> QED
    BY <1>0, <2>2, <2>3, ShapeUpdate
<1>8. CASE PlanCallback
  <2>1. /\ UNCHANGED <<goalId, active, resultCallback, through, reports, goals, wire>>
        /\ UNCHANGED <<liveState, liveBt, liveCanceling, onLiveIdle>>
        /\ planAdopted' = TRUE
    BY <1>8 DEF PlanCallback, liveVars
  <2> QED
    BY <2>1 DEF NavShape, NavTypeOK
<1>9. ASSUME NEW n \in 1..Len(goals), RunOnIdle(n) PROVE NavShape'
  BY <1>9, ShapeRunOnIdle
<1>10. CASE Nav2Accept \/ Nav2Reject
  BY <1>10, ShapeNav2Takes
<1> QED
  BY <1>2, <1>3, <1>4, <1>5, <1>6, <1>7, <1>8, <1>9, <1>10 DEF CallbackStep, Nav2Step, Running

-----------------------------------------------------------------------------
(* What a step of the state machine asks of the navigator.                 *)

\* What the types say of a waypoint of the list.
LEMMA WaypointType ==
    ASSUME SeqTypeOK, NEW i \in Nat, i < Size
    PROVE  /\ i + 1 \in 1..Len(waypoints)
           /\ waypoints[i + 1].through \in BOOLEAN
           /\ waypoints[i + 1].actions \in Seq(ActionTypes)
<1>1. waypoints \in Seq([through : BOOLEAN, actions : Seq(ActionTypes)])
  BY WaypointListsAssumption DEF SeqTypeOK
<1>2. i + 1 \in 1..Len(waypoints)
  BY <1>1 DEF Size
<1>3. waypoints[i + 1] \in [through : BOOLEAN, actions : Seq(ActionTypes)]
  <2> DEFINE W == [through : BOOLEAN, actions : Seq(ActionTypes)]
  <2>1. waypoints \in Seq(W)
    BY <1>1
  <2> HIDE DEF W
  <2>2. waypoints[i + 1] \in W
    BY <1>2, <2>1
  <2> QED
    BY <2>2 DEF W
<1> QED
  BY <1>2, <1>3

\* behavior_tree_for names a tree the stack has.
LEMMA TreeType == ASSUME NEW mode PROVE BehaviorTreeFor(mode) \in BTs
BY BTsAssumption, TreesAssumption DEF BehaviorTreeFor

\* A goal handed over by the sequence, sent or failed at once.
SequenceSend ==
    \E bt \in BTs, th \in BOOLEAN :
        \/ SendGoal("sequence", bt, th) /\ state' = "NAVIGATING"
        \/ SendGoalNoServer("sequence", th) /\ state' = "ERROR"

\* The same of navigate_to_pose.
ManualSend ==
    \E bt \in BTs :
        \/ SendGoal("manual", bt, FALSE) /\ manualGoalActive' = TRUE
        \/ SendGoalNoServer("manual", FALSE) /\ manualGoalActive' = FALSE

\* _enter_navigating hands a goal over.
LEMMA EnterNavigatingSends ==
    ASSUME SeqTypeOK, NEW i \in Nat, EnterNavigating(i), refused = FALSE,
           state \in {"ON_STARTING", "SUSPENDED", "NAVIGATING", "ON_ARRIVING"}
    PROVE  i < Size /\ SequenceSend
<1>1. i < Size
  BY DEF EnterNavigating
<1>2. waypoints[i + 1].through \in BOOLEAN
  BY <1>1, WaypointType
<1>3. /\ <<state, "NAVIGATING">> \in AllowedTransitions
      /\ <<"NAVIGATING", "ERROR">> \in AllowedTransitions
  BY DEF AllowedTransitions
<1>4. CASE /\ Transition("NAVIGATING")
           /\ SendGoal("sequence", BehaviorTreeFor(navigationMode), waypoints[i + 1].through)
  BY <1>1, <1>2, <1>3, <1>4, TransitionMoves, TreeType DEF SequenceSend
<1>5. CASE /\ state' = After(After(state, "NAVIGATING"), "ERROR")
           /\ SendGoalNoServer("sequence", waypoints[i + 1].through)
  <2>1. state' = "ERROR"
    BY <1>3, <1>5 DEF After
  <2> QED
    BY <1>1, <1>2, <1>5, <2>1, BTsAssumption DEF SequenceSend
<1> QED
  BY <1>4, <1>5 DEF EnterNavigating

\* _advance_to_next cancels what ran, or hands the next goal over.
LEMMA AdvanceSends ==
    ASSUME SeqTypeOK, AdvanceToNext, refused = FALSE, state \in {"NAVIGATING", "ON_ARRIVING"}
    PROVE  \/ Cancel /\ state' \in {"IDLE", "GOAL_REACHED", "SUSPENDED"}
           \/ SequenceSend
<1>1. /\ <<state, "IDLE">> \in AllowedTransitions
      /\ <<state, "GOAL_REACHED">> \in AllowedTransitions
      /\ <<state, "SUSPENDED">> \in AllowedTransitions
  BY DEF AllowedTransitions
<1>2. CASE TakeDeferredStop
  BY <1>1, <1>2, TransitionMoves DEF TakeDeferredStop
<1>3. CASE Cancel /\ (Transition("GOAL_REACHED") \/ Transition("SUSPENDED"))
  BY <1>1, <1>3, TransitionMoves
<1>4. CASE Cancel /\ state' = After(state, "IDLE")
  BY <1>1, <1>4 DEF After
<1>5. CASE EnterNavigating(index + 1)
  <2>1. index + 1 \in Nat
    BY DEF SeqTypeOK
  <2> QED
    BY <1>5, <2>1, EnterNavigatingSends
<1> QED
  BY <1>2, <1>3, <1>4, <1>5 DEF AdvanceToNext

\* The kinds of step the state machine takes, seen from the navigator: it
\* leaves it alone, cancels, or sends; a goal is sent from a state that was
\* parked, for a result of the current goal, or for a misapplied one.
KeepsGoals ==
    /\ UNCHANGED sendVars
    /\ manualGoalActive' = manualGoalActive
    /\ state' = state \/ {state, state'} \cap {"NAVIGATING"} = {}

CancelsGoals ==
    /\ Cancel
    /\ state' # "NAVIGATING"

SendsNext ==
    /\ SequenceSend
    /\ manualGoalActive' = manualGoalActive
    /\ \/ state \in {"ON_STARTING", "SUSPENDED", "ON_ARRIVING"}
       \/ state = "NAVIGATING" /\ (misapplied' \/ \E r \in reports : r.gid = goalId)

SendsManual ==
    /\ ManualSend
    /\ state' = state /\ state # "NAVIGATING"
    /\ manualRequest # "none"

FailsGoal ==
    /\ UNCHANGED sendVars
    /\ manualGoalActive' = manualGoalActive
    /\ state' = "ERROR"
    /\ misapplied' \/ \E r \in reports : r.gid = goalId /\ r.res = "FAILED"

EndsManual ==
    /\ UNCHANGED sendVars
    /\ state' = state
    /\ manualGoalActive' = FALSE
    /\ ~manualGoalActive \/ misapplied' \/ \E r \in reports : r.gid = goalId

Kinds ==
    /\ reports' \subseteq reports
    /\ misapplied => misapplied'
    /\ \/ KeepsGoals \/ CancelsGoals \/ SendsNext
       \/ SendsManual \/ FailsGoal \/ EndsManual

\* Commands.
LEMMA CommandKinds == ASSUME FsmInv, SeqTypeOK, Command PROVE Kinds
<1> USE DEF Kinds
<1>0. refused = FALSE /\ index \in Nat
  BY DEF FsmInv, FsmTypes, SeqTypeOK
<1>1. CASE Start
  <2>1. state \in {"IDLE", "GOAL_REACHED"} /\ EnterOnStarting
    BY <1>1 DEF Start
  <2>2. state' = "ON_STARTING"
    BY <1>0, <2>1, EnterOnStartingMoves
  <2>3. UNCHANGED <<sendVars, manualGoalActive, reports, misapplied>>
    BY <1>1 DEF Start, Receive
  <2> QED
    BY <2>1, <2>2, <2>3 DEF KeepsGoals
<1>2. CASE Stop
  <2>1. UNCHANGED <<reports, misapplied>> /\ manualGoalActive' = FALSE
    BY <1>2 DEF Stop, Receive
  <2>2. state' # "NAVIGATING"
    <3>1. CASE state \in {"IDLE", "ON_ARRIVING"}
      BY <1>2, <3>1 DEF Stop
    <3>2. CASE state \in {"ON_STARTING", "NAVIGATING", "SUSPENDED", "GOAL_REACHED", "ERROR"}
      <4>1. Transition("IDLE")
        BY <1>2, <3>2 DEF Stop
      <4>2. <<state, "IDLE">> \in AllowedTransitions
        BY <3>2 DEF AllowedTransitions
      <4>3. state' = "IDLE"
        BY <1>0, <4>1, <4>2, TransitionMoves
      <4> QED
        BY <4>3
    <3> QED
      BY <3>1, <3>2 DEF FsmInv, FsmTypes, States
  <2>3. CASE manualGoalActive \/ state = "NAVIGATING"
    BY <1>2, <2>1, <2>2, <2>3 DEF Stop, CancelsGoals
  <2>4. CASE ~(manualGoalActive \/ state = "NAVIGATING")
    <3>1. UNCHANGED sendVars /\ manualGoalActive = FALSE
      BY <1>2, <2>4 DEF Stop, FsmInv, FsmTypes
    <3> QED
      BY <2>1, <2>2, <2>4, <3>1 DEF KeepsGoals
  <2> QED
    BY <2>3, <2>4
<1>3. ASSUME NEW q, PauseRequest(q) PROVE Kinds
  <2>1. UNCHANGED <<manualGoalActive, reports, misapplied>>
    BY <1>3 DEF PauseRequest, Receive
  <2>2. CASE state \in {"ON_STARTING", "NAVIGATING"}
    <3>1. /\ Transition("SUSPENDED")
          /\ \/ state = "ON_STARTING" /\ UNCHANGED sendVars
             \/ Cancel
      BY <1>3, <2>2 DEF PauseRequest
    <3>2. <<state, "SUSPENDED">> \in AllowedTransitions
      BY <2>2 DEF AllowedTransitions
    <3>3. state' = "SUSPENDED"
      BY <1>0, <3>1, <3>2, TransitionMoves
    <3> QED
      BY <2>1, <3>1, <3>3 DEF KeepsGoals, CancelsGoals
  <2>3. CASE state \notin {"ON_STARTING", "NAVIGATING"}
    BY <1>3, <2>1, <2>3 DEF PauseRequest, KeepsGoals
  <2> QED
    BY <2>2, <2>3
<1>4. ASSUME NEW q, ResumeRequest(q) PROVE Kinds
  <2>1. UNCHANGED <<manualGoalActive, reports, misapplied>>
    BY <1>4 DEF ResumeRequest, Receive
  <2>2. CASE UNCHANGED <<sendVars, state>>
    BY <2>1, <2>2 DEF KeepsGoals
  <2>3. CASE state = "SUSPENDED" /\ EnterOnStarting /\ UNCHANGED sendVars
    <3>1. state' = "ON_STARTING"
      BY <1>0, <2>3, EnterOnStartingMoves
    <3> QED
      BY <2>1, <2>3, <3>1 DEF KeepsGoals
  <2>4. CASE state = "SUSPENDED" /\ EnterNavigating(index)
    BY <1>0, <2>1, <2>4, EnterNavigatingSends DEF SendsNext
  <2> QED
    BY <1>4, <2>2, <2>3, <2>4 DEF ResumeRequest
<1>5. CASE \/ \E i \in 0..(Size - 1) : SetNextIndex(i)
           \/ \E list \in WaypointLists : ReloadWaypoints(list)
           \/ \E mode \in ManualModes : NavigateToPose(mode)
  <2>1. UNCHANGED <<sendVars, state, manualGoalActive, reports, misapplied>>
    BY <1>5 DEF SetNextIndex, ReloadWaypoints, NavigateToPose, Receive, navVars, sendVars
  <2> QED
    BY <2>1 DEF KeepsGoals
<1> QED
  BY <1>1, <1>2, <1>3, <1>4, <1>5 DEF Command

\* Threads.
LEMMA ThreadKinds ==
    ASSUME FsmInv, SeqTypeOK, DrivesToAWaypoint, Thread PROVE Kinds
<1> USE DEF Kinds
<1>0. refused = FALSE /\ index \in Nat
  BY DEF FsmInv, FsmTypes, SeqTypeOK
<1>1. CASE NavigateToPoseSend
  <2>1. manualRequest # "none" /\ UNCHANGED <<reports, state, misapplied>>
    BY <1>1 DEF NavigateToPoseSend
  <2>2. state # "NAVIGATING" \/ UNCHANGED <<sendVars, manualGoalActive>>
    BY <1>1 DEF NavigateToPoseSend, ManualGoalRejected, ManualGoalStates
  <2>3. \/ UNCHANGED <<sendVars, manualGoalActive>>
        \/ SendGoal("manual", BehaviorTreeFor(manualRequest), FALSE) /\ manualGoalActive' = TRUE
        \/ SendGoalNoServer("manual", FALSE) /\ manualGoalActive' = FALSE
    BY <1>1 DEF NavigateToPoseSend
  <2>4. UNCHANGED <<sendVars, manualGoalActive>> \/ ManualSend
    BY <2>3, TreeType, BTsAssumption DEF ManualSend
  <2> QED
    BY <2>1, <2>2, <2>4 DEF KeepsGoals, SendsManual
<1>2. CASE TimerFires \/ ExecuteAction
  <2>1. UNCHANGED <<navVars, state, manualGoalActive, misapplied>>
    BY <1>2 DEF TimerFires, ExecuteAction
  <2> QED
    BY <2>1 DEF KeepsGoals, navVars, sendVars
<1>3. ASSUME NEW g, OnStartingDone(g) PROVE Kinds
  <2>1. UNCHANGED <<reports, manualGoalActive, misapplied>>
    BY <1>3 DEF OnStartingDone
  <2>2. CASE UNCHANGED <<sendVars, state>>
    BY <2>1, <2>2 DEF KeepsGoals
  <2>3. CASE state = "ON_STARTING" /\ EnterNavigating(index)
    BY <1>0, <2>1, <2>3, EnterNavigatingSends DEF SendsNext
  <2> QED
    BY <1>3, <2>2, <2>3 DEF OnStartingDone
<1>4. ASSUME NEW r, OnNavigationResult(r) PROVE Kinds
  <2>1. /\ r \in reports /\ reports' \subseteq reports
        /\ misapplied' = (misapplied \/ (Applies(r) /\ r.gid # goalId))
        /\ manualGoalActive' = manualGoalActive
    BY <1>4 DEF OnNavigationResult
  <2>2. CASE ~Applies(r)
    BY <1>4, <2>1, <2>2 DEF OnNavigationResult, KeepsGoals
  <2>3. CASE Applies(r)
    <3>1. state = "NAVIGATING" /\ (misapplied' \/ r.gid = goalId) /\ (misapplied => misapplied')
      BY <2>1, <2>3 DEF Applies
    <3>2. /\ <<state, "ERROR">> \in AllowedTransitions
          /\ <<state, "ON_ARRIVING">> \in AllowedTransitions
      BY <3>1 DEF AllowedTransitions
    <3>3. CASE r.res = "FAILED" /\ Transition("ERROR") /\ UNCHANGED sendVars
      <4>1. state' = "ERROR"
        BY <1>0, <3>2, <3>3, TransitionMoves
      <4> QED
        BY <2>1, <3>1, <3>3, <4>1 DEF FailsGoal
    <3>4. CASE EnterOnArriving(CurrentWaypoint.actions)
      <4>1. Cancel /\ Transition("ON_ARRIVING")
        BY <3>4 DEF EnterOnArriving
      <4>2. state' = "ON_ARRIVING"
        BY <1>0, <3>2, <4>1, TransitionMoves
      <4> QED
        BY <2>1, <3>1, <4>1, <4>2 DEF CancelsGoals
    <3>5. CASE AdvanceToNext
      BY <1>0, <2>1, <3>1, <3>5, AdvanceSends DEF SendsNext, CancelsGoals
    <3> QED
      BY <1>4, <2>3, <3>3, <3>4, <3>5 DEF OnNavigationResult
  <2> QED
    BY <2>2, <2>3
<1>5. ASSUME NEW r \in reports, OnManualGoalResult(r) PROVE Kinds
  <2>1. /\ reports' \subseteq reports /\ manualGoalActive' = FALSE
        /\ misapplied' = (misapplied \/ (manualGoalActive /\ r.gid # goalId))
        /\ UNCHANGED <<sendVars, state>>
    BY <1>5 DEF OnManualGoalResult
  <2> QED
    BY <2>1 DEF EndsManual
<1>6. CASE OnArrivingDone
  <2>1. UNCHANGED <<reports, manualGoalActive, misapplied>>
    BY <1>6 DEF OnArrivingDone
  <2>2. CASE UNCHANGED <<sendVars, state>>
    BY <2>1, <2>2 DEF KeepsGoals
  <2>3. CASE state = "ON_ARRIVING" /\ AdvanceToNext
    BY <1>0, <2>1, <2>3, AdvanceSends DEF SendsNext, CancelsGoals
  <2> QED
    BY <1>6, <2>2, <2>3 DEF OnArrivingDone
<1> QED
  BY <1>1, <1>2, <1>3, <1>4, <1>5, <1>6 DEF Thread

-----------------------------------------------------------------------------
(***************************************************************************)
(* The sequence's place in its list, and the types of everything: they     *)
(* need each other, since a waypoint is typed only where there is one.     *)
(***************************************************************************)

PlaceInv ==
    /\ NavShape
    /\ SeqTypeOK
    /\ TriggerWaitIsGenuine
    /\ DrivesToAWaypoint

\* Whatever the state machine asks of the navigator keeps its types.
LEMMA KindsKeepShape == ASSUME NavShape, Kinds PROVE NavShape'
<1>0. {"sequence", "manual"} = Callbacks /\ reports' \subseteq reports
  BY SequencerCallbacks DEF Kinds
<1>1. CASE UNCHANGED sendVars
  BY <1>0, <1>1, ShapeFrame DEF sendVars
<1>2. CASE CancelsGoals
  BY <1>0, <1>2, ShapeCancel DEF CancelsGoals
<1>3. CASE SequenceSend
  <2>1. "sequence" \in Callbacks
    BY <1>0
  <2> QED
    BY <1>0, <1>3, <2>1, ShapeSend DEF SequenceSend
<1>4. CASE ManualSend
  <2>1. "manual" \in Callbacks /\ FALSE \in BOOLEAN
    BY <1>0
  <2> QED
    BY <1>0, <1>4, <2>1, ShapeSend DEF ManualSend
<1> QED
  BY <1>1, <1>2, <1>3, <1>4
  DEF Kinds, KeepsGoals, SendsNext, SendsManual, FailsGoal, EndsManual

\* A transition that is made ends the wait for a trigger.
LEMMA TransitionEndsWait ==
    ASSUME NEW new, <<state, new>> \in AllowedTransitions, Transition(new)
    PROVE  waitingTrigger' = FALSE
BY DEF Transition

\* ... that of _enter_navigating too, even when the server is not there.
LEMMA EnterNavigatingEndsWait ==
    ASSUME NEW i, EnterNavigating(i),
           state \in {"ON_STARTING", "SUSPENDED", "NAVIGATING", "ON_ARRIVING"}
    PROVE  waitingTrigger' = FALSE
<1>1. <<state, "NAVIGATING">> \in AllowedTransitions
  BY DEF AllowedTransitions
<1> QED
  BY <1>1, TransitionEndsWait DEF EnterNavigating

\* Where _advance_to_next leaves the sequence in its list.
LEMMA AdvancePlace ==
    ASSUME SeqTypeOK, AdvanceToNext, refused = FALSE, state \in {"NAVIGATING", "ON_ARRIVING"},
           waypoints' = waypoints
    PROVE  /\ index' \in Nat /\ waitingTrigger' \in BOOLEAN /\ slots' \subseteq Requesters
           /\ preSuspend' \in {"IDLE", "ON_STARTING", "NAVIGATING"}
           /\ navigationMode' = navigationMode
           /\ TriggerWaitIsGenuine' /\ DrivesToAWaypoint'
<1>0. /\ <<state, "IDLE">> \in AllowedTransitions
      /\ <<state, "GOAL_REACHED">> \in AllowedTransitions
      /\ <<state, "SUSPENDED">> \in AllowedTransitions
  BY DEF AllowedTransitions
<1>1. /\ index \in Nat /\ slots \subseteq Requesters
      /\ preSuspend \in {"IDLE", "ON_STARTING", "NAVIGATING"}
      /\ navigationMode' = navigationMode /\ Size' = Size /\ Size \in Nat
  <2>1. waypoints \in Seq([through : BOOLEAN, actions : Seq(ActionTypes)])
    BY WaypointListsAssumption DEF SeqTypeOK
  <2>2. Size \in Nat
    BY <2>1 DEF Size
  <2> QED
    BY <2>2 DEF SeqTypeOK, AdvanceToNext, Size
<1>2. CASE TakeDeferredStop
  <2>1. Transition("IDLE") /\ slots' = {} /\ UNCHANGED <<index, preSuspend>>
    BY <1>2 DEF TakeDeferredStop
  <2>2. state' = "IDLE" /\ waitingTrigger' = FALSE
    BY <1>0, <2>1, TransitionMoves, TransitionEndsWait
  <2> QED
    BY <1>1, <2>1, <2>2 DEF TriggerWaitIsGenuine, DrivesToAWaypoint
<1>3. CASE /\ index' = index + 1 /\ UNCHANGED slots
           /\ \/ Transition("GOAL_REACHED") /\ UNCHANGED preSuspend
              \/ Transition("SUSPENDED") /\ preSuspend' = "NAVIGATING"
  <2>1. state' \in {"GOAL_REACHED", "SUSPENDED"} /\ waitingTrigger' = FALSE
    BY <1>0, <1>3, TransitionMoves, TransitionEndsWait
  <2>2. index' \in Nat
    BY <1>1, <1>3
  <2>4. waitingTrigger' \in BOOLEAN
    BY <2>1
  <2>3. TriggerWaitIsGenuine' /\ DrivesToAWaypoint'
    BY <2>1 DEF TriggerWaitIsGenuine, DrivesToAWaypoint
  <2> QED
    BY <1>1, <1>3, <2>2, <2>3, <2>4
<1>4. CASE /\ index' = index + 1 /\ UNCHANGED <<slots, preSuspend>>
           /\ index + 1 < Size /\ HasTrigger(CurrentWaypoint)
           /\ state' = After(state, "IDLE") /\ waitingTrigger' = (state' = "IDLE")
  <2>1. state' = "IDLE" /\ waitingTrigger' = TRUE
    BY <1>0, <1>4 DEF After
  <2>2. index' \in 1..(Size' - 1)
    BY <1>1, <1>4
  <2>3. HasTrigger(waypoints'[index'])
    BY <1>4 DEF CurrentWaypoint
  <2> QED
    BY <1>1, <1>4, <2>1, <2>2, <2>3 DEF TriggerWaitIsGenuine, DrivesToAWaypoint, HasTrigger
<1>5. CASE /\ index' = index + 1 /\ UNCHANGED <<slots, preSuspend>>
           /\ EnterNavigating(index + 1)
  <2>1. index + 1 < Size /\ waitingTrigger' = FALSE
    BY <1>5, EnterNavigatingEndsWait DEF EnterNavigating
  <2>2. index' \in Nat
    BY <1>1, <1>5
  <2>4. waitingTrigger' \in BOOLEAN
    BY <2>1
  <2>3. TriggerWaitIsGenuine' /\ DrivesToAWaypoint'
    BY <1>1, <1>5, <2>1 DEF TriggerWaitIsGenuine, DrivesToAWaypoint
  <2> QED
    BY <1>1, <1>5, <2>2, <2>3, <2>4
<1> QED
  BY <1>2, <1>3, <1>4, <1>5 DEF AdvanceToNext

\* The set_navigation_mode action that wins is one of the list's.
LEMMA ModeAfterWins ==
    ASSUME NEW actions \in Seq(ActionTypes), NEW mode,
           NEW m \in 1..Len(actions), actions[m] \in Modes
    PROVE  \E k \in 1..Len(actions) :
             /\ actions[k] \in Modes /\ ModeAfter(actions, mode) = actions[k]
             /\ \A j \in 1..Len(actions) : actions[j] \in Modes => j <= k
<1> DEFINE setters == {k \in 1..Len(actions) : actions[k] \in Modes}
           last == CHOOSE k \in setters : \A j \in setters : j <= k
<1>1. Len(actions) \in Nat /\ setters \in SUBSET (1..Len(actions)) /\ setters # {}
  OBVIOUS
<1>2. \E k \in setters : \A j \in setters : j <= k
  <2> HIDE DEF setters
  <2> QED
    BY <1>1, GreatestUpTo
<1>3. last \in setters /\ \A j \in setters : j <= last
  BY <1>2
<1>4. ModeAfter(actions, mode) = actions[last]
  BY <1>1 DEF ModeAfter
<1> HIDE DEF last
<1> QED
  BY <1>3, <1>4

\* ... and without one the mode stays.
LEMMA ModeAfterKeeps ==
    ASSUME NEW actions \in Seq(ActionTypes), NEW mode,
           \A k \in 1..Len(actions) : actions[k] \notin Modes
    PROVE  ModeAfter(actions, mode) = mode
BY DEF ModeAfter

\* The mode is one of the two.
LEMMA ModeAfterType ==
    ASSUME NEW actions \in Seq(ActionTypes), NEW mode \in Modes
    PROVE  ModeAfter(actions, mode) \in Modes
<1>1. CASE \A k \in 1..Len(actions) : actions[k] \notin Modes
  BY <1>1, ModeAfterKeeps
<1>2. CASE \E m \in 1..Len(actions) : actions[m] \in Modes
  BY <1>2, ModeAfterWins
<1> QED
  BY <1>1, <1>2

\* The part of SeqTypeOK that FsmInv does not state.
SeqData ==
    /\ waypoints \in WaypointLists /\ index \in Nat
    /\ preSuspend \in {"IDLE", "ON_STARTING", "NAVIGATING"}
    /\ slots \subseteq Requesters
    /\ navigationMode \in Modes /\ waitingTrigger \in BOOLEAN
    /\ timerGeneration \in Nat /\ timerArmed \in Nat /\ timerFired \subseteq Nat
    /\ actionsLeft \in Seq(ActionTypes)
    /\ manualRequest \in ManualModes \cup {"none"}
    /\ layersEnabled \in BOOLEAN /\ layersStrayed \in BOOLEAN
    /\ commands \in 0..MaxCommands
    /\ misapplied \in BOOLEAN

\* Together they make it.
LEMMA SeqTypeParts == FsmInv => (SeqTypeOK <=> SeqData)
BY DEF FsmInv, FsmTypes, SeqTypeOK, SeqData

\* The timer's attributes keep their types.
LEMMA TimerTypes ==
    ASSUME SeqData, TimerStart \/ TimerCancel \/ UNCHANGED timerVars
    PROVE  timerGeneration' \in Nat /\ timerArmed' \in Nat /\ timerFired' \subseteq Nat
<1>1. timerGeneration \in Nat /\ timerArmed \in Nat /\ timerFired \subseteq Nat
  BY DEF SeqData
<1>2. CASE TimerStart
  BY <1>1, <1>2 DEF TimerStart
<1>3. CASE TimerCancel
  BY <1>1, <1>3 DEF TimerCancel
<1>4. CASE UNCHANGED timerVars
  BY <1>1, <1>4 DEF timerVars
<1> QED
  BY <1>2, <1>3, <1>4

\* A command is counted.
LEMMA ReceiveTypes ==
    ASSUME SeqData, Receive
    PROVE  commands' \in 0..MaxCommands /\ UNCHANGED <<manualRequest, misapplied>>
BY MaxCommandsAssumption DEF SeqData, Receive

PlaceData == SeqData /\ TriggerWaitIsGenuine /\ DrivesToAWaypoint

\* A step that leaves the list, the place in it and the wait alone, except
\* that it may end the wait, and that does not begin to drive.
LEMMA PlaceFrame ==
    ASSUME PlaceData, UNCHANGED <<waypoints, index>>,
           waitingTrigger' = FALSE \/ UNCHANGED <<waitingTrigger, state>>,
           state' # "NAVIGATING" \/ state' = state \/ index < Size
    PROVE  TriggerWaitIsGenuine' /\ DrivesToAWaypoint' /\ waitingTrigger' \in BOOLEAN
<1>1. Size' = Size /\ waitingTrigger' \in BOOLEAN
  BY DEF Size, PlaceData, SeqData
<1>2. TriggerWaitIsGenuine'
  BY <1>1 DEF PlaceData, TriggerWaitIsGenuine, HasTrigger
<1>3. DrivesToAWaypoint'
  BY <1>1 DEF PlaceData, DrivesToAWaypoint
<1> QED
  BY <1>1, <1>2, <1>3

\* start().
LEMMA StartPlace == ASSUME PlaceData, FsmInv, Start PROVE PlaceData'
<1>1. /\ state \in {"IDLE", "GOAL_REACHED"} /\ EnterOnStarting
      /\ index' \in {index, 0}
      /\ UNCHANGED <<waypoints, preSuspend, slots, navigationMode, actionsLeft, layersEnabled, layersStrayed>>
      /\ Receive
  BY DEF Start, executorVars
<1>2. state' = "ON_STARTING" /\ waitingTrigger' = FALSE
  <2>1. <<state, "ON_STARTING">> \in AllowedTransitions
    BY <1>1 DEF AllowedTransitions
  <2>2. refused = FALSE
    BY DEF FsmInv, FsmTypes
  <2> QED
    BY <1>1, <2>1, <2>2, TransitionMoves, TransitionEndsWait DEF EnterOnStarting
<1>3. TriggerWaitIsGenuine' /\ DrivesToAWaypoint'
  BY <1>2 DEF TriggerWaitIsGenuine, DrivesToAWaypoint
<1>4. TimerStart /\ SeqData
  BY <1>1 DEF EnterOnStarting, PlaceData
<1>5. index' \in Nat
  BY <1>1, <1>4 DEF SeqData
<1>6. waitingTrigger' \in BOOLEAN
  BY <1>2
<1>7. SeqData'
  BY <1>1, <1>4, <1>5, <1>6, TimerTypes, ReceiveTypes DEF SeqData
<1> QED
  BY <1>3, <1>7 DEF PlaceData

\* stop().
LEMMA StopPlace == ASSUME PlaceData, FsmInv, Stop PROVE PlaceData'
<1>1. /\ UNCHANGED <<waypoints, index, preSuspend, navigationMode, actionsLeft, layersEnabled, layersStrayed>>
      /\ Receive /\ SeqData
      /\ TimerCancel \/ UNCHANGED timerVars
      /\ slots' = {} \/ slots' = slots
  BY DEF Stop, executorVars, PlaceData
<1>2. \/ UNCHANGED <<state, waitingTrigger>>
      \/ state' = "IDLE" /\ waitingTrigger' = FALSE
  <2>1. CASE state \in {"IDLE", "ON_ARRIVING"}
    BY <2>1 DEF Stop
  <2>2. CASE state \in {"ON_STARTING", "NAVIGATING", "SUSPENDED", "GOAL_REACHED", "ERROR"}
    <3>1. Transition("IDLE")
      BY <2>2 DEF Stop
    <3>2. <<state, "IDLE">> \in AllowedTransitions
      BY <2>2 DEF AllowedTransitions
    <3>3. refused = FALSE
      BY DEF FsmInv, FsmTypes
    <3>4. state' = "IDLE" /\ waitingTrigger' = FALSE
      BY <3>1, <3>2, <3>3, TransitionMoves, TransitionEndsWait
    <3> QED
      BY <3>4
  <2> QED
    BY <2>1, <2>2 DEF FsmInv, FsmTypes, States
<1>3. TriggerWaitIsGenuine' /\ DrivesToAWaypoint' /\ waitingTrigger' \in BOOLEAN
  BY <1>1, <1>2, PlaceFrame
<1>4. SeqData'
  BY <1>1, <1>3, TimerTypes, ReceiveTypes DEF SeqData
<1> QED
  BY <1>3, <1>4 DEF PlaceData

\* pause_request(q, True).
LEMMA PausePlace ==
    ASSUME PlaceData, FsmInv, NEW q \in Requesters, PauseRequest(q) PROVE PlaceData'
<1>1. /\ UNCHANGED <<waypoints, index, navigationMode, actionsLeft, layersEnabled, layersStrayed>>
      /\ Receive /\ SeqData
      /\ TimerCancel \/ UNCHANGED timerVars
      /\ slots' \subseteq Requesters
  BY DEF PauseRequest, executorVars, PlaceData, SeqData
<1>2. \/ UNCHANGED <<state, waitingTrigger, preSuspend>>
      \/ state' = "SUSPENDED" /\ waitingTrigger' = FALSE /\ preSuspend' \in {"ON_STARTING", "NAVIGATING"}
  <2>1. CASE state \notin {"ON_STARTING", "NAVIGATING"}
    BY <2>1 DEF PauseRequest
  <2>2. CASE state \in {"ON_STARTING", "NAVIGATING"}
    <3>1. Transition("SUSPENDED") /\ preSuspend' \in {"ON_STARTING", "NAVIGATING"}
      BY <2>2 DEF PauseRequest
    <3>2. <<state, "SUSPENDED">> \in AllowedTransitions
      BY <2>2 DEF AllowedTransitions
    <3>3. refused = FALSE
      BY DEF FsmInv, FsmTypes
    <3>4. state' = "SUSPENDED" /\ waitingTrigger' = FALSE
      BY <3>1, <3>2, <3>3, TransitionMoves, TransitionEndsWait
    <3> QED
      BY <3>1, <3>4
  <2> QED
    BY <2>1, <2>2
<1>3. TriggerWaitIsGenuine' /\ DrivesToAWaypoint' /\ waitingTrigger' \in BOOLEAN
  BY <1>1, <1>2, PlaceFrame
<1>4. preSuspend' \in {"IDLE", "ON_STARTING", "NAVIGATING"}
  BY <1>1, <1>2 DEF SeqData
<1>5. SeqData'
  BY <1>1, <1>3, <1>4, TimerTypes, ReceiveTypes DEF SeqData
<1> QED
  BY <1>3, <1>5 DEF PlaceData

\* pause_request(q, False).
LEMMA ResumePlace ==
    ASSUME PlaceData, FsmInv, NEW q, ResumeRequest(q) PROVE PlaceData'
<1>1. /\ UNCHANGED <<waypoints, index, preSuspend, navigationMode, actionsLeft, layersEnabled, layersStrayed>>
      /\ Receive /\ SeqData
      /\ TimerStart \/ UNCHANGED timerVars
      /\ slots' \subseteq Requesters
  BY DEF ResumeRequest, executorVars, EnterOnStarting, PlaceData, SeqData
<1>2. \/ UNCHANGED <<state, waitingTrigger>>
      \/ waitingTrigger' = FALSE /\ state' # "NAVIGATING"
      \/ waitingTrigger' = FALSE /\ index < Size
  <2>1. CASE state = "SUSPENDED" /\ EnterOnStarting
    <3>1. <<state, "ON_STARTING">> \in AllowedTransitions
      BY <2>1 DEF AllowedTransitions
    <3>2. refused = FALSE
      BY DEF FsmInv, FsmTypes
    <3>3. state' = "ON_STARTING" /\ waitingTrigger' = FALSE
      BY <2>1, <3>1, <3>2, TransitionMoves, TransitionEndsWait DEF EnterOnStarting
    <3> QED
      BY <3>3
  <2>2. CASE state = "SUSPENDED" /\ EnterNavigating(index)
    BY <2>2, EnterNavigatingEndsWait DEF EnterNavigating
  <2> QED
    BY <2>1, <2>2 DEF ResumeRequest
<1>3. TriggerWaitIsGenuine' /\ DrivesToAWaypoint' /\ waitingTrigger' \in BOOLEAN
  BY <1>1, <1>2, PlaceFrame
<1>4. SeqData'
  BY <1>1, <1>3, TimerTypes, ReceiveTypes DEF SeqData
<1> QED
  BY <1>3, <1>4 DEF PlaceData

\* set_next_index and reload_waypoints move the place and end the wait.
LEMMA MovePlace ==
    ASSUME PlaceData,
           \/ \E i \in 0..(Size - 1) : SetNextIndex(i)
           \/ \E list \in WaypointLists : ReloadWaypoints(list)
    PROVE  PlaceData'
<1>1. /\ UNCHANGED <<preSuspend, slots, navigationMode, actionsLeft, layersEnabled, layersStrayed>>
      /\ Receive /\ SeqData /\ UNCHANGED timerVars
      /\ waitingTrigger' = FALSE
      /\ state' = state /\ state # "NAVIGATING"
  BY DEF SetNextIndex, ReloadWaypoints, executorVars, PlaceData
<1>2. waypoints' \in WaypointLists /\ index' \in Nat
  <2>1. CASE \E i \in 0..(Size - 1) : SetNextIndex(i)
    <3>1. PICK i \in 0..(Size - 1) : SetNextIndex(i)
      BY <2>1
    <3> QED
      BY <1>1, <3>1 DEF SetNextIndex, SeqData
  <2>2. CASE \E list \in WaypointLists : ReloadWaypoints(list)
    <3>1. PICK list \in WaypointLists : ReloadWaypoints(list)
      BY <2>2
    <3>2. list \in Seq([through : BOOLEAN, actions : Seq(ActionTypes)])
      BY WaypointListsAssumption
    <3>3. Len(list) \in Nat /\ index \in Nat
      BY <1>1, <3>2 DEF SeqData
    <3>4. /\ waypoints' = list
          /\ index' = IF Len(list) = 0 THEN 0
                      ELSE IF index >= Len(list) THEN Len(list) - 1 ELSE index
      BY <3>1 DEF ReloadWaypoints
    <3> QED
      BY <3>3, <3>4
  <2> QED
    BY <2>1, <2>2
<1>3. TriggerWaitIsGenuine' /\ DrivesToAWaypoint'
  BY <1>1 DEF TriggerWaitIsGenuine, DrivesToAWaypoint
<1>4. SeqData'
  BY <1>1, <1>2, TimerTypes, ReceiveTypes DEF SeqData
<1> QED
  BY <1>3, <1>4 DEF PlaceData

\* navigate_to_pose, both halves, and the steps that only touch the timer or
\* the executor's list.
LEMMA OtherPlace ==
    ASSUME PlaceData, FsmInv,
           \/ \E mode \in ManualModes : NavigateToPose(mode)
           \/ NavigateToPoseSend \/ TimerFires \/ ExecuteAction
           \/ \E r \in reports : OnManualGoalResult(r)
    PROVE  PlaceData'
<1>1. /\ UNCHANGED <<waypoints, index, preSuspend, slots, navigationMode>>
      /\ UNCHANGED <<state, waitingTrigger>> /\ SeqData
  BY DEF NavigateToPose, NavigateToPoseSend, TimerFires, ExecuteAction, OnManualGoalResult,
     runVars, PlaceData
<1>2. TriggerWaitIsGenuine' /\ DrivesToAWaypoint' /\ waitingTrigger' \in BOOLEAN
  BY <1>1, PlaceFrame
<1>3. layersEnabled' \in BOOLEAN /\ layersStrayed' \in BOOLEAN
  <2>1. \A m, ok : SwitchLayers(m, ok) => layersEnabled' \in BOOLEAN
    BY <1>1 DEF SwitchLayers, SeqData
  <2>2. /\ layersEnabled' = layersEnabled \/ \E m, ok : SwitchLayers(m, ok)
        /\ layersStrayed' = layersStrayed \/ layersStrayed' \in BOOLEAN
    <3>1. CASE \/ \E mode \in ManualModes : NavigateToPose(mode)
               \/ TimerFires \/ \E r \in reports : OnManualGoalResult(r)
      BY <3>1 DEF NavigateToPose, TimerFires, OnManualGoalResult
    <3>2. CASE NavigateToPoseSend
      BY <3>2 DEF NavigateToPoseSend, StrayLayers
    <3>3. CASE ExecuteAction
      BY <3>3 DEF ExecuteAction
    <3> QED
      BY <3>1, <3>2, <3>3
  <2> QED
    BY <1>1, <2>1, <2>2 DEF SeqData
<1>4. actionsLeft' \in Seq(ActionTypes)
  <2>1. actionsLeft' = actionsLeft \/ (actionsLeft # <<>> /\ actionsLeft' = Tail(actionsLeft))
    BY DEF NavigateToPose, NavigateToPoseSend, TimerFires, ExecuteAction, OnManualGoalResult,
       executorVars
  <2>2. actionsLeft \in Seq(ActionTypes)
    BY <1>1 DEF SeqData
  <2> QED
    BY <2>1, <2>2
<1>5. timerGeneration' \in Nat /\ timerArmed' \in Nat /\ timerFired' \subseteq Nat
  <2>1. \/ UNCHANGED timerVars
        \/ /\ timerFired' = timerFired \cup {timerArmed} /\ timerArmed' = 0
           /\ timerGeneration' = timerGeneration
    BY DEF NavigateToPose, NavigateToPoseSend, TimerFires, ExecuteAction, OnManualGoalResult
  <2>2. timerGeneration \in Nat /\ timerArmed \in Nat /\ timerFired \subseteq Nat
    BY <1>1 DEF SeqData
  <2>3. CASE UNCHANGED timerVars
    BY <2>2, <2>3 DEF timerVars
  <2>4. CASE /\ timerFired' = timerFired \cup {timerArmed} /\ timerArmed' = 0
             /\ timerGeneration' = timerGeneration
    BY <2>2, <2>4
  <2> QED
    BY <2>1, <2>3, <2>4
<1>6. manualRequest' \in ManualModes \cup {"none"} /\ commands' \in 0..MaxCommands
  <2>1. \/ UNCHANGED commands
        \/ commands < MaxCommands /\ commands' = commands + 1
    BY DEF NavigateToPose, NavigateToPoseSend, TimerFires, ExecuteAction, OnManualGoalResult
  <2>2. manualRequest' \in ManualModes \cup {"none"}
    BY <1>1 DEF NavigateToPose, NavigateToPoseSend, TimerFires, ExecuteAction,
       OnManualGoalResult, SeqData
  <2> QED
    BY <1>1, <2>1, <2>2, MaxCommandsAssumption DEF SeqData
<1>7. misapplied' \in BOOLEAN
  <2>1. misapplied' = misapplied \/ \E r : misapplied' = (misapplied \/ (manualGoalActive /\ r.gid # goalId))
    BY DEF NavigateToPose, NavigateToPoseSend, TimerFires, ExecuteAction, OnManualGoalResult
  <2> QED
    BY <1>1, <2>1 DEF SeqData
<1>8. SeqData'
  BY <1>1, <1>2, <1>3, <1>4, <1>5, <1>6, <1>7 DEF SeqData
<1> QED
  BY <1>2, <1>8 DEF PlaceData

\* The end of a countdown.
LEMMA StartingDonePlace ==
    ASSUME PlaceData, NEW g, OnStartingDone(g) PROVE PlaceData'
<1>1. /\ UNCHANGED <<waypoints, index, preSuspend, slots, navigationMode, actionsLeft>>
      /\ UNCHANGED <<timerGeneration, timerArmed, manualRequest, layersEnabled, layersStrayed, commands>>
      /\ misapplied' = misapplied /\ timerFired' \subseteq timerFired /\ SeqData
  BY DEF OnStartingDone, runVars, executorVars, PlaceData
<1>2. UNCHANGED <<state, waitingTrigger>> \/ (waitingTrigger' = FALSE /\ index < Size)
  BY EnterNavigatingEndsWait DEF OnStartingDone, EnterNavigating
<1>3. TriggerWaitIsGenuine' /\ DrivesToAWaypoint' /\ waitingTrigger' \in BOOLEAN
  BY <1>1, <1>2, PlaceFrame
<1>4. SeqData'
  BY <1>1, <1>3 DEF SeqData
<1> QED
  BY <1>3, <1>4 DEF PlaceData

\* _advance_to_next, in whichever thread.
LEMMA AdvancePlaceData ==
    ASSUME PlaceData, FsmInv, AdvanceToNext, state \in {"NAVIGATING", "ON_ARRIVING"},
           UNCHANGED <<waypoints, timerVars, actionsLeft, manualRequest, layersEnabled, layersStrayed, commands>>,
           misapplied' \in BOOLEAN
    PROVE  PlaceData'
<1>1. SeqTypeOK /\ SeqData /\ refused = FALSE
  BY SeqTypeParts DEF PlaceData, FsmInv, FsmTypes
<1>2. /\ index' \in Nat /\ waitingTrigger' \in BOOLEAN /\ slots' \subseteq Requesters
      /\ preSuspend' \in {"IDLE", "ON_STARTING", "NAVIGATING"}
      /\ navigationMode' = navigationMode
      /\ TriggerWaitIsGenuine' /\ DrivesToAWaypoint'
  BY <1>1, AdvancePlace
<1>3. SeqData'
  BY <1>1, <1>2, TimerTypes DEF SeqData
<1> QED
  BY <1>2, <1>3 DEF PlaceData

\* A result.
LEMMA ResultPlace ==
    ASSUME PlaceData, FsmInv, NEW r, OnNavigationResult(r) PROVE PlaceData'
<1>1. /\ UNCHANGED <<waypoints, timerVars, manualRequest, layersEnabled, layersStrayed, commands>>
      /\ SeqData /\ SeqTypeOK /\ refused = FALSE
  BY SeqTypeParts DEF OnNavigationResult, PlaceData, FsmInv, FsmTypes
<1>2. misapplied' \in BOOLEAN
  <2>1. misapplied' = (misapplied \/ (Applies(r) /\ r.gid # goalId))
    BY DEF OnNavigationResult
  <2> QED
    BY <1>1, <2>1 DEF SeqData
<1>3. CASE UNCHANGED <<state, runVars, slots, waitingTrigger, executorVars>>
  <2>1. UNCHANGED <<state, index, preSuspend, navigationMode, slots, waitingTrigger, actionsLeft>>
    BY <1>3 DEF runVars, executorVars
  <2>2. TriggerWaitIsGenuine' /\ DrivesToAWaypoint' /\ waitingTrigger' \in BOOLEAN
    BY <1>1, <2>1, PlaceFrame
  <2>3. SeqData'
    BY <1>1, <1>2, <2>1, <2>2, TimerTypes DEF SeqData
  <2> QED
    BY <2>2, <2>3 DEF PlaceData
<1>4. CASE /\ state = "NAVIGATING" /\ Transition("ERROR")
           /\ UNCHANGED <<runVars, slots, executorVars>>
  <2>1. UNCHANGED <<index, preSuspend, navigationMode, slots, actionsLeft>>
    BY <1>4 DEF runVars, executorVars
  <2>2. <<state, "ERROR">> \in AllowedTransitions
    BY <1>4 DEF AllowedTransitions
  <2>3. state' = "ERROR" /\ waitingTrigger' = FALSE
    BY <1>1, <1>4, <2>2, TransitionMoves, TransitionEndsWait
  <2>4. TriggerWaitIsGenuine' /\ DrivesToAWaypoint' /\ waitingTrigger' \in BOOLEAN
    BY <1>1, <2>1, <2>3, PlaceFrame
  <2>5. SeqData'
    BY <1>1, <1>2, <2>1, <2>4, TimerTypes DEF SeqData
  <2> QED
    BY <2>4, <2>5 DEF PlaceData
<1>5. CASE state = "NAVIGATING" /\ EnterOnArriving(CurrentWaypoint.actions)
  <2> DEFINE list == CurrentWaypoint.actions
  <2>1. list \in Seq(ActionTypes)
    BY <1>1, <1>5, WaypointType DEF CurrentWaypoint, PlaceData, DrivesToAWaypoint, SeqData
  <2>2. /\ navigationMode' = ModeAfter(list, navigationMode) /\ actionsLeft' = list
        /\ Transition("ON_ARRIVING") /\ UNCHANGED <<index, preSuspend, slots>>
    BY <1>5 DEF EnterOnArriving
  <2> HIDE DEF list
  <2>3. navigationMode' \in Modes
    BY <1>1, <2>1, <2>2, ModeAfterType DEF SeqData
  <2>4. <<state, "ON_ARRIVING">> \in AllowedTransitions
    BY <1>5 DEF AllowedTransitions
  <2>5. state' = "ON_ARRIVING" /\ waitingTrigger' = FALSE
    BY <1>1, <2>2, <2>4, TransitionMoves, TransitionEndsWait
  <2>6. TriggerWaitIsGenuine' /\ DrivesToAWaypoint' /\ waitingTrigger' \in BOOLEAN
    BY <1>1, <2>2, <2>5, PlaceFrame
  <2>7. SeqData'
    BY <1>1, <1>2, <2>1, <2>2, <2>3, <2>6, TimerTypes DEF SeqData
  <2> QED
    BY <2>6, <2>7 DEF PlaceData
<1>6. CASE state = "NAVIGATING" /\ AdvanceToNext /\ UNCHANGED executorVars
  BY <1>1, <1>2, <1>6, AdvancePlaceData DEF executorVars
<1> QED
  BY <1>3, <1>4, <1>5, <1>6 DEF OnNavigationResult, Applies

\* The end of the executor's thread.
LEMMA ArrivingDonePlace == ASSUME PlaceData, FsmInv, OnArrivingDone PROVE PlaceData'
<1>1. /\ UNCHANGED <<waypoints, timerVars, actionsLeft, manualRequest, layersEnabled, layersStrayed>>
      /\ UNCHANGED <<commands, misapplied>> /\ SeqData
  BY DEF OnArrivingDone, PlaceData
<1>2. CASE UNCHANGED <<state, runVars, slots, waitingTrigger>>
  <2>1. UNCHANGED <<state, index, preSuspend, navigationMode, slots, waitingTrigger>>
    BY <1>2 DEF runVars
  <2>2. TriggerWaitIsGenuine' /\ DrivesToAWaypoint' /\ waitingTrigger' \in BOOLEAN
    BY <1>1, <2>1, PlaceFrame
  <2>3. SeqData'
    BY <1>1, <2>1, <2>2, TimerTypes DEF SeqData
  <2> QED
    BY <2>2, <2>3 DEF PlaceData
<1>3. CASE state = "ON_ARRIVING" /\ AdvanceToNext
  BY <1>1, <1>3, AdvancePlaceData DEF SeqData
<1> QED
  BY <1>2, <1>3 DEF OnArrivingDone

\* Every step of every thread keeps the types and the place.
LEMMA NextKeepsPlace == FsmInv /\ PlaceInv /\ [Next]_vars => PlaceInv'
<1> SUFFICES ASSUME FsmInv, PlaceInv, [Next]_vars PROVE PlaceInv'
  OBVIOUS
<1>1. NavShape /\ PlaceData /\ SeqTypeOK /\ DrivesToAWaypoint /\ FsmInv'
  BY SeqTypeParts, NextKeepsFsmInv DEF PlaceInv, PlaceData
<1>2. CASE Command \/ Thread
  <2>1. NavShape'
    BY <1>1, <1>2, CommandKinds, ThreadKinds, KindsKeepShape
  <2>2. PlaceData'
    <3>1. CASE Command
      BY <1>1, <3>1, StartPlace, StopPlace, PausePlace, ResumePlace, MovePlace, OtherPlace
      DEF Command
    <3>2. CASE Thread
      BY <1>1, <3>2, OtherPlace, StartingDonePlace, ResultPlace, ArrivingDonePlace DEF Thread
    <3> QED
      BY <1>2, <3>1, <3>2
  <2>3. SeqTypeOK'
    <3>1. FsmInv' => (SeqTypeOK' <=> SeqData')
      BY DEF FsmInv, FsmTypes, SeqTypeOK, SeqData
    <3> QED
      BY <1>1, <2>2, <3>1 DEF PlaceData
  <2> QED
    BY <2>1, <2>2, <2>3 DEF PlaceInv, PlaceData
<1>3. CASE UNCHANGED seqVars /\ (CallbackStep \/ Nav2Step \/ UNCHANGED navVars)
  <2>1. NavShape'
    <3>1. CASE UNCHANGED navVars
      BY <1>1, <3>1, ShapeFrame DEF navVars
    <3> QED
      BY <1>1, <1>3, <3>1, ShapeThreads
  <2>2. /\ UNCHANGED <<waypoints, index, preSuspend, slots, navigationMode, actionsLeft>>
        /\ UNCHANGED <<timerVars, manualRequest, layersEnabled, layersStrayed, commands, misapplied>>
        /\ UNCHANGED <<state, waitingTrigger, refused, stopPending, executing, manualGoalActive>>
    BY <1>3 DEF seqVars, executorVars
  <2>3. TriggerWaitIsGenuine' /\ DrivesToAWaypoint'
    BY <1>1, <2>2, PlaceFrame
  <2>4. SeqTypeOK'
    BY <1>1, <2>2 DEF SeqTypeOK, timerVars
  <2> QED
    BY <2>1, <2>3, <2>4 DEF PlaceInv
<1> QED
  BY <1>2, <1>3 DEF Next, vars

\* The sequencer as it is constructed.
LEMMA InitPlace == Init => PlaceInv
<1> SUFFICES ASSUME Init PROVE PlaceInv
  OBVIOUS
<1>1. NavShape
  BY NavInvInit DEF Init, NavInv, NavShape, NavInit, DispatchedOnce, LiveFollowsCallback
<1>2. SeqTypeOK
  <2>1. FsmInv
    BY InitFsmInv
  <2>2. /\ waypoints \in WaypointLists /\ index \in Nat /\ slots \subseteq Requesters
        /\ preSuspend \in {"IDLE", "ON_STARTING", "NAVIGATING"} /\ navigationMode \in Modes
    BY DEF Init, Modes
  <2>3. waitingTrigger \in BOOLEAN /\ layersEnabled \in BOOLEAN /\ layersStrayed \in BOOLEAN /\ misapplied \in BOOLEAN
    BY DEF Init
  <2>4. timerGeneration \in Nat /\ timerArmed \in Nat /\ timerFired \subseteq Nat
    BY DEF Init
  <2>5. /\ actionsLeft \in Seq(ActionTypes) /\ manualRequest \in ManualModes \cup {"none"}
        /\ commands \in 0..MaxCommands
    BY MaxCommandsAssumption DEF Init
  <2>6. SeqData
    BY <2>2, <2>3, <2>4, <2>5 DEF SeqData
  <2> QED
    BY <2>1, <2>6, SeqTypeParts
<1>3. TriggerWaitIsGenuine /\ DrivesToAWaypoint
  BY DEF Init, TriggerWaitIsGenuine, DrivesToAWaypoint
<1> QED
  BY <1>1, <1>2, <1>3 DEF PlaceInv

\* The invariant holds in every state the threads can reach.
LEMMA PlaceInvariance == Spec => []PlaceInv
BY InitPlace, NextKeepsPlace, FsmInvariant, PTL DEF Spec

\* Every attribute keeps its type, what is reported as waiting for a trigger is
\* so, and the sequence never drives past the end of its list, whatever lists
\* are reloaded and indices set meanwhile (fsm.py: reload_waypoints,
\* set_next_index, _advance_to_next), manual goals included.
THEOREM PlaceIsGenuine == Spec => []PositionIsGenuine
<1>1. PlaceInv => PositionIsGenuine
  BY DEF PlaceInv, PositionIsGenuine, TypeOK, NavShape
<1> QED
  BY <1>1, PlaceInvariance, PTL

-----------------------------------------------------------------------------
(***************************************************************************)
(* The logical goal and the state machine: an active goal belongs to the   *)
(* sequence that drives or to a manual goal, until a result is applied to  *)
(* a goal it is not about.                                                 *)
(***************************************************************************)

GoalOwned ==
    /\ active => \/ resultCallback = "sequence" /\ state = "NAVIGATING"
                 \/ resultCallback = "manual" /\ manualGoalActive
    /\ \A r \in reports : r.gid <= goalId /\ (r.gid = goalId => ~active)

OwnerInv == misapplied \/ GoalOwned

\* A callback ends the goal it reports, and begins none.
LEMMA CallbackReports ==
    ASSUME NavShape, CallbackStep \/ Nav2Step
    PROVE  /\ goalId' = goalId /\ resultCallback' = resultCallback
           /\ active' => active
           /\ \A r \in reports' : r \in reports \/ (r.gid = goalId /\ active /\ ~active')
<1>1. CASE UNCHANGED <<goalId, active, resultCallback, reports>>
  BY <1>1
<1>2. ASSUME NEW n \in 1..Len(goals), Finish(n)
      PROVE  /\ goalId' = goalId /\ resultCallback' = resultCallback
             /\ active' => active
             /\ \A r \in reports' : r \in reports \/ (r.gid = goalId /\ active /\ ~active')
  BY <1>2 DEF Finish, IsCurrent
<1>3. ASSUME NEW n \in 1..Len(goals), FeedbackPassed(n)
      PROVE  /\ goalId' = goalId /\ resultCallback' = resultCallback
             /\ active' => active
             /\ \A r \in reports' : r \in reports \/ (r.gid = goalId /\ active /\ ~active')
  BY <1>3 DEF FeedbackPassed, IsCurrent
<1>4. ASSUME NEW n \in 1..Len(goals),
             ResponseCallback(n) \/ ResultDoneCallback(n) \/ RunOnIdle(n) \/ Transmit(n)
      PROVE  UNCHANGED <<goalId, active, resultCallback, reports>>
  BY <1>4 DEF ResponseCallback, ResultDoneCallback, RunOnIdle, Transmit, logicalVars
<1>5. CASE PlanCallback \/ Nav2Step
  BY <1>1, <1>5 DEF PlanCallback, Nav2Step, Nav2Accept, Nav2Reject, Nav2End, logicalVars
<1> QED
  BY <1>1, <1>2, <1>3, <1>4, <1>5 DEF CallbackStep

\* What the two calls do to the logical goal.
LEMMA CancelLogical == ASSUME Cancel PROVE goalId' = goalId /\ ~active'
BY DEF Cancel

LEMMA SendLogical ==
    ASSUME NavShape, NEW to, NEW bt, NEW th, SendGoal(to, bt, th) \/ SendGoalNoServer(to, th)
    PROVE  /\ goalId' = goalId + 1 /\ goalId \in Nat /\ resultCallback' = to
           /\ SendGoal(to, bt, th) => active'
           /\ SendGoalNoServer(to, th) => ~active'
BY DEF SendGoal, SendGoalNoServer, NewLogicalGoal, NavShape, NavTypeOK

\* A new goal is newer than every report.
LEMMA ReportsAreOlder ==
    ASSUME NavShape, GoalOwned, reports' \subseteq reports, goalId' = goalId + 1
    PROVE  \A r \in reports' : r.gid <= goalId' /\ r.gid # goalId'
<1> SUFFICES ASSUME NEW r \in reports' PROVE r.gid <= goalId' /\ r.gid # goalId'
  OBVIOUS
<1>1. r.gid <= goalId /\ r \in Reports
  BY DEF GoalOwned, NavShape, NavTypeOK
<1>2. r.gid \in Nat /\ goalId \in Nat
  BY <1>1 DEF Reports, NavShape, NavTypeOK
<1> QED
  BY <1>1, <1>2

\* Every step of the state machine keeps the owner of the goal.
LEMMA KindsKeepOwner ==
    ASSUME NavShape, OwnerInv, FsmInv, Kinds PROVE OwnerInv'
<1> SUFFICES ASSUME GoalOwned, ~misapplied' PROVE GoalOwned'
  BY DEF OwnerInv, Kinds
<1>0. reports' \subseteq reports /\ manualGoalActive \in BOOLEAN
  BY DEF Kinds, FsmInv, FsmTypes
<1>1. UNCHANGED sendVars => UNCHANGED <<goalId, active, resultCallback>>
  BY DEF sendVars, logicalVars
<1>2. CASE KeepsGoals
  <2>1. /\ UNCHANGED <<goalId, active, resultCallback, manualGoalActive>>
        /\ state = "NAVIGATING" => state' = "NAVIGATING"
    BY <1>1, <1>2 DEF KeepsGoals
  <2> QED
    BY <1>0, <2>1 DEF GoalOwned
<1>3. CASE CancelsGoals
  BY <1>0, <1>3, CancelLogical DEF CancelsGoals, GoalOwned
<1>4. CASE SendsNext \/ SendsManual
  <2>1. /\ goalId' = goalId + 1
        /\ active' => \/ resultCallback' = "sequence" /\ state' = "NAVIGATING"
                      \/ resultCallback' = "manual" /\ manualGoalActive'
    BY <1>4, SendLogical DEF SendsNext, SendsManual, SequenceSend, ManualSend
  <2>2. \A r \in reports' : r.gid <= goalId' /\ r.gid # goalId'
    BY <1>0, <2>1, ReportsAreOlder
  <2> QED
    BY <2>1, <2>2 DEF GoalOwned
<1>5. CASE FailsGoal
  <2>1. ~active
    BY <1>5 DEF FailsGoal, GoalOwned
  <2> QED
    BY <1>0, <1>1, <1>5, <2>1 DEF FailsGoal, GoalOwned
<1>6. CASE EndsManual
  <2>1. ~active \/ state = "NAVIGATING"
    BY <1>6 DEF EndsManual, GoalOwned
  <2> QED
    BY <1>0, <1>1, <1>6, <2>1 DEF EndsManual, GoalOwned
<1> QED
  BY <1>2, <1>3, <1>4, <1>5, <1>6 DEF Kinds

\* Every step of every thread does.
LEMMA NextKeepsOwner ==
    FsmInv /\ PlaceInv /\ OwnerInv /\ [Next]_vars => OwnerInv'
<1> SUFFICES ASSUME FsmInv, PlaceInv, OwnerInv, [Next]_vars PROVE OwnerInv'
  OBVIOUS
<1>0. NavShape /\ SeqTypeOK /\ DrivesToAWaypoint
  BY DEF PlaceInv
<1>1. CASE Command \/ Thread
  BY <1>0, <1>1, CommandKinds, ThreadKinds, KindsKeepOwner
<1>2. CASE UNCHANGED seqVars /\ (CallbackStep \/ Nav2Step)
  <2>1. UNCHANGED <<state, manualGoalActive, misapplied>>
    BY <1>2 DEF seqVars
  <2>2. /\ goalId' = goalId /\ goalId \in Nat /\ resultCallback' = resultCallback
        /\ active' => active
        /\ \A r \in reports' : r \in reports \/ (r.gid = goalId /\ active /\ ~active')
    BY <1>0, <1>2, CallbackReports DEF NavShape, NavTypeOK
  <2>3. ASSUME GoalOwned PROVE GoalOwned'
    BY <2>1, <2>2, <2>3 DEF GoalOwned
  <2> QED
    BY <2>1, <2>3 DEF OwnerInv
<1>3. CASE UNCHANGED vars
  <2>1. UNCHANGED <<state, manualGoalActive, misapplied, goalId, active, resultCallback, reports>>
    BY <1>3 DEF vars, seqVars, navVars, logicalVars
  <2> QED
    BY <2>1 DEF OwnerInv, GoalOwned
<1> QED
  BY <1>1, <1>2, <1>3 DEF Next

\* The invariant holds in every state the threads can reach.
LEMMA OwnerInvariance == Spec => []OwnerInv
<1>1. Init => OwnerInv
  BY DEF Init, NavInit, OwnerInv, GoalOwned
<1> QED
  BY <1>1, NextKeepsOwner, FsmInvariant, PlaceInvariance, PTL DEF Spec

\* The sequence hands a goal over only when the last one was reported or
\* cancelled (fsm.py: every caller of _enter_navigating), whatever manual goals
\* come in between: the discipline navigator.py's caller is assumed to keep.
THEOREM GoalsAreSentOneAtATime == Spec => SendsOneAtATime
<1>1. FsmInv /\ PlaceInv /\ OwnerInv /\ [Next]_vars =>
        [(goalId' # goalId /\ state' = "NAVIGATING") => ~active \/ misapplied']_vars
  <2> SUFFICES ASSUME FsmInv, PlaceInv, OwnerInv, Next,
                      goalId' # goalId, state' = "NAVIGATING"
               PROVE  ~active \/ misapplied'
    BY DEF vars, navVars, logicalVars
  <2>0. NavShape /\ SeqTypeOK /\ DrivesToAWaypoint
    BY DEF PlaceInv
  <2>1. CASE Command \/ Thread
    <3>1. Kinds
      BY <2>0, <2>1, CommandKinds, ThreadKinds
    <3>2. UNCHANGED sendVars => goalId' = goalId
      BY DEF sendVars, logicalVars
    <3>3. SendsNext
      BY <3>1, <3>2, CancelLogical
      DEF Kinds, KeepsGoals, CancelsGoals, SendsManual, FailsGoal, EndsManual
    <3>4. CASE misapplied
      BY <3>1, <3>4 DEF Kinds
    <3>5. CASE GoalOwned
      <4>1. CASE state \in {"ON_STARTING", "SUSPENDED", "ON_ARRIVING"}
        BY <3>5, <4>1 DEF GoalOwned, FsmInv, ManualExcludesSequence, ManualGoalStates
      <4>2. CASE \E r \in reports : r.gid = goalId
        BY <3>5, <4>2 DEF GoalOwned
      <4> QED
        BY <3>3, <4>1, <4>2 DEF SendsNext
    <3> QED
      BY <3>4, <3>5 DEF OwnerInv
  <2>2. CASE CallbackStep \/ Nav2Step
    BY <2>0, <2>2, CallbackReports
  <2> QED
    BY <2>1, <2>2 DEF Next
<1> QED
  BY <1>1, FsmInvariant, PlaceInvariance, OwnerInvariance, PTL DEF Spec, SendsOneAtATime

\* Beside a manual goal the sequence neither counts down nor drives, and what
\* runs as a manual goal is marked, until a result was applied to a goal it is
\* not about; whether or not commands are served while navigate_to_pose waits.
THEOREM ManualGoalsAreExclusive == Spec => []ManualIsExclusive
<1>1. FsmInv /\ OwnerInv => ManualIsExclusive
  BY DEF FsmInv, OwnerInv, GoalOwned, ManualIsExclusive, ManualGoalIsMarked, ManualGoalRuns
<1> QED
  BY <1>1, FsmInvariant, OwnerInvariance, PTL

-----------------------------------------------------------------------------
(***************************************************************************)
(* Parked means quiet.  Without manual goals the sequence is the caller    *)
(* NavigatorProofs assumes, so NavInv holds under it, until a result is    *)
(* applied to a goal it is not about.                                      *)
(***************************************************************************)

AllEnded == \A n \in 1..Len(goals) : goals[n].srv \in Ended

QuietWhenParked ==
    /\ NavInv
    /\ state # "NAVIGATING" => Quiet
    /\ \A r \in reports : (r.gid = goalId /\ r.res # "PASSED") => AllEnded

QuietInv == misapplied \/ QuietWhenParked

\* The navigator's invariant gives the types the state machine's steps rest on.
LEMMA NavInvIsShape == ASSUME NavInv PROVE NavShape
<1>1. NavTypeOK /\ Len(goals) \in Nat
  BY GoalFields DEF NavInv
<1>2. active => goalId > 0
  BY DEF NavInv, DispatchedOnce
<1>3. liveState # "NONE" => Len(goals) # 0
  BY DEF NavInv, LiveFollowsCallback
<1> QED
  BY <1>1, <1>2, <1>3 DEF NavShape

\* When the latest goal has ended at Nav2, all have.
LEMMA LatestEnded ==
    ASSUME NavInv, Len(goals) > 0 => goals[Len(goals)].srv \in Ended PROVE AllEnded
<1> SUFFICES ASSUME NEW n \in 1..Len(goals), goals[n].srv \notin Ended PROVE FALSE
  BY DEF AllEnded
<1>1. Len(goals) \in Nat /\ Len(goals) \in 1..Len(goals)
  BY GoalFields DEF NavInv
<1>2. goals[Len(goals)].srv \in Ended /\ n # Len(goals) /\ n < Len(goals)
  BY <1>1
<1>3. goals[Len(goals)].srv \in {"unsent", "wire"}
  BY <1>1, <1>2 DEF NavInv, ServedInOrder
<1> QED
  BY <1>2, <1>3 DEF Ended

\* A goal that is not current and a server that has ended everything is quiet.
LEMMA EndedIsQuiet == ASSUME ~active, AllEnded PROVE Quiet
BY DEF Quiet, AllEnded, Ended

\* cancel() makes the navigator quiet.
LEMMA CancelQuiet ==
    ASSUME NavInv, Cancel
    PROVE  Quiet' /\ (AllEnded => AllEnded')
<1>1. /\ ~active' /\ liveCanceling' = (liveState # "NONE" \/ liveCanceling)
      /\ goals' = CancelRequested
  BY DEF Cancel, BeginCancelLive
<1>2. Len(goals') = Len(goals) /\ \A k \in 1..Len(goals) : goals'[k].srv = goals[k].srv
  BY <1>1, CancelMarks DEF NavInv
<1>3. AllEnded => AllEnded'
  BY <1>2 DEF AllEnded
<1>4. CASE liveState = "NONE"
  <2>1. AllEnded
    BY <1>4, LatestEnded DEF NavInv, LiveFollowsCallback
  <2>2. AllEnded'
    BY <1>3, <2>1
  <2>3. \A n \in 1..Len(goals') : goals'[n].srv \notin {"unsent", "wire", "running"}
    BY <2>2 DEF AllEnded, Ended
  <2> QED
    BY <1>1, <1>3, <2>3 DEF Quiet
<1>5. CASE liveState # "NONE"
  BY <1>1, <1>3, <1>5 DEF Quiet
<1> QED
  BY <1>4, <1>5

\* A goal whose callback is about to report it has ended, and all others too.
LEMMA ReportedHasEnded ==
    ASSUME NavInv, NEW n \in 1..Len(goals), goals[n].gid = goalId, goals[n].cb = "finish"
    PROVE  AllEnded
<1>1. n = Len(goals)
  BY CurrentIsLatest
<1>2. liveState = "NONE" /\ Len(goals) > 0
  BY <1>1 DEF NavInv, NavTypeOK, LiveFollowsCallback
<1> QED
  BY <1>2, LatestEnded DEF NavInv, LiveFollowsCallback

\* While nothing is active the callbacks and Nav2 only wind down.
LEMMA WindsDown ==
    ASSUME NavInv, ~active, CallbackStep \/ Nav2Step
    PROVE  /\ Len(goals') = Len(goals)
           /\ \A k \in 1..Len(goals) : goals[k].srv \in Ended => goals'[k].srv \in Ended
           /\ liveCanceling => liveCanceling' \/ AllEnded'
<1>0. /\ \A n \in 1..Len(goals) : goals[n] \in Goals
      /\ goals \in Seq(Goals) /\ Len(goals) \in Nat
  BY GoalFields DEF NavInv, NavTypeOK
<1> DEFINE Down == /\ Len(goals') = Len(goals)
                   /\ \A k \in 1..Len(goals) :
                        goals[k].srv \in Ended => goals'[k].srv \in Ended
<1>u. ASSUME NEW n \in 1..Len(goals), NEW r, goals' = [goals EXCEPT ![n] = r],
             goals[n].srv \in Ended => r.srv \in Ended
      PROVE  Down
  BY <1>0, <1>u
<1>m. ASSUME NEW n \in 1..Len(goals), MarkLiveDone(n), goals[n].srv \in Ended, Down
      PROVE  liveCanceling => liveCanceling' \/ AllEnded'
  <2>1. CASE n = Len(goals)
    <3>1. AllEnded
      BY <1>m, <2>1, LatestEnded
    <3> QED
      BY <1>m, <3>1 DEF AllEnded
  <2>2. CASE n # Len(goals)
    BY <1>m, <2>2 DEF MarkLiveDone, liveSeq, liveVars
  <2> QED
    BY <2>1, <2>2
<1>1. ASSUME NEW n \in 1..Len(goals), ResponseCallback(n)
      PROVE  Down /\ (liveCanceling => liveCanceling' \/ AllEnded')
  <2>1. CASE /\ goals[n].srv = "rejected" /\ MarkLiveDone(n)
             /\ goals' = [goals EXCEPT ![n].cb = "finish", ![n].res = "FAILED",
                                       ![n].onIdle = TakenIdle(n)]
    <3> DEFINE r == [goals[n] EXCEPT !.cb = "finish", !.res = "FAILED", !.onIdle = TakenIdle(n)]
    <3>1. goals' = [goals EXCEPT ![n] = r] /\ r.srv = goals[n].srv
      BY <1>0, <2>1 DEF Goals
    <3> HIDE DEF r
    <3>2. Down
      BY <1>u, <3>1
    <3> QED
      BY <1>m, <2>1, <3>2 DEF Ended
  <2>2. CASE goals' = [goals EXCEPT ![n].cb = "done"] /\ UNCHANGED liveVars
    <3> DEFINE r == [goals[n] EXCEPT !.cb = "done"]
    <3>1. goals' = [goals EXCEPT ![n] = r] /\ r.srv = goals[n].srv
      BY <1>0, <2>2 DEF Goals
    <3> HIDE DEF r
    <3> QED
      BY <1>u, <2>2, <3>1 DEF liveVars
  <2>3. CASE /\ goals' = [goals EXCEPT ![n].cb = "result",
                                       ![n].cancelRequested = @ \/ liveCanceling]
             /\ UNCHANGED <<liveBt, liveCanceling, onLiveIdle>>
    <3> DEFINE r == [goals[n] EXCEPT !.cb = "result",
                          !.cancelRequested = goals[n].cancelRequested \/ liveCanceling]
    <3>1. goals' = [goals EXCEPT ![n] = r] /\ r.srv = goals[n].srv
      BY <1>0, <2>3 DEF Goals
    <3> HIDE DEF r
    <3> QED
      BY <1>u, <2>3, <3>1
  <2> QED
    BY <1>1, <2>1, <2>2, <2>3 DEF ResponseCallback
<1>2. ASSUME NEW n \in 1..Len(goals), ResultDoneCallback(n)
      PROVE  Down /\ (liveCanceling => liveCanceling' \/ AllEnded')
  <2> DEFINE r == [goals[n] EXCEPT !.cb = "finish", !.res = ResultOf(goals[n].srv),
                                   !.onIdle = TakenIdle(n)]
  <2>1. goals' = [goals EXCEPT ![n] = r] /\ r.srv = goals[n].srv
    BY <1>0, <1>2 DEF ResultDoneCallback, Goals
  <2> HIDE DEF r
  <2>2. Down
    BY <1>u, <2>1
  <2> QED
    BY <1>2, <1>m, <2>2 DEF ResultDoneCallback
<1>3. ASSUME NEW n \in 1..Len(goals), Finish(n)
      PROVE  Down /\ liveCanceling' = liveCanceling
  <2> DEFINE r == [goals[n] EXCEPT !.cb = "idle"]
  <2>1. goals' = [goals EXCEPT ![n] = r] /\ r.srv = goals[n].srv
    BY <1>0, <1>3 DEF Finish, Goals
  <2> HIDE DEF r
  <2> QED
    BY <1>3, <1>u, <2>1 DEF Finish, liveVars
<1>4. ASSUME NEW n \in 1..Len(goals), RunOnIdle(n)
      PROVE  Down /\ liveCanceling' = liveCanceling
  <2> DEFINE r == [goals[n] EXCEPT !.cb = "done"]
  <2>1. goals' = [goals EXCEPT ![n].cb = "done"] /\ UNCHANGED liveVars
    BY <1>4 DEF RunOnIdle, IsCurrent
  <2>2. goals' = [goals EXCEPT ![n] = r] /\ r.srv = goals[n].srv
    BY <1>0, <2>1 DEF Goals
  <2> HIDE DEF r
  <2> QED
    BY <1>u, <2>1, <2>2 DEF liveVars
<1>5. ASSUME NEW n \in 1..Len(goals), Transmit(n) \/ Nav2End(n)
      PROVE  Down /\ liveCanceling' = liveCanceling
  <2>1. /\ goals[n].srv \notin Ended /\ UNCHANGED liveVars
        /\ \E s : goals' = [goals EXCEPT ![n].srv = s]
    BY <1>5 DEF Transmit, Nav2End, Running, Ended
  <2>2. PICK s : goals' = [goals EXCEPT ![n].srv = s]
    BY <2>1
  <2>3. goals' = [goals EXCEPT ![n] = [goals[n] EXCEPT !.srv = s]]
    BY <1>0, <2>2
  <2> QED
    BY <1>u, <2>1, <2>3 DEF liveVars
<1>6. CASE PlanCallback \/ \E n \in 1..Len(goals) : FeedbackPassed(n)
  BY <1>6 DEF PlanCallback, FeedbackPassed, IsCurrent
<1>7. CASE Nav2Accept \/ Nav2Reject
  <2> DEFINE h == Head(wire)
  <2>1. h \in 1..Len(goals) /\ goals[h].srv = "wire" /\ wire # <<>>
    BY <1>7, WireHead DEF Nav2Accept, Nav2Reject
  <2>2. CASE Nav2Reject
    <3>1. goals' = [goals EXCEPT ![h].srv = "rejected"] /\ UNCHANGED liveVars
      BY <2>2 DEF Nav2Reject
    <3> HIDE DEF h
    <3>2. goals' = [goals EXCEPT ![h] = [goals[h] EXCEPT !.srv = "rejected"]]
      BY <1>0, <2>1, <3>1
    <3>3. goals[h].srv \notin Ended
      BY <2>1 DEF Ended
    <3> QED
      BY <1>u, <2>1, <3>1, <3>2, <3>3 DEF liveVars
  <2>3. CASE Nav2Accept
    <3> DEFINE cross == \E k \in Running : goals[k].bt # goals[h].bt
               s(k) == IF k = h THEN (IF cross THEN "aborted" ELSE "running")
                       ELSE IF k \in Running /\ ~cross THEN "aborted" ELSE goals[k].srv
    <3>1. /\ goals' = [k \in 1..Len(goals) |-> [goals[k] EXCEPT !.srv = s(k)]]
          /\ UNCHANGED liveVars
      BY <2>3 DEF Nav2Accept
    <3>2. \A k \in 1..Len(goals) : goals[k].srv \in Ended => s(k) \in Ended
      BY <2>1 DEF Running, Ended
    <3> HIDE DEF s, cross, h
    <3>3. \A k \in 1..Len(goals) : goals'[k].srv = s(k)
      BY <1>0, <3>1 DEF Goals
    <3>4. DOMAIN goals' = 1..Len(goals)
      BY <3>1
    <3>5. Len(goals') = Len(goals)
      <4>1. NavInv'
        BY <1>7, ThreadsKeepNavInv DEF Nav2Step
      <4>2. goals' \in Seq(Goals)
        BY <4>1 DEF NavInv, NavTypeOK
      <4> QED
        BY <1>0, <3>4, <4>2
    <3> QED
      BY <3>1, <3>2, <3>3, <3>5 DEF liveVars
  <2> QED
    BY <1>7, <2>2, <2>3
<1> QED
  BY <1>1, <1>2, <1>3, <1>4, <1>5, <1>6, <1>7 DEF CallbackStep, Nav2Step, Running

\* The callbacks and Nav2 keep a parked navigator quiet, and what is reported
\* as ended has ended.
LEMMA ThreadsKeepQuiet ==
    ASSUME QuietWhenParked, GoalOwned, ~manualGoalActive, CallbackStep \/ Nav2Step,
           state' = state
    PROVE  QuietWhenParked'
<1>0. NavInv /\ NavInv' /\ NavShape
  BY ThreadsKeepNavInv, NavInvIsShape DEF QuietWhenParked
<1>1. /\ goalId' = goalId
      /\ active' => active
      /\ \A r \in reports' : r \in reports \/ (r.gid = goalId /\ active /\ ~active')
  BY <1>0, CallbackReports
<1>2. CASE ~active
  <2>1. /\ AllEnded => AllEnded'
        /\ liveCanceling => liveCanceling' \/ AllEnded'
        /\ Len(goals') = Len(goals)
        /\ \A k \in 1..Len(goals) : goals[k].srv \in Ended => goals'[k].srv \in Ended
    BY <1>0, <1>2, WindsDown DEF AllEnded
  <2>2. Quiet => Quiet'
    <3> SUFFICES ASSUME Quiet, NEW n \in 1..Len(goals'),
                        goals'[n].srv \in {"unsent", "wire", "running"}
                 PROVE  liveCanceling'
      BY <1>1, <1>2 DEF Quiet
    <3>1. goals'[n].srv \notin Ended
      BY DEF Ended
    <3>2. n \in 1..Len(goals) /\ goals[n].srv \notin Ended
      BY <2>1, <3>1
    <3>3. goals[n].srv \in {"unsent", "wire", "running"}
      BY <1>0, <3>2, GoalFields DEF NavInv
    <3>4. liveCanceling
      BY <3>2, <3>3 DEF Quiet
    <3> QED
      BY <2>1, <3>1, <3>4 DEF AllEnded
  <2>3. \A r \in reports' : r \in reports
    BY <1>1, <1>2
  <2> QED
    BY <1>0, <1>1, <2>1, <2>2, <2>3 DEF QuietWhenParked
<1>3. CASE active
  <2>1. state = "NAVIGATING"
    BY <1>3 DEF GoalOwned
  <2>2. ASSUME NEW r \in reports', r.gid = goalId, r.res # "PASSED" PROVE AllEnded'
    <3>1. r \notin reports
      BY <1>3, <2>2 DEF GoalOwned
    <3>2. CASE \E n \in 1..Len(goals) : FeedbackPassed(n)
      BY <2>2, <3>1, <3>2 DEF FeedbackPassed
    <3>3. CASE \E n \in 1..Len(goals) : Finish(n)
      <4>1. PICK n \in 1..Len(goals) : Finish(n)
        BY <3>3
      <4>2. goals[n].cb = "finish" /\ goals[n].gid = goalId
        BY <3>1, <4>1 DEF Finish, IsCurrent
      <4>3. AllEnded
        BY <1>0, <4>2, ReportedHasEnded
      <4> DEFINE q == [goals[n] EXCEPT !.cb = "idle"]
      <4>4. /\ goals' = [goals EXCEPT ![n] = q] /\ q \in Goals
            /\ q.srv = goals[n].srv
        BY <1>0, <4>1, GoalType DEF Finish, Goals, NavShape, NavTypeOK
      <4> HIDE DEF q
      <4>5. /\ Len(goals') = Len(goals) /\ goals'[n] = q
            /\ \A k \in 1..Len(goals) : k # n => goals'[k] = goals[k]
        BY <1>0, <4>4, GoalUpdated DEF NavShape
      <4> QED
        BY <4>3, <4>4, <4>5 DEF AllEnded
    <3>4. reports' = reports \/ \E n \in 1..Len(goals) : FeedbackPassed(n) \/ Finish(n)
      BY DEF CallbackStep, ResponseCallback, ResultDoneCallback, RunOnIdle, Transmit,
         PlanCallback, Nav2Step, Nav2Accept, Nav2Reject, Nav2End, logicalVars
    <3> QED
      BY <3>1, <3>2, <3>3, <3>4
  <2> QED
    BY <1>0, <1>1, <2>1, <2>2 DEF QuietWhenParked
<1> QED
  BY <1>2, <1>3

\* No manual goals: none is requested, none runs.
ManualIsOff == manualRequest = "none" /\ manualGoalActive = FALSE

\* Whatever the state machine asks of the navigator keeps a parked one quiet.
LEMMA KindsKeepQuiet ==
    ASSUME QuietWhenParked, GoalOwned, FsmInv, ManualIsOff, Kinds, ~misapplied'
    PROVE  QuietWhenParked'
<1>0. /\ NavInv /\ reports' \subseteq reports /\ GoalOwned
      /\ NavShape
  BY NavInvIsShape DEF QuietWhenParked, Kinds
<1>1. ASSUME UNCHANGED sendVars
      PROVE  /\ NavInv' /\ goalId' = goalId /\ (AllEnded => AllEnded') /\ (Quiet => Quiet')
  <2>1. /\ UNCHANGED <<logicalVars, liveVars, goals, wire>>
        /\ UNCHANGED <<goalId, active, goals, liveCanceling>>
    BY <1>1 DEF sendVars, logicalVars, liveVars
  <2> QED
    BY <1>0, <2>1, NavFrame DEF AllEnded, Quiet
<1>2. CASE KeepsGoals \/ EndsManual
  <2>1. state' # "NAVIGATING" => state # "NAVIGATING"
    BY <1>2 DEF KeepsGoals, EndsManual
  <2> QED
    BY <1>0, <1>1, <1>2, <2>1 DEF KeepsGoals, EndsManual, QuietWhenParked
<1>3. CASE CancelsGoals
  <2>1. NavInv' /\ Quiet' /\ (AllEnded => AllEnded') /\ goalId' = goalId
    BY <1>0, <1>3, CancelInv, CancelQuiet, CancelLogical DEF CancelsGoals
  <2> QED
    BY <1>0, <2>1 DEF QuietWhenParked
<1>4. CASE SendsNext
  <2>1. ~active
    BY <1>4 DEF SendsNext, GoalOwned, ManualIsOff
  <2>2. "sequence" \in Callbacks
    BY SequencerCallbacks
  <2>3. PICK bt \in BTs, th \in BOOLEAN :
          \/ SendGoal("sequence", bt, th) /\ state' = "NAVIGATING"
          \/ SendGoalNoServer("sequence", th) /\ state' = "ERROR"
    BY <1>4 DEF SendsNext, SequenceSend
  <2>4. NavInv' /\ goalId' = goalId + 1
    BY <1>0, <2>1, <2>2, <2>3, SendGoalInv, SendLogical
  <2>5. \A r \in reports' : r.gid # goalId'
    BY <1>0, <2>4, ReportsAreOlder
  <2>6. state' # "NAVIGATING" => Quiet'
    <3>1. CASE SendGoalNoServer("sequence", th)
      BY <3>1 DEF SendGoalNoServer, ServerMayBeGone, Quiet
    <3> QED
      BY <2>3, <3>1
  <2> QED
    BY <2>4, <2>5, <2>6 DEF QuietWhenParked
<1>5. CASE FailsGoal
  <2>1. PICK r \in reports : r.gid = goalId /\ r.res = "FAILED"
    BY <1>5 DEF FailsGoal
  <2>2. ~active /\ AllEnded
    BY <2>1 DEF GoalOwned, QuietWhenParked
  <2>3. Quiet'
    BY <1>1, <1>5, <2>2, EndedIsQuiet DEF FailsGoal
  <2> QED
    BY <1>0, <1>1, <1>5, <2>3 DEF FailsGoal, QuietWhenParked
<1> QED
  BY <1>2, <1>3, <1>4, <1>5 DEF Kinds, SendsManual, ManualIsOff

\* Whatever parked the sequence (a pause, a stop, the end of the list, actions
\* on arrival, a failure) and whatever callback was under way, Nav2 is asked for
\* nothing any more, or what it still has is being cancelled (fsm.py with
\* navigator.py).  With manual goals it is not so: two threads may then send at
\* once.
THEOREM ParkedStaysQuiet ==
    ASSUME ManualModes = {} PROVE Spec => []ParkedIsQuiet
<1> DEFINE I == ManualIsOff /\ QuietInv
<1>1. Init => I
  <2> SUFFICES ASSUME Init PROVE I
    OBVIOUS
  <2>1. NavInv
    BY NavInvInit DEF Init
  <2>2. Quiet /\ reports = {} /\ ManualIsOff
    BY DEF Init, NavInit, Quiet, ManualIsOff
  <2> QED
    BY <2>1, <2>2 DEF QuietInv, QuietWhenParked
<1>2. FsmInv /\ PlaceInv /\ OwnerInv /\ PlaceInv' /\ I /\ [Next]_vars => I'
  <2> SUFFICES ASSUME FsmInv, PlaceInv, OwnerInv, PlaceInv', ManualIsOff, QuietInv, [Next]_vars
               PROVE  ManualIsOff' /\ QuietInv'
    OBVIOUS
  <2>0. NavShape /\ SeqTypeOK /\ DrivesToAWaypoint
    BY DEF PlaceInv
  <2>1. manualRequest' = "none"
    BY DEF PlaceInv, SeqTypeOK
  <2>2. CASE Command \/ Thread
    <3>1. Kinds
      BY <2>0, <2>2, CommandKinds, ThreadKinds
    <3>2. manualGoalActive' = FALSE
      <4>1. CASE CancelsGoals
        <5>1. manualGoalActive' = FALSE \/ manualGoalActive' = manualGoalActive
          BY <2>2, <4>1 DEF Command, Thread, Start, Stop, PauseRequest, ResumeRequest,
             SetNextIndex, ReloadWaypoints, NavigateToPose, NavigateToPoseSend, TimerFires,
             OnStartingDone, OnNavigationResult, OnManualGoalResult, ExecuteAction,
             OnArrivingDone, ManualIsOff
        <5> QED
          BY <5>1 DEF ManualIsOff
      <4> QED
        BY <3>1, <4>1 DEF Kinds, KeepsGoals, SendsNext, SendsManual, FailsGoal, EndsManual,
           ManualIsOff
    <3>3. ASSUME ~misapplied' PROVE QuietWhenParked'
      <4>1. ~misapplied /\ GoalOwned /\ QuietWhenParked
        BY <3>1, <3>3 DEF Kinds, OwnerInv, QuietInv
      <4> QED
        BY <3>1, <3>3, <4>1, KindsKeepQuiet
    <3> QED
      BY <2>1, <3>2, <3>3 DEF ManualIsOff, QuietInv
  <2>3. CASE UNCHANGED seqVars /\ (CallbackStep \/ Nav2Step)
    <3>1. UNCHANGED <<state, misapplied, manualGoalActive>>
      BY <2>3 DEF seqVars
    <3>2. ASSUME ~misapplied PROVE QuietWhenParked'
      <4>1. GoalOwned /\ QuietWhenParked /\ ~manualGoalActive
        BY <3>2 DEF OwnerInv, QuietInv, ManualIsOff
      <4> QED
        BY <2>3, <3>1, <4>1, ThreadsKeepQuiet
    <3> QED
      BY <2>1, <3>1, <3>2 DEF ManualIsOff, QuietInv
  <2>4. CASE UNCHANGED vars
    <3>1. UNCHANGED <<state, misapplied, manualGoalActive>> /\ UNCHANGED navVars
      BY <2>4 DEF vars, seqVars
    <3>2. /\ UNCHANGED <<logicalVars, liveVars, goals, wire, reports>>
          /\ UNCHANGED <<goalId, active, goals, liveCanceling>>
      BY <3>1 DEF navVars, logicalVars, liveVars
    <3>3. QuietWhenParked => QuietWhenParked'
      BY <3>1, <3>2, NavFrame DEF QuietWhenParked, Quiet, AllEnded
    <3> QED
      BY <2>1, <3>1, <3>3 DEF ManualIsOff, QuietInv
  <2> QED
    BY <2>2, <2>3, <2>4 DEF Next
<1>3. I => ParkedIsQuiet
  BY DEF QuietInv, QuietWhenParked, ParkedIsQuiet
<1> QED
  BY <1>1, <1>2, <1>3, FsmInvariant, PlaceInvariance, OwnerInvariance, PTL DEF Spec

-----------------------------------------------------------------------------
(***************************************************************************)
(* The costmap layers and the mode: the FSM sets the mode at once, to what *)
(* the actions will leave behind; the executor switches the layers one     *)
(* action at a time.                                                       *)
(***************************************************************************)

NoSetterLeft == \A k \in 1..Len(actionsLeft) : actionsLeft[k] \notin Modes

LayersMatch ==
    /\ executing \/ actionsLeft = <<>>
    /\ ModeAfter(actionsLeft, navigationMode) = navigationMode
    /\ NoSetterLeft /\ ~layersStrayed => (layersEnabled <=> navigationMode # "queue_wait")

\* The mode a list leaves behind is one the list leaves alone.
LEMMA ModeAfterTwice ==
    ASSUME NEW actions \in Seq(ActionTypes), NEW mode
    PROVE  ModeAfter(actions, ModeAfter(actions, mode)) = ModeAfter(actions, mode)
<1> DEFINE next == ModeAfter(actions, mode)
<1>1. CASE \A k \in 1..Len(actions) : actions[k] \notin Modes
  <2>1. next = mode
    BY <1>1, ModeAfterKeeps
  <2> QED
    BY <2>1
<1>2. CASE \E m \in 1..Len(actions) : actions[m] \in Modes
  <2> HIDE DEF next
  <2>1. PICK i \in 1..Len(actions) :
          /\ actions[i] \in Modes /\ ModeAfter(actions, mode) = actions[i]
          /\ \A j \in 1..Len(actions) : actions[j] \in Modes => j <= i
    BY <1>2, ModeAfterWins
  <2>2. PICK k \in 1..Len(actions) :
          /\ actions[k] \in Modes /\ ModeAfter(actions, next) = actions[k]
          /\ \A j \in 1..Len(actions) : actions[j] \in Modes => j <= k
    BY <1>2, ModeAfterWins
  <2>3. i = k
    BY <2>1, <2>2
  <2> QED
    BY <2>1, <2>2, <2>3 DEF next
<1> QED
  BY <1>1, <1>2

\* Once the first of several actions is done, the mode of the rest is that of
\* the whole list.
LEMMA ModeAfterTail ==
    ASSUME NEW actions \in Seq(ActionTypes), NEW mode, actions # <<>>,
           \E k \in 1..Len(Tail(actions)) : Tail(actions)[k] \in Modes
    PROVE  ModeAfter(Tail(actions), mode) = ModeAfter(actions, mode)
<1>1. /\ Tail(actions) \in Seq(ActionTypes) /\ Len(actions) \in Nat
      /\ Len(Tail(actions)) = Len(actions) - 1
      /\ \A k \in 1..Len(Tail(actions)) :
           k + 1 \in 1..Len(actions) /\ Tail(actions)[k] = actions[k + 1]
  OBVIOUS
<1>2. PICK i \in 1..Len(Tail(actions)) :
        /\ Tail(actions)[i] \in Modes /\ ModeAfter(Tail(actions), mode) = Tail(actions)[i]
        /\ \A j \in 1..Len(Tail(actions)) : Tail(actions)[j] \in Modes => j <= i
  BY <1>1, ModeAfterWins
<1>3. i + 1 \in 1..Len(actions) /\ actions[i + 1] \in Modes
  BY <1>1, <1>2
<1>4. PICK k \in 1..Len(actions) :
        /\ actions[k] \in Modes /\ ModeAfter(actions, mode) = actions[k]
        /\ \A j \in 1..Len(actions) : actions[j] \in Modes => j <= k
  BY <1>3, ModeAfterWins
<1>5. k - 1 \in 1..Len(Tail(actions))
  BY <1>1, <1>3, <1>4
<1>6. Tail(actions)[k - 1] = actions[k - 1 + 1] /\ k - 1 + 1 = k
  BY <1>1, <1>5
<1>7. k - 1 <= i /\ i + 1 <= k
  BY <1>2, <1>3, <1>4, <1>5, <1>6
<1>8. k = i + 1
  BY <1>7
<1> QED
  BY <1>1, <1>2, <1>4, <1>8

\* Of a list with one setter, its first action, that one is the mode.
LEMMA ModeAfterHead ==
    ASSUME NEW actions \in Seq(ActionTypes), NEW mode, actions # <<>>, Head(actions) \in Modes,
           \A k \in 1..Len(Tail(actions)) : Tail(actions)[k] \notin Modes
    PROVE  ModeAfter(actions, mode) = Head(actions)
<1>1. /\ Len(actions) \in Nat /\ 1 \in 1..Len(actions) /\ Head(actions) = actions[1]
      /\ Len(Tail(actions)) = Len(actions) - 1
      /\ \A k \in 1..Len(Tail(actions)) : Tail(actions)[k] = actions[k + 1]
  OBVIOUS
<1>2. PICK k \in 1..Len(actions) :
        actions[k] \in Modes /\ ModeAfter(actions, mode) = actions[k]
  BY <1>1, ModeAfterWins
<1>3. CASE k # 1
  <2>1. k - 1 \in 1..Len(Tail(actions)) /\ k - 1 + 1 = k
    BY <1>1, <1>3
  <2> QED
    BY <1>1, <1>2, <2>1
<1> QED
  BY <1>1, <1>2, <1>3

\* One action of the executor's list.
LEMMA ActionKeepsLayers ==
    ASSUME SeqTypeOK, LayersMatch, ExecuteAction PROVE LayersMatch'
<1> DEFINE rest == Tail(actionsLeft)
<1>1. /\ executing' = executing /\ executing /\ actionsLeft # <<>>
      /\ actionsLeft' = rest /\ navigationMode' = navigationMode
      /\ actionsLeft \in Seq(ActionTypes)
  BY DEF ExecuteAction, runVars, SeqTypeOK
<1>2. /\ Len(actionsLeft) \in Nat /\ Len(rest) = Len(actionsLeft) - 1
      /\ \A k \in 1..Len(rest) :
           k + 1 \in 1..Len(actionsLeft) /\ rest[k] = actionsLeft[k + 1]
      /\ Head(actionsLeft) = actionsLeft[1] /\ rest \in Seq(ActionTypes)
  BY <1>1
<1>3. ModeAfter(rest, navigationMode) = navigationMode
  <2>1. CASE \E k \in 1..Len(rest) : rest[k] \in Modes
    BY <1>1, <2>1, ModeAfterTail DEF LayersMatch
  <2>2. CASE \A k \in 1..Len(rest) : rest[k] \notin Modes
    BY <1>2, <2>2, ModeAfterKeeps
  <2> QED
    BY <2>1, <2>2
<1>4. ASSUME \A k \in 1..Len(rest) : rest[k] \notin Modes, ~layersStrayed'
      PROVE  layersEnabled' <=> navigationMode # "queue_wait"
  <2>1. CASE Head(actionsLeft) \in Modes
    <3>1. navigationMode = Head(actionsLeft)
      BY <1>1, <1>4, <2>1, ModeAfterHead DEF LayersMatch
    <3>2. layersEnabled' = (Head(actionsLeft) # "queue_wait")
      BY <1>4, <2>1 DEF ExecuteAction, SwitchLayers
    <3> QED
      BY <3>1, <3>2
  <2>2. CASE Head(actionsLeft) \notin Modes
    <3>1. layersEnabled' = layersEnabled /\ ~layersStrayed
      BY <1>4, <2>2 DEF ExecuteAction
    <3>2. \A k \in 1..Len(actionsLeft) : actionsLeft[k] \notin Modes
      <4> SUFFICES ASSUME NEW k \in 1..Len(actionsLeft) PROVE actionsLeft[k] \notin Modes
        OBVIOUS
      <4>1. CASE k = 1
        BY <1>2, <2>2, <4>1
      <4>2. CASE k # 1
        <5>1. k - 1 \in 1..Len(rest) /\ k - 1 + 1 = k
          BY <1>2, <4>2
        <5> QED
          BY <1>2, <1>4, <5>1
      <4> QED
        BY <4>1, <4>2
    <3> QED
      BY <3>1, <3>2 DEF LayersMatch, NoSetterLeft
  <2> QED
    BY <2>1, <2>2
<1> HIDE DEF rest
<1> QED
  BY <1>1, <1>3, <1>4 DEF LayersMatch, NoSetterLeft

\* A waypoint with actions is reached.
LEMMA ArrivingKeepsLayers ==
    ASSUME SeqTypeOK, LayersMatch, ~executing,
           NEW actions \in Seq(ActionTypes), EnterOnArriving(actions),
           layersEnabled' = layersEnabled, layersStrayed' = layersStrayed
    PROVE  LayersMatch'
<1>1. /\ executing' = TRUE /\ actionsLeft' = actions
      /\ navigationMode' = ModeAfter(actions, navigationMode)
  BY DEF EnterOnArriving
<1>2. ModeAfter(actions, navigationMode') = navigationMode'
  BY <1>1, ModeAfterTwice
<1>3. NoSetterLeft
  BY DEF LayersMatch, NoSetterLeft
<1>4. ASSUME \A k \in 1..Len(actions) : actions[k] \notin Modes
      PROVE  navigationMode' = navigationMode
  BY <1>1, <1>4, ModeAfterKeeps
<1>5. ~layersStrayed => (layersEnabled <=> navigationMode # "queue_wait")
  BY <1>3 DEF LayersMatch
<1> QED
  BY <1>1, <1>2, <1>4, <1>5 DEF LayersMatch, NoSetterLeft

\* Every step keeps the layers in step with the mode.
LEMMA NextKeepsLayers ==
    FsmInv /\ PlaceInv /\ LayersMatch /\ [Next]_vars => LayersMatch'
<1> SUFFICES ASSUME FsmInv, PlaceInv, LayersMatch, [Next]_vars PROVE LayersMatch'
  OBVIOUS
<1>0. SeqTypeOK /\ DrivesToAWaypoint
  BY DEF PlaceInv, SeqTypeOK
<1>1. ASSUME UNCHANGED <<executing, actionsLeft, navigationMode, layersEnabled, layersStrayed>>
      PROVE  LayersMatch'
  BY <1>1 DEF LayersMatch, NoSetterLeft
<1>2. CASE Command
  <2>1. UNCHANGED <<executing, actionsLeft, navigationMode, layersEnabled, layersStrayed>>
    BY <1>2 DEF Command, Start, Stop, PauseRequest, ResumeRequest, SetNextIndex, ReloadWaypoints,
       NavigateToPose, executorVars, runVars
  <2> QED
    BY <1>1, <2>1
<1>3. CASE TimerFires \/ \E generation \in timerFired : OnStartingDone(generation)
  <2>1. UNCHANGED <<executing, actionsLeft, navigationMode, layersEnabled, layersStrayed>>
    BY <1>3 DEF TimerFires, OnStartingDone, executorVars, runVars
  <2> QED
    BY <1>1, <2>1
<1>4. ASSUME NEW r \in reports, OnManualGoalResult(r) PROVE LayersMatch'
  <2>1. UNCHANGED <<executing, actionsLeft, navigationMode, layersEnabled, layersStrayed>>
    BY <1>4 DEF OnManualGoalResult, executorVars, runVars
  <2> QED
    BY <1>1, <2>1
<1>5. ASSUME NEW r \in reports, OnNavigationResult(r) PROVE LayersMatch'
  <2>1. CASE Applies(r) /\ EnterOnArriving(CurrentWaypoint.actions)
    <3>1. state = "NAVIGATING" /\ UNCHANGED <<layersEnabled, layersStrayed>>
      BY <1>5, <2>1 DEF Applies, OnNavigationResult
    <3>2. ~executing
      BY <3>1 DEF FsmInv, DeferredStopBelongsToActions
    <3>3. CurrentWaypoint.actions \in Seq(ActionTypes)
      <4>1. index \in Nat /\ index < Size
        BY <1>0, <3>1 DEF DrivesToAWaypoint, SeqTypeOK
      <4> QED
        BY <1>0, <4>1, WaypointType DEF CurrentWaypoint
    <3> HIDE DEF CurrentWaypoint
    <3> QED
      BY <1>0, <2>1, <3>1, <3>2, <3>3, ArrivingKeepsLayers
  <2>2. CASE ~(Applies(r) /\ EnterOnArriving(CurrentWaypoint.actions))
    <3>1. UNCHANGED <<executing, actionsLeft, navigationMode, layersEnabled, layersStrayed>>
      BY <1>5, <2>2 DEF OnNavigationResult, AdvanceToNext, executorVars, runVars
    <3> QED
      BY <1>1, <3>1
  <2> QED
    BY <2>1, <2>2
<1>6. CASE ExecuteAction
  BY <1>0, <1>6, ActionKeepsLayers
<1>7. CASE OnArrivingDone
  <2>1. /\ actionsLeft = <<>> /\ actionsLeft' = actionsLeft
        /\ navigationMode' = navigationMode
        /\ UNCHANGED <<layersEnabled, layersStrayed>>
    BY <1>7 DEF OnArrivingDone, AdvanceToNext, runVars
  <2> QED
    BY <2>1 DEF LayersMatch, NoSetterLeft
<1>8. CASE \/ (CallbackStep \/ Nav2Step) /\ UNCHANGED seqVars
           \/ UNCHANGED vars
  <2>1. UNCHANGED <<executing, actionsLeft, navigationMode, layersEnabled, layersStrayed>>
    BY <1>8 DEF vars, seqVars, executorVars
  <2> QED
    BY <1>1, <2>1
<1>9. CASE NavigateToPoseSend
  <2>1. /\ UNCHANGED <<executing, actionsLeft, navigationMode>>
        /\ layersStrayed' \/ UNCHANGED <<layersEnabled, layersStrayed>>
    BY <1>9 DEF NavigateToPoseSend, StrayLayers, executorVars, runVars
  <2> QED
    BY <2>1 DEF LayersMatch, NoSetterLeft
<1> QED
  BY <1>2, <1>3, <1>4, <1>5, <1>6, <1>7, <1>8, <1>9 DEF Next, Thread

\* Whenever a waypoint goal is driven to, the global costmap's obstacle layers
\* are those of the mode it was sent with (fsm.py's _enter_on_arriving and the
\* set_navigation_mode action), however the actions mix the two modes, unless
\* the executor's last switch failed or a manual goal has switched them since.
THEOREM LayersMatchMode == Spec => []LayersFollowMode
<1>1. Init => LayersMatch
  <2> SUFFICES ASSUME Init PROVE LayersMatch
    OBVIOUS
  <2>1. /\ actionsLeft = <<>> /\ navigationMode = "normal" /\ layersEnabled
        /\ <<>> \in Seq(ActionTypes)
    BY DEF Init
  <2>2. ModeAfter(actionsLeft, navigationMode) = navigationMode
    <3>1. actionsLeft \in Seq(ActionTypes)
      BY <2>1
    <3>2. \A k \in 1..Len(actionsLeft) : actionsLeft[k] \notin Modes
      BY <2>1
    <3> QED
      BY <3>1, <3>2, ModeAfterKeeps
  <2> QED
    BY <2>1, <2>2 DEF LayersMatch
<1>2. FsmInv /\ LayersMatch => LayersFollowMode
  <2> SUFFICES ASSUME FsmInv, LayersMatch, state = "NAVIGATING", ~layersStrayed
               PROVE  layersEnabled <=> navigationMode # "queue_wait"
    BY DEF LayersFollowMode
  <2>1. ~executing
    BY DEF FsmInv, DeferredStopBelongsToActions
  <2>2. NoSetterLeft
    BY <2>1 DEF LayersMatch, NoSetterLeft
  <2> QED
    BY <2>2 DEF LayersMatch
<1> QED
  BY <1>1, <1>2, NextKeepsLayers, FsmInvariant, PlaceInvariance, PTL DEF Spec
=============================================================================
