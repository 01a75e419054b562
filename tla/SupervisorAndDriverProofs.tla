---------------------- MODULE SupervisorAndDriverProofs ----------------------
(***************************************************************************)
(* Theorems about SupervisorMachine, for every set of checks, every choice *)
(* of thresholds that meets its assumptions, and with or without recovery, *)
(* and about SerialDrivers, for every reading, command and limit and for    *)
(* whatever the line does to a reply within its fault model.               *)
(***************************************************************************)
EXTENDS SupervisorMachine, SerialDrivers, DataInduction, SequenceTheorems, TLAPS

\* Counters stay within the cap, and go up by at most one.
LEMMA IncType == ASSUME NEW k \in 0..Cap PROVE Inc(k) \in 0..Cap /\ Inc(k) <= k + 1 /\ k <= Inc(k)
BY CapAssumption DEF Inc

\* A grace period that passes stays a number of periods.
LEMMA PassType == ASSUME NEW k \in Nat PROVE Pass(k) \in Nat
BY DEF Pass

\* Inc is monotonic, so a confirmation cannot overtake the clock.
LEMMA IncMonotonic ==
    ASSUME NEW j \in 0..Cap, NEW k \in 0..Cap, j <= k PROVE Inc(j) <= Inc(k)
BY CapAssumption DEF Inc

\* _update_runs leaves runs within the cap.
LEMMA NextRunType ==
    ASSUME TypeOK, NEW checks
    PROVE  NextRun(checks) \in [RunChecks -> 0..Cap]
<1>1. \A c \in RunChecks : run[c] \in 0..Cap
  BY DEF TypeOK
<1>2. \A c \in RunChecks : Inc(run[c]) \in 0..Cap
  BY <1>1, IncType
<1>3. 0 \in 0..Cap
  BY CapAssumption
<1> QED
  BY <1>1, <1>2, <1>3 DEF NextRun

\* The confirmations grow by one at most (RECOVERING's _ok_run).
LEMMA NextOkType ==
    ASSUME TypeOK, NEW checks
    PROVE  NextOk(checks) \in 0..Cap /\ NextOk(checks) <= Inc(okRun)
<1>1. okRun \in 0..Cap /\ Inc(okRun) \in 0..Cap /\ okRun <= Inc(okRun)
  BY IncType DEF TypeOK
<1>2. 0 \in 0..Cap
  BY CapAssumption
<1> QED
  BY <1>1, <1>2 DEF NextOk

\* What a step that resets or keeps the counters leaves is well typed.
LEMMA CounterTypes ==
    ASSUME TypeOK, NEW checks
    PROVE  /\ ResetCounters => /\ run' \in [RunChecks -> 0..Cap] /\ jumpSeen' \in BOOLEAN
                               /\ clearRun' \in 0..Cap /\ okRun' \in 0..Cap
           /\ KeepRuns(checks) => run' \in [RunChecks -> 0..Cap] /\ jumpSeen' \in BOOLEAN
           /\ CountClear(checks) => /\ run' \in [RunChecks -> 0..Cap] /\ jumpSeen' \in BOOLEAN
                                    /\ clearRun' \in 0..Cap
<1>1. 0 \in 0..Cap
  BY CapAssumption
<1>2. NoRun \in [RunChecks -> 0..Cap]
  BY <1>1 DEF NoRun
<1>3. KeepRuns(checks) => run' \in [RunChecks -> 0..Cap]
  BY NextRunType DEF KeepRuns
<1>4. KeepRuns(checks) => jumpSeen' \in BOOLEAN
  BY DEF KeepRuns
<1>5. clearRun \in 0..Cap /\ Inc(clearRun) \in 0..Cap
  BY IncType DEF TypeOK
<1>6. CountClear(checks) => clearRun' \in 0..Cap
  BY <1>1, <1>5 DEF CountClear
<1>7. CountClear(checks) => KeepRuns(checks)
  BY DEF CountClear
<1> QED
  BY <1>1, <1>2, <1>3, <1>4, <1>6, <1>7 DEF ResetCounters

\* _apply_degraded leaves a Boolean.
LEMMA LimitType ==
    ASSUME TypeOK, NEW degraded \in BOOLEAN, ApplyDegraded(degraded)
    PROVE  speedLimited' \in BOOLEAN
BY DEF TypeOK, ApplyDegraded

-----------------------------------------------------------------------------
(***************************************************************************)
(* The inductive invariant.  TypeOK alone is not inductive: that the       *)
(* number of re-initialisations stays within max_reinit_attempts rests on  *)
(* its being the number of attempts in RECOVERING and zero in ISOLATED,    *)
(* and those states exist only with recovery enabled.                      *)
(***************************************************************************)

AttemptsAreCounted ==
    /\ state = "RECOVERING" => attempts \in 1..MaxReinitAttempts /\ reinits = attempts
    /\ state = "ISOLATED" => reinits = 0
    /\ (state = "DEGRADED" /\ recoveryEnabled) => reinits = MaxReinitAttempts

StateInv ==
    /\ state \in {"ISOLATED", "RECOVERING"} => recoveryEnabled
    /\ DetachedWhileRecovering
    /\ AttemptsAreCounted
    /\ SpeedLimitFollowsState

Outcomes == {"mismatch", "healthy", "mixed"}

\* One lemma per branch of SupervisorMachine.step: NORMAL.
LEMMA NormalKeepsInv ==
    ASSUME TypeOK, StateInv, NEW checks, StepNormal(checks), last' \in Outcomes,
           even' \in BOOLEAN,
           recoveryEnabled' = recoveryEnabled
    PROVE  TypeOK' /\ StateInv'
<1> USE ConfigAssumption, CapAssumption
<1>1. run' \in [RunChecks -> 0..Cap] /\ jumpSeen' \in BOOLEAN
  BY NextRunType DEF StepNormal
<1>2. state' \in {"NORMAL", "SUSPECT"} /\ clearRun' \in 0..Cap
  BY DEF StepNormal, TypeOK
<1>3. grace' \in Nat
  BY PassType DEF StepNormal, NoAction, TypeOK
<1>4. UNCHANGED <<attached, okRun, since, attempts, speedLimited, reinits>>
  BY DEF StepNormal, NoAction
<1>5. TypeOK'
  BY <1>1, <1>2, <1>3, <1>4 DEF TypeOK, States, Outcomes
<1>6. state = "NORMAL"
  BY DEF StepNormal
<1> QED
  BY <1>2, <1>4, <1>5, <1>6 DEF TypeOK, StateInv, DetachedWhileRecovering,
     AttemptsAreCounted, SpeedLimitFollowsState

\* The SUSPECT branch.
LEMMA SuspectKeepsInv ==
    ASSUME TypeOK, StateInv, NEW checks, StepSuspect(checks), last' \in Outcomes,
           even' \in BOOLEAN,
           recoveryEnabled' = recoveryEnabled
    PROVE  TypeOK' /\ StateInv'
<1> USE ConfigAssumption, CapAssumption
<1>1. state = "SUSPECT" /\ attached = TRUE /\ speedLimited = FALSE
  BY DEF StepSuspect, StateInv, DetachedWhileRecovering, SpeedLimitFollowsState, TypeOK
<1>2. grace' \in Nat /\ attempts' = attempts
  BY PassType DEF StepSuspect, NoAction, TypeOK
<1>3. CASE /\ ~recoveryEnabled /\ state' = "DEGRADED" /\ clearRun' = 0
           /\ ApplyDegraded(TRUE) /\ KeepRuns(checks)
           /\ UNCHANGED <<attached, okRun, since, reinits>>
  <2>2. run' \in [RunChecks -> 0..Cap] /\ jumpSeen' \in BOOLEAN
    BY <1>3, CounterTypes
  <2>3. speedLimited' \in BOOLEAN
    BY <1>3, LimitType
  <2>1. TypeOK'
    BY <1>2, <1>3, <2>2, <2>3 DEF TypeOK, States, Outcomes
  <2> QED
    BY <1>1, <1>3, <2>1 DEF StateInv, DetachedWhileRecovering, AttemptsAreCounted,
       SpeedLimitFollowsState, ApplyDegraded
<1>4. CASE /\ recoveryEnabled /\ state' = "ISOLATED" /\ attached' = FALSE /\ since' = 0
           /\ KeepRuns(checks) /\ reinits' = 0
           /\ UNCHANGED <<clearRun, okRun, speedLimited>>
  <2>2. run' \in [RunChecks -> 0..Cap] /\ jumpSeen' \in BOOLEAN
    BY <1>4, CounterTypes
  <2>3. attached' \in BOOLEAN /\ speedLimited' \in BOOLEAN /\ state' \in States
    BY <1>4 DEF TypeOK, States
  <2>4. since' \in 0..Cap /\ reinits' \in 0..MaxReinitAttempts
    BY <1>4
  <2>5. clearRun' \in 0..Cap /\ okRun' \in 0..Cap /\ attempts' \in 0..MaxReinitAttempts
    BY <1>2, <1>4 DEF TypeOK
  <2>1. TypeOK'
    BY <1>2, <2>2, <2>3, <2>4, <2>5 DEF TypeOK, Outcomes
  <2> QED
    BY <1>1, <1>4, <2>1 DEF StateInv, DetachedWhileRecovering, AttemptsAreCounted,
       SpeedLimitFollowsState
<1>5. CASE /\ state' = "NORMAL" /\ ResetCounters
           /\ UNCHANGED <<attached, since, speedLimited, reinits>>
  <2>1. TypeOK'
    BY <1>2, <1>5, CounterTypes DEF TypeOK, States, Outcomes
  <2> QED
    BY <1>1, <1>5, <2>1 DEF StateInv, DetachedWhileRecovering, AttemptsAreCounted,
       SpeedLimitFollowsState
<1>6. CASE CountClear(checks) /\ UNCHANGED <<attached, since, speedLimited, reinits>>
  <2>1. state' = state /\ okRun' = okRun
    BY <1>6 DEF CountClear
  <2>2. TypeOK'
    BY <1>2, <1>6, <2>1, CounterTypes DEF TypeOK, Outcomes
  <2> QED
    BY <1>1, <1>6, <2>1, <2>2 DEF StateInv, DetachedWhileRecovering, AttemptsAreCounted,
       SpeedLimitFollowsState
<1> QED
  BY <1>3, <1>4, <1>5, <1>6 DEF StepSuspect, NoAction

\* The ISOLATED branch.
LEMMA IsolatedKeepsInv ==
    ASSUME TypeOK, StateInv, NEW checks, StepIsolated(checks), last' \in Outcomes,
           even' \in BOOLEAN,
           recoveryEnabled' = recoveryEnabled
    PROVE  TypeOK' /\ StateInv'
<1> USE ConfigAssumption, CapAssumption
<1>1. /\ state = "ISOLATED" /\ attached = FALSE /\ recoveryEnabled = TRUE /\ reinits = 0
      /\ speedLimited = FALSE
  BY DEF StepIsolated, StateInv, DetachedWhileRecovering, AttemptsAreCounted,
     SpeedLimitFollowsState, TypeOK
<1>2. grace' \in Nat /\ UNCHANGED <<attached, clearRun, speedLimited>>
  BY PassType DEF StepIsolated, NoAction, StartRecovery, TypeOK
<1>3. run' \in [RunChecks -> 0..Cap] /\ jumpSeen' \in BOOLEAN
  BY CounterTypes DEF StepIsolated
<1>4. CASE StartRecovery /\ reinits' = reinits + 1
  <2>1. state' = "RECOVERING" /\ since' = 0 /\ attempts' = 1 /\ okRun' = 0 /\ reinits' = 1
    BY <1>1, <1>4 DEF StartRecovery
  <2>2. TypeOK'
    BY <1>2, <1>3, <2>1 DEF TypeOK, States, Outcomes
  <2> QED
    BY <1>1, <1>2, <2>1, <2>2 DEF StateInv, DetachedWhileRecovering, AttemptsAreCounted,
       SpeedLimitFollowsState
<1>5. CASE since' = Inc(since) /\ UNCHANGED <<state, attempts, okRun, reinits>>
  <2>1. TypeOK'
    BY <1>2, <1>3, <1>5, IncType DEF TypeOK, Outcomes
  <2> QED
    BY <1>1, <1>2, <1>5, <2>1 DEF StateInv, DetachedWhileRecovering, AttemptsAreCounted,
       SpeedLimitFollowsState
<1> QED
  BY <1>4, <1>5 DEF StepIsolated, NoAction

\* The way back to NORMAL with ATTACH, from RECOVERING and from DEGRADED.
LEMMA RecoveredKeepsInv ==
    ASSUME TypeOK, StateInv, Recovered, last' \in Outcomes,
           even' \in BOOLEAN,
           recoveryEnabled' = recoveryEnabled
    PROVE  TypeOK' /\ StateInv'
<1> USE ConfigAssumption, CapAssumption
<1>1. grace' \in Nat
  BY PassType DEF Recovered
<1>2. speedLimited' \in BOOLEAN /\ (speedLimited' => ~SlowOnDegraded /\ speedLimited)
  BY DEF Recovered, ApplyDegraded, TypeOK
<1>3. state' = "NORMAL" /\ attached' = TRUE /\ UNCHANGED <<since, attempts, reinits>>
  BY DEF Recovered
<1>4. TypeOK'
  BY <1>1, <1>2, <1>3, CounterTypes DEF Recovered, TypeOK, States, Outcomes
<1> QED
  BY <1>2, <1>3, <1>4 DEF StateInv, DetachedWhileRecovering, AttemptsAreCounted,
     SpeedLimitFollowsState

\* The RECOVERING branch.
LEMMA RecoveringKeepsInv ==
    ASSUME TypeOK, StateInv, NEW checks, StepRecovering(checks), last' \in Outcomes,
           even' \in BOOLEAN,
           recoveryEnabled' = recoveryEnabled
    PROVE  TypeOK' /\ StateInv'
<1> USE ConfigAssumption, CapAssumption
<1>1. /\ state = "RECOVERING" /\ attached = FALSE /\ recoveryEnabled = TRUE
      /\ attempts \in 1..MaxReinitAttempts /\ reinits = attempts
  BY DEF StepRecovering, StateInv, DetachedWhileRecovering, AttemptsAreCounted, TypeOK
<1>2. CASE Recovered
  BY <1>2, RecoveredKeepsInv
<1>3. CASE /\ AttemptsLeft
           /\ attempts' = attempts + 1 /\ reinits' = reinits + 1
           /\ since' = 0 /\ okRun' = 0
           /\ KeepRuns(checks) /\ grace' = Pass(grace)
           /\ UNCHANGED <<state, attached, clearRun, speedLimited>>
  <2>1. attempts' \in 1..MaxReinitAttempts /\ reinits' = attempts'
    BY <1>1, <1>3 DEF AttemptsLeft
  <2>2. TypeOK'
    BY <1>3, <2>1, CounterTypes, PassType DEF TypeOK, Outcomes
  <2> QED
    BY <1>1, <1>3, <2>1, <2>2 DEF StateInv, DetachedWhileRecovering, AttemptsAreCounted,
       SpeedLimitFollowsState
<1>4. CASE /\ ~AttemptsLeft
           /\ state' = "DEGRADED" /\ since' = 0 /\ okRun' = NextOk(checks)
           /\ KeepRuns(checks) /\ ApplyDegraded(TRUE) /\ grace' = Pass(grace)
           /\ UNCHANGED <<attached, clearRun, attempts, reinits>>
  <2>1. reinits = MaxReinitAttempts
    BY <1>1, <1>4 DEF AttemptsLeft
  <2>2. okRun' \in 0..Cap
    BY <1>4, NextOkType
  <2>4. run' \in [RunChecks -> 0..Cap] /\ jumpSeen' \in BOOLEAN /\ grace' \in Nat
    BY <1>4, CounterTypes, PassType DEF TypeOK
  <2>5. speedLimited' \in BOOLEAN
    BY <1>4, LimitType
  <2>3. TypeOK'
    BY <1>4, <2>2, <2>4, <2>5 DEF TypeOK, States, Outcomes
  <2> QED
    BY <1>1, <1>4, <2>1, <2>3 DEF StateInv, DetachedWhileRecovering, AttemptsAreCounted,
       SpeedLimitFollowsState, ApplyDegraded
<1>5. CASE /\ since' = Inc(since) /\ okRun' = NextOk(checks)
           /\ KeepRuns(checks) /\ NoAction
           /\ UNCHANGED <<state, attached, clearRun, attempts>>
  <2>1. okRun' \in 0..Cap /\ since' \in 0..Cap
    BY <1>5, NextOkType, IncType DEF TypeOK
  <2>2. TypeOK'
    BY <1>5, <2>1, CounterTypes, PassType DEF TypeOK, NoAction, Outcomes
  <2> QED
    BY <1>1, <1>5, <2>2 DEF StateInv, DetachedWhileRecovering, AttemptsAreCounted,
       SpeedLimitFollowsState, NoAction
<1> QED
  BY <1>2, <1>3, <1>4, <1>5 DEF StepRecovering

\* The DEGRADED branch.
LEMMA DegradedKeepsInv ==
    ASSUME TypeOK, StateInv, NEW checks, StepDegraded(checks), last' \in Outcomes,
           even' \in BOOLEAN,
           recoveryEnabled' = recoveryEnabled
    PROVE  TypeOK' /\ StateInv'
<1> USE ConfigAssumption, CapAssumption
<1>1. /\ state = "DEGRADED" /\ attached' = attached /\ attached \in BOOLEAN
      /\ attached = ~recoveryEnabled
  BY DEF StepDegraded, StateInv, DetachedWhileRecovering, TypeOK
<1>2. CASE /\ ~recoveryEnabled
           /\ state' = "NORMAL" /\ ResetCounters /\ ApplyDegraded(FALSE)
           /\ grace' = Pass(GraceAfterRecovery)
           /\ UNCHANGED <<since, attempts, reinits>>
  <2>1. Recovered
    BY <1>1, <1>2 DEF Recovered
  <2> QED
    BY <2>1, RecoveredKeepsInv
<1>3. CASE ~recoveryEnabled /\ CountClear(checks) /\ NoAction /\ UNCHANGED <<since, attempts>>
  <2>1. UNCHANGED <<state, okRun, speedLimited, reinits>>
    BY <1>3 DEF CountClear, NoAction
  <2>2. grace' \in Nat
    BY <1>3, PassType DEF NoAction, TypeOK
  <2>3. TypeOK'
    BY <1>1, <1>3, <2>1, <2>2, CounterTypes DEF TypeOK, Outcomes
  <2> QED
    BY <1>1, <1>3, <2>1, <2>3 DEF StateInv, DetachedWhileRecovering, AttemptsAreCounted,
       SpeedLimitFollowsState
<1>4. CASE /\ recoveryEnabled /\ KeepRuns(checks)
           /\ StartRecovery /\ reinits' = 1
           /\ UNCHANGED <<clearRun, speedLimited>>
  <2>1. state' = "RECOVERING" /\ since' = 0 /\ attempts' = 1 /\ okRun' = 0 /\ grace' \in Nat
    BY <1>4, PassType DEF StartRecovery, TypeOK
  <2>2. run' \in [RunChecks -> 0..Cap] /\ jumpSeen' \in BOOLEAN
    BY <1>4, CounterTypes
  <2>3. TypeOK'
    BY <1>1, <1>4, <2>1, <2>2 DEF TypeOK, States, Outcomes
  <2> QED
    BY <1>1, <1>4, <2>1, <2>3 DEF StateInv, DetachedWhileRecovering, AttemptsAreCounted,
       SpeedLimitFollowsState
<1>5. CASE /\ recoveryEnabled /\ KeepRuns(checks) /\ since' = Inc(since) /\ NoAction
           /\ UNCHANGED <<state, clearRun, okRun, attempts>>
  <2>1. since' \in 0..Cap /\ grace' \in Nat /\ UNCHANGED <<speedLimited, reinits>>
    BY <1>5, IncType, PassType DEF NoAction, TypeOK
  <2>2. run' \in [RunChecks -> 0..Cap] /\ jumpSeen' \in BOOLEAN
    BY <1>5, CounterTypes
  <2>3. TypeOK'
    BY <1>1, <1>5, <2>1, <2>2 DEF TypeOK, Outcomes
  <2> QED
    BY <1>1, <1>5, <2>1, <2>3 DEF StateInv, DetachedWhileRecovering, AttemptsAreCounted,
       SpeedLimitFollowsState
<1> QED
  BY <1>2, <1>3, <1>4, <1>5 DEF StepDegraded

\* One timer period, whatever the checks say, keeps the invariant.
LEMMA PeriodKeepsInv == TypeOK /\ StateInv /\ [Next]_vars => TypeOK' /\ StateInv'
<1> SUFFICES ASSUME TypeOK, StateInv, [Next]_vars PROVE TypeOK' /\ StateInv'
  OBVIOUS
<1>1. ASSUME NEW checks, OnTimer(checks) PROVE TypeOK' /\ StateInv'
  <2> DEFINE used == IF grace > 0 THEN Unavailable ELSE checks
  <2>1. Step(used) /\ last' \in Outcomes /\ even' \in BOOLEAN /\ recoveryEnabled' = recoveryEnabled
    BY <1>1 DEF OnTimer, Outcome, Outcomes
  <2> HIDE DEF used
  <2> QED
    BY <2>1, NormalKeepsInv, SuspectKeepsInv, IsolatedKeepsInv, RecoveringKeepsInv,
       DegradedKeepsInv DEF Step
<1>2. CASE UNCHANGED vars
  BY <1>2 DEF vars, machineVars, TypeOK, StateInv, DetachedWhileRecovering,
     AttemptsAreCounted, SpeedLimitFollowsState
<1> QED
  BY <1>1, <1>2 DEF Next

\* The machine as it is constructed.
LEMMA InitInv == Init => TypeOK /\ StateInv
<1> USE ConfigAssumption, CapAssumption
<1> SUFFICES ASSUME Init PROVE TypeOK /\ StateInv
  OBVIOUS
<1>1. attached = TRUE /\ speedLimited = FALSE /\ state = "NORMAL"
  BY DEF Init
<1>2. 0 \in 0..Cap /\ 0 \in 0..MaxReinitAttempts
  OBVIOUS
<1>3. run \in [RunChecks -> 0..Cap]
  BY <1>2 DEF Init, NoRun
<1>4. TypeOK
  BY <1>1, <1>2, <1>3 DEF Init, TypeOK, States
<1>5. StateInv
  BY <1>1 DEF StateInv, DetachedWhileRecovering, AttemptsAreCounted, SpeedLimitFollowsState
<1> QED
  BY <1>4, <1>5

\* The invariant holds in every state the timer can reach.
THEOREM InductiveInvariant == Spec => [](TypeOK /\ StateInv)
BY InitInv, PeriodKeepsInv, PTL DEF Spec

\* Type correctness of the state machine, the bounds of its counters included.
THEOREM TypeCorrect == Spec => []TypeOK
BY InductiveInvariant, PTL

\* AMCL is cut off exactly in the states of a recovery, for every sequence of
\* checks (SupervisorMachine.step).
THEOREM CutOffOnlyForRecovery == Spec => []DetachedWhileRecovering
<1>1. StateInv => DetachedWhileRecovering
  BY DEF StateInv
<1> QED
  BY <1>1, InductiveInvariant, PTL

\* DEGRADED comes after all the attempts, after a retry as well.
THEOREM AllAttemptsAreMade == Spec => []GivesUpAfterAllAttempts
<1>1. TypeOK /\ StateInv => GivesUpAfterAllAttempts
  BY DEF StateInv, AttemptsAreCounted, GivesUpAfterAllAttempts
<1> QED
  BY <1>1, InductiveInvariant, PTL

\* The speed limit is in force in DEGRADED and never outlives the recovery.
THEOREM LimitIsLifted == Spec => []SpeedLimitFollowsState
<1>1. StateInv => SpeedLimitFollowsState
  BY DEF StateInv
<1> QED
  BY <1>1, InductiveInvariant, PTL

-----------------------------------------------------------------------------
\* Confirmations that re-attach AMCL are younger than the re-initialisation
\* they confirm, for every timing of retries and give-ups (_ok_run, _reinit_at).
THEOREM OnlyFreshConfirmations == Spec => []ConfirmationsAreFresh
<1>1. Init => ConfirmationsAreFresh
  BY DEF Init, ConfirmationsAreFresh
<1>2. TypeOK /\ ConfirmationsAreFresh /\ [Next]_vars => ConfirmationsAreFresh'
  <2> SUFFICES ASSUME TypeOK, ConfirmationsAreFresh, [Next]_vars
               PROVE  ConfirmationsAreFresh'
    OBVIOUS
  <2>1. ASSUME NEW checks, Step(checks) PROVE ConfirmationsAreFresh'
    <3>1. CASE StepNormal(checks) \/ StepSuspect(checks)
      <4>1. state' # "RECOVERING"
        BY <3>1 DEF StepNormal, StepSuspect, CountClear
      <4> QED
        BY <4>1 DEF ConfirmationsAreFresh
    <3>2. CASE StepIsolated(checks) \/ StepDegraded(checks)
      <4>1. StartRecovery \/ state' # "RECOVERING"
        BY <3>2 DEF StepIsolated, StepDegraded, CountClear
      <4>2. StartRecovery => okRun' = 0 /\ since' = 0
        BY DEF StartRecovery
      <4> QED
        BY <4>1, <4>2 DEF ConfirmationsAreFresh
    <3>3. CASE StepRecovering(checks)
      <4>1. \/ state' # "RECOVERING"
            \/ okRun' = 0 /\ since' = 0
            \/ okRun' = NextOk(checks) /\ since' = Inc(since)
        BY <3>3 DEF StepRecovering, Recovered
      <4>2. NextOk(checks) \in 0..Cap /\ NextOk(checks) <= Inc(okRun)
        BY NextOkType
      <4>3. okRun \in 0..Cap /\ since \in 0..Cap /\ okRun <= since
        BY <3>3 DEF TypeOK, ConfirmationsAreFresh, StepRecovering
      <4>4. Inc(okRun) <= Inc(since) /\ Inc(okRun) \in 0..Cap /\ Inc(since) \in 0..Cap
        BY <4>3, IncMonotonic, IncType
      <4>5. NextOk(checks) <= Inc(since)
        BY <4>2, <4>4
      <4> QED
        BY <4>1, <4>5 DEF ConfirmationsAreFresh
    <3> QED
      BY <2>1, <3>1, <3>2, <3>3 DEF Step
  <2>2. CASE UNCHANGED vars
    BY <2>2 DEF vars, machineVars, ConfirmationsAreFresh
  <2>3. ASSUME NEW checks, OnTimer(checks) PROVE ConfirmationsAreFresh'
    <3> DEFINE used == IF grace > 0 THEN Unavailable ELSE checks
    <3>1. Step(used)
      BY <2>3 DEF OnTimer
    <3> HIDE DEF used
    <3> QED
      BY <2>1, <3>1
  <2> QED
    BY <2>2, <2>3 DEF Next
<1> QED
  BY <1>1, <1>2, TypeCorrect, PTL DEF Spec

-----------------------------------------------------------------------------
\* A run of bad checks goes up by one at most, and never below zero.
LEMMA NextRunBound ==
    ASSUME TypeOK, NEW checks, NEW c \in RunChecks
    PROVE  NextRun(checks)[c] \in Nat /\ run[c] \in Nat /\ NextRun(checks)[c] <= run[c] + 1
<1>1. run[c] \in 0..Cap
  BY DEF TypeOK
<1>2. Inc(run[c]) \in 0..Cap /\ Inc(run[c]) <= run[c] + 1
  BY <1>1, IncType
<1> QED
  BY <1>1, <1>2, CapAssumption DEF NextRun

\* No check stays bad for its threshold without a change of state, whatever
\* the earlier history of suspicions and recoveries (_reset_counters).
THEOREM NoAnomalyIsIgnored == Spec => []PersistentAnomalyIsActedOn
<1> USE ConfigAssumption, ThresholdAssumption
<1>1. Init => PersistentAnomalyIsActedOn
  BY DEF Init, NoRun, PersistentAnomalyIsActedOn
<1>2. TypeOK /\ PersistentAnomalyIsActedOn /\ [Next]_vars => PersistentAnomalyIsActedOn'
  <2> SUFFICES ASSUME TypeOK, PersistentAnomalyIsActedOn, [Next]_vars
               PROVE  PersistentAnomalyIsActedOn'
    OBVIOUS
  <2>1. ASSUME NEW checks, Step(checks) PROVE PersistentAnomalyIsActedOn'
    <3>1. CASE StepNormal(checks)
      <4>1. run' = NextRun(checks) /\ state = "NORMAL"
        BY <3>1 DEF StepNormal
      <4>2. ASSUME NEW c \in RunChecks PROVE run'[c] < IsolateTicks[c]
        <5>1. run[c] < SuspectTicks[c]
          BY <4>1 DEF PersistentAnomalyIsActedOn
        <5> QED
          BY <4>1, <5>1, NextRunBound
      <4>3. CASE Suspicious(checks)
        BY <3>1, <4>2, <4>3 DEF StepNormal, PersistentAnomalyIsActedOn
      <4>4. CASE ~Suspicious(checks)
        <5>1. \A c \in RunChecks : run'[c] < SuspectTicks[c]
          BY <4>1, <4>4, NextRunBound DEF Suspicious
        <5> QED
          BY <3>1, <4>4, <5>1 DEF StepNormal, PersistentAnomalyIsActedOn
      <4> QED
        BY <4>3, <4>4
    <3>2. CASE StepSuspect(checks)
      <4>1. \/ state' \in {"DEGRADED", "ISOLATED"}
            \/ state' = "NORMAL" /\ run' = NoRun
            \/ ~Confirmed(checks) /\ state' = "SUSPECT" /\ run' = NextRun(checks)
        BY <3>2 DEF StepSuspect, CountClear, KeepRuns, ResetCounters
      <4>2. ~Confirmed(checks) => \A c \in RunChecks : NextRun(checks)[c] < IsolateTicks[c]
        BY NextRunBound DEF Confirmed
      <4> QED
        BY <4>1, <4>2 DEF PersistentAnomalyIsActedOn, NoRun
    <3>3. CASE StepIsolated(checks) \/ StepRecovering(checks) \/ StepDegraded(checks)
      <4>1. state' \notin {"NORMAL", "SUSPECT"} \/ (state' = "NORMAL" /\ run' = NoRun)
        BY <3>3 DEF StepIsolated, StepRecovering, StepDegraded, StartRecovery, Recovered,
           CountClear, ResetCounters
      <4> QED
        BY <4>1 DEF PersistentAnomalyIsActedOn, NoRun
    <3> QED
      BY <2>1, <3>1, <3>2, <3>3 DEF Step
  <2>2. CASE UNCHANGED vars
    BY <2>2 DEF vars, machineVars, PersistentAnomalyIsActedOn
  <2>3. ASSUME NEW checks, OnTimer(checks) PROVE PersistentAnomalyIsActedOn'
    <3> DEFINE used == IF grace > 0 THEN Unavailable ELSE checks
    <3>1. Step(used)
      BY <2>3 DEF OnTimer
    <3> HIDE DEF used
    <3> QED
      BY <2>1, <3>1
  <2> QED
    BY <2>2, <2>3 DEF Next
<1> QED
  BY <1>1, <1>2, TypeCorrect, PTL DEF Spec

\* The three books of a recovery agree, for every sequence of checks.
THEOREM RecoveriesAreSound == Spec => []RecoveryIsSound
<1>1. DetachedWhileRecovering /\ GivesUpAfterAllAttempts /\ SpeedLimitFollowsState
        => RecoveryIsSound
  BY DEF RecoveryIsSound
<1> QED
  BY <1>1, CutOffOnlyForRecovery, AllAttemptsAreMade, LimitIsLifted, PTL

\* Evidence is neither ignored nor reused, for every sequence of checks.
THEOREM EvidenceIsUsedOnce == Spec => []AnomaliesAreConfirmed
<1>1. PersistentAnomalyIsActedOn /\ ConfirmationsAreFresh => AnomaliesAreConfirmed
  BY DEF AnomaliesAreConfirmed
<1> QED
  BY <1>1, NoAnomalyIsIgnored, OnlyFreshConfirmations, PTL

(***************************************************************************)
(* The serial line.                                                        *)
(***************************************************************************)
Bytes == 0..255

\* Bytes are numbers.
LEMMA BytesAreNumbers == \A x \in Bytes : x \in Int /\ 0 <= x /\ x <= 255
BY DEF Bytes

\* Sums of bytes are taken in a byte.
LEMMA SumOfBytes ==
    ASSUME NEW x \in Bytes, NEW y \in Bytes
    PROVE  (x + y) % 256 \in Bytes
BY DEF Bytes

\* The sum of the bytes up to each of them.
SumsUp(f, b) == f[0] = 0 /\ \A k \in 1..Len(b) : f[k] = (f[k - 1] + b[k]) % 256

\* The checksum is the last of the sums.
LEMMA ChecksumSums ==
    ASSUME NEW b \in Seq(Bytes)
    PROVE  \E f \in [0..Len(b) -> Bytes] : SumsUp(f, b) /\ CalcChecksum(b) = f[Len(b)]
<1> DEFINE n == Len(b)
           Rule(f) == f = [k \in 0..n |-> IF k = 0 THEN 0 ELSE (f[k - 1] + b[k]) % 256]
           sum == CHOOSE f : Rule(f)
           G == [k \in 1..n |-> [x \in Bytes |-> (x + b[k]) % 256]]
<1>1. n \in Nat /\ \A k \in 1..n : b[k] \in Bytes
  OBVIOUS
<1>2. 0 \in Bytes /\ G \in FoldStepsOn(n, Bytes)
  <2>1. \A k \in 1..n : \A x \in Bytes : (x + b[k]) % 256 \in Bytes
    BY <1>1, SumOfBytes
  <2>2. 0 \in Bytes
    BY DEF Bytes
  <2> QED
    BY <2>1, <2>2 DEF FoldStepsOn
<1> HIDE DEF n
<1>3. PICK f \in [0..n -> Bytes] : FoldsAlong(f, n, 0, G)
  BY <1>1, <1>2, FoldExists
<1>4. f[0] = 0 /\ \A k \in 1..n : f[k] = (f[k - 1] + b[k]) % 256
  <2>1. f[0] = 0 /\ \A k \in 1..n : f[k] = G[k][f[k - 1]]
    BY <1>3 DEF FoldsAlong
  <2>2. \A k \in 1..n : f[k - 1] \in Bytes
    BY <1>1, <1>3
  <2> QED
    BY <2>1, <2>2
<1>5. Rule(f)
  <2>1. \A k \in 0..n : f[k] = IF k = 0 THEN 0 ELSE (f[k - 1] + b[k]) % 256
    BY <1>1, <1>4
  <2> QED
    BY <2>1, <1>3
<1>6. Rule(sum)
  BY <1>5
<1>7. CalcChecksum(b) = sum[n]
  BY DEF CalcChecksum, n
<1>8. sum \in [0..n -> Bytes] /\ sum[0] = 0 /\ \A k \in 1..n : sum[k] = (sum[k - 1] + b[k]) % 256
  <2> HIDE DEF sum
  <2>1. /\ DOMAIN sum = 0..n
        /\ \A k \in 0..n : sum[k] = IF k = 0 THEN 0 ELSE (sum[k - 1] + b[k]) % 256
    BY <1>6
  <2>2. sum[0] = 0 /\ \A k \in 1..n : sum[k] = (sum[k - 1] + b[k]) % 256
    <3>1. 0 \in 0..n /\ \A k \in 1..n : k \in 0..n /\ k # 0
      BY <1>1
    <3> QED
      BY ONLY <2>1, <3>1
  <2> DEFINE S == {k \in 0..n : sum[k] \in Bytes}
  <2>3. 0 \in S
    BY <2>2, <1>1 DEF Bytes
  <2>4. ASSUME NEW m \in 0..(n - 1), m \in S PROVE m + 1 \in S
    <3>1. m + 1 \in 1..n /\ (m + 1) - 1 = m /\ m + 1 \in 0..n
      BY <1>1
    <3>2. sum[m + 1] = (sum[m] + b[m + 1]) % 256
      BY <2>2, <3>1
    <3>3. sum[m] \in Bytes /\ b[m + 1] \in Bytes
      BY <2>4, <3>1, <1>1
    <3>4. (sum[m] + b[m + 1]) % 256 \in Bytes
      BY <3>3, SumOfBytes
    <3> QED
      BY <3>1, <3>2, <3>4
  <2>5. \A m \in 0..n : m \in S
    <3> HIDE DEF S
    <3> QED
      BY <1>1, <2>3, <2>4, InductionUpTo
  <2>6. sum = [k \in 0..n |-> sum[k]]
    BY <1>6, <2>1
  <2> QED
    BY <2>2, <2>5, <2>6
<1>9. SumsUp(sum, b)
  BY <1>8 DEF SumsUp, n
<1> QED
  BY <1>7, <1>8, <1>9 DEF n

\* A byte one higher than it was makes the checksum one higher.
LEMMA ChecksumSeesAFlip ==
    ASSUME NEW b \in Seq(Bytes), NEW c \in Seq(Bytes), Len(c) = Len(b), NEW at \in 1..Len(b),
           c[at] = (b[at] + 1) % 256, \A i \in 1..Len(b) : i # at => c[i] = b[i]
    PROVE  CalcChecksum(c) = (CalcChecksum(b) + 1) % 256
<1> DEFINE n == Len(b)
<1>1. PICK f \in [0..n -> Bytes] : SumsUp(f, b) /\ CalcChecksum(b) = f[n]
  BY ChecksumSums
<1>2. PICK g \in [0..n -> Bytes] : SumsUp(g, c) /\ CalcChecksum(c) = g[n]
  <2>1. \E g \in [0..Len(c) -> Bytes] : SumsUp(g, c) /\ CalcChecksum(c) = g[Len(c)]
    BY ChecksumSums
  <2> QED
    BY <2>1
<1>3. n \in Nat /\ \A i \in 1..n : b[i] \in Bytes
  OBVIOUS
<1>4. /\ f[0] = 0 /\ \A k \in 1..n : f[k] = (f[k - 1] + b[k]) % 256
      /\ g[0] = 0 /\ \A k \in 1..n : g[k] = (g[k - 1] + c[k]) % 256
  BY <1>1, <1>2 DEF SumsUp
<1> DEFINE S == {k \in 0..n : g[k] = IF k < at THEN f[k] ELSE (f[k] + 1) % 256}
<1>5. 0 \in S
  BY <1>3, <1>4
<1> HIDE DEF n
<1>6. ASSUME NEW m \in 0..(n - 1), m \in S PROVE m + 1 \in S
  <2>1. /\ m + 1 \in 1..n /\ (m + 1) - 1 = m /\ m + 1 \in 0..n /\ m \in 0..n
    BY <1>3
  <2>2. f[m + 1] = (f[m] + b[m + 1]) % 256 /\ g[m + 1] = (g[m] + c[m + 1]) % 256
    BY <1>4, <2>1
  <2>3. f[m] \in Bytes /\ b[m + 1] \in Bytes
    BY <1>1, <1>3, <2>1
  <2>4. g[m] = IF m < at THEN f[m] ELSE (f[m] + 1) % 256
    BY <1>6
  <2>5. c[m + 1] = IF m + 1 = at THEN (b[m + 1] + 1) % 256 ELSE b[m + 1]
    BY <2>1 DEF n
  <2>6. at \in Nat /\ m \in Nat
    BY <1>3 DEF n
  <2> DEFINE u == f[m]  v == b[m + 1]
  <2>7. u \in Bytes /\ v \in Bytes
    BY <2>3
  <2>8. g[m + 1] = IF m + 1 < at THEN f[m + 1] ELSE (f[m + 1] + 1) % 256
    <3>1. CASE m + 1 < at
      BY <3>1, <2>2, <2>4, <2>5, <2>6
    <3>2. CASE m + 1 = at
      <4>1. g[m + 1] = (u + ((v + 1) % 256)) % 256 /\ f[m + 1] = (u + v) % 256
        BY <3>2, <2>2, <2>4, <2>5, <2>6
      <4> HIDE DEF u, v
      <4>2. (u + ((v + 1) % 256)) % 256 = (((u + v) % 256) + 1) % 256
        BY <2>7 DEF Bytes
      <4> QED
        BY <4>1, <4>2, <3>2, <2>6
    <3>3. CASE m + 1 > at
      <4>1. g[m + 1] = (((u + 1) % 256) + v) % 256 /\ f[m + 1] = (u + v) % 256
        BY <3>3, <2>2, <2>4, <2>5, <2>6
      <4> HIDE DEF u, v
      <4>2. (((u + 1) % 256) + v) % 256 = (((u + v) % 256) + 1) % 256
        BY <2>7 DEF Bytes
      <4> QED
        BY <4>1, <4>2, <3>3, <2>6
    <3> QED
      BY <3>1, <3>2, <3>3, <2>6
  <2> QED
    BY <2>1, <2>8
<1>7. \A m \in 0..n : m \in S
  <2> HIDE DEF S
  <2> QED
    BY <1>3, <1>5, <1>6, InductionUpTo
<1>8. n \in S
  BY <1>3, <1>7
<1>9. g[n] = (f[n] + 1) % 256
  <2>1. g[n] = IF n < at THEN f[n] ELSE (f[n] + 1) % 256
    BY <1>8
  <2>2. ~(n < at)
    BY <1>3 DEF n
  <2> QED
    BY <2>1, <2>2
<1> QED
  BY <1>1, <1>2, <1>9

\* The value after each byte of a signed number.
LEMMA DecodesSigned ==
    ASSUME NEW b \in Seq(Bytes), Len(b) # 0
    PROVE  \E f \in [1..Len(b) -> Int] :
             /\ f[1] = IF b[1] >= 128 THEN b[1] - 256 ELSE b[1]
             /\ \A k \in 2..Len(b) : f[k] = f[k - 1] * 256 + b[k]
             /\ DecodeSigned(b) = f[Len(b)]
<1> DEFINE n == Len(b)
           top == IF b[1] >= 128 THEN b[1] - 256 ELSE b[1]
           Rule(f) == f = [k \in 1..n |-> IF k = 1 THEN (IF b[1] >= 128 THEN b[1] - 256 ELSE b[1])
                                          ELSE f[k - 1] * 256 + b[k]]
           value == CHOOSE f : Rule(f)
           G == [k \in 1..n |-> [x \in Int |-> IF k = 1 THEN top ELSE x * 256 + b[k]]]
<1>1. n \in Nat /\ n # 0 /\ \A k \in 1..n : b[k] \in Bytes /\ b[k] \in Int
  BY BytesAreNumbers
<1> HIDE DEF n
<1>2. top \in Int
  BY <1>1
<1> HIDE DEF top
<1>3. G \in FoldStepsOn(n, Int)
  <2>1. \A k \in 1..n : \A x \in Int : (IF k = 1 THEN top ELSE x * 256 + b[k]) \in Int
    BY <1>1, <1>2
  <2> QED
    BY <2>1 DEF FoldStepsOn
<1>4. PICK h \in [0..n -> Int] : FoldsAlong(h, n, 0, G)
  <2>1. 0 \in Int
    OBVIOUS
  <2> HIDE DEF G
  <2> QED
    BY ONLY <2>1, <1>1, <1>3, FoldExists
<1>5. \A k \in 1..n : h[k] = IF k = 1 THEN top ELSE h[k - 1] * 256 + b[k]
  <2>1. \A k \in 1..n : h[k] = G[k][h[k - 1]]
    BY <1>4 DEF FoldsAlong
  <2>2. \A k \in 1..n : h[k - 1] \in Int
    BY <1>1, <1>4
  <2> QED
    BY <2>1, <2>2
<1> DEFINE f == [k \in 1..n |-> h[k]]
<1>6. /\ f \in [1..n -> Int]
      /\ \A k \in 1..n : f[k] = IF k = 1 THEN top ELSE f[k - 1] * 256 + b[k]
  <2>1. \A k \in 1..n : k \in 0..n /\ (k # 1 => k - 1 \in 1..n)
    BY <1>1
  <2> QED
    BY <2>1, <1>4, <1>5
<1>7. Rule(f)
  <2>1. f = [k \in 1..n |-> f[k]]
    OBVIOUS
  <2> HIDE DEF f
  <2> QED
    BY <2>1, <1>6 DEF top
<1>8. Rule(value)
  BY <1>7
<1>9. DecodeSigned(b) = value[n]
  BY DEF DecodeSigned, n
<1> HIDE DEF value
<1>10. /\ DOMAIN value = 1..n
       /\ \A k \in 1..n : value[k] = IF k = 1 THEN top ELSE value[k - 1] * 256 + b[k]
  BY <1>8 DEF top
<1> DEFINE S == {k \in 0..n : k # 0 => value[k] \in Int}
<1>11. \A k \in 0..n : k \in S
  <2>1. 0 \in S
    BY <1>1
  <2>2. ASSUME NEW m \in 0..(n - 1), m \in S PROVE m + 1 \in S
    <3>1. m + 1 \in 1..n /\ (m + 1) - 1 = m /\ m + 1 \in 0..n /\ m \in Nat
      BY <1>1
    <3>2. value[m + 1] = IF m + 1 = 1 THEN top ELSE value[m] * 256 + b[m + 1]
      BY <1>10, <3>1
    <3>3. value[m + 1] \in Int
      <4>1. CASE m = 0
        BY <4>1, <3>2, <1>2
      <4>2. CASE m # 0
        <5>1. value[m] \in Int /\ b[m + 1] \in Int
          BY <2>2, <4>2, <3>1, <1>1
        <5> QED
          BY <5>1, <3>2, <4>2, <3>1
      <4> QED
        BY <4>1, <4>2
    <3> QED
      BY <3>1, <3>3
  <2> HIDE DEF S
  <2> QED
    BY <1>1, <2>1, <2>2, InductionUpTo
<1>12. value \in [1..n -> Int]
  <2>1. value = [k \in 1..n |-> value[k]]
    BY <1>8, <1>10
  <2>2. \A k \in 1..n : value[k] \in Int
    BY <1>11, <1>1
  <2> QED
    BY <2>1, <2>2
<1>13. value[1] = top /\ \A k \in 2..n : value[k] = value[k - 1] * 256 + b[k]
  BY <1>10, <1>1
<1> QED
  BY <1>9, <1>12, <1>13 DEF n, top

\* What two and four bytes stand for.
LEMMA SignedTwo ==
    ASSUME NEW b \in Seq(Bytes), Len(b) = 2
    PROVE  DecodeSigned(b) = (IF b[1] >= 128 THEN b[1] - 256 ELSE b[1]) * 256 + b[2]
<1>1. PICK f \in [1..Len(b) -> Int] :
             /\ f[1] = IF b[1] >= 128 THEN b[1] - 256 ELSE b[1]
             /\ \A k \in 2..Len(b) : f[k] = f[k - 1] * 256 + b[k]
             /\ DecodeSigned(b) = f[Len(b)]
  <2>1. Len(b) # 0
    OBVIOUS
  <2> QED
    BY ONLY b \in Seq(Bytes), <2>1, DecodesSigned
<1>2. f[2] = f[2 - 1] * 256 + b[2]
  BY <1>1
<1> QED
  BY <1>1, <1>2

\* See SignedTwo.
LEMMA SignedFour ==
    ASSUME NEW b \in Seq(Bytes), Len(b) = 4
    PROVE  DecodeSigned(b)
             = (((IF b[1] >= 128 THEN b[1] - 256 ELSE b[1]) * 256 + b[2]) * 256 + b[3]) * 256 + b[4]
<1>1. PICK f \in [1..Len(b) -> Int] :
             /\ f[1] = IF b[1] >= 128 THEN b[1] - 256 ELSE b[1]
             /\ \A k \in 2..Len(b) : f[k] = f[k - 1] * 256 + b[k]
             /\ DecodeSigned(b) = f[Len(b)]
  <2>1. Len(b) # 0
    OBVIOUS
  <2> QED
    BY ONLY b \in Seq(Bytes), <2>1, DecodesSigned
<1>2. f[2] = f[1] * 256 + b[2] /\ f[3] = f[2] * 256 + b[3] /\ f[4] = f[3] * 256 + b[4]
  <2>1. f[2] = f[2 - 1] * 256 + b[2] /\ f[3] = f[3 - 1] * 256 + b[3] /\ f[4] = f[4 - 1] * 256 + b[4]
    BY <1>1
  <2>2. 2 - 1 = 1 /\ 3 - 1 = 2 /\ 4 - 1 = 3
    OBVIOUS
  <2> QED
    BY <2>1, <2>2
<1> QED
  BY ONLY <1>1, <1>2, Len(b) = 4

\* A number of two bytes without sign.
LEMMA UnsignedTwo ==
    ASSUME NEW b \in Seq(Bytes), Len(b) = 2
    PROVE  DecodeInt(b) = b[1] * 256 + b[2]
<1> DEFINE Rule(f) == f = [k \in 0..Len(b) |-> IF k = 0 THEN 0 ELSE f[k - 1] * 256 + b[k]]
           value == CHOOSE f : Rule(f)
           f0 == [k \in 0..2 |-> IF k = 0 THEN 0 ELSE IF k = 1 THEN b[1] ELSE b[1] * 256 + b[2]]
<1>1. b[1] \in Int /\ b[2] \in Int
  BY BytesAreNumbers
<1>2. Rule(f0)
  <2>1. \A k \in 0..2 : f0[k] = IF k = 0 THEN 0 ELSE f0[k - 1] * 256 + b[k]
    <3>1. f0[0] = 0 /\ f0[1] = b[1] /\ f0[2] = b[1] * 256 + b[2]
      OBVIOUS
    <3>2. \A k \in 0..2 : k = 0 \/ (k = 1 /\ k - 1 = 0) \/ (k = 2 /\ k - 1 = 1)
      OBVIOUS
    <3> HIDE DEF f0
    <3> QED
      BY <3>1, <3>2, <1>1
  <2> QED
    BY <2>1
<1>3. Rule(value)
  <2> HIDE DEF f0
  <2> QED
    BY <1>2
<1>4. DecodeInt(b) = value[2]
  BY DEF DecodeInt
<1> HIDE DEF value
<1>5. value[0] = 0 /\ value[1] = value[0] * 256 + b[1] /\ value[2] = value[1] * 256 + b[2]
  <2>1. \A k \in 0..2 : value[k] = IF k = 0 THEN 0 ELSE value[k - 1] * 256 + b[k]
    BY <1>3
  <2>2. 1 - 1 = 0 /\ 2 - 1 = 1
    OBVIOUS
  <2> QED
    BY <2>1, <2>2
<1> QED
  BY <1>1, <1>4, <1>5

\* A number is its upper bytes and its last byte.
LEMMA UpperBytes ==
    ASSUME NEW v \in Int
    PROVE  v \div 256 \in Int
BY SMT

\* See UpperBytes.
LEMMA LowByte ==
    ASSUME NEW v \in Int
    PROVE  v % 256 \in Bytes
BY SMT DEF Bytes

\* See UpperBytes.
LEMMA LastByte ==
    ASSUME NEW v \in Int
    PROVE  v = (v \div 256) * 256 + (v % 256)
BY SMT

\* Eight bits, and eight bits more.
LEMMA ShiftsAdd ==
    ASSUME NEW v \in Int
    PROVE  v \div 65536 = (v \div 256) \div 256
BY SMT

\* See ShiftsAdd.
LEMMA MoreShiftsAdd ==
    ASSUME NEW v \in Int
    PROVE  v \div 16777216 = (v \div 65536) \div 256
BY SMT

\* The last byte is what is left without a shift.
LEMMA NoShift ==
    ASSUME NEW v \in Int
    PROVE  v \div 1 = v
BY SMT

\* Two or four bytes are a list of bytes.
LEMMA TwoLong ==
    ASSUME NEW S, NEW e, e = [i \in 1..2 |-> e[i]], e[1] \in S, e[2] \in S
    PROVE  e \in Seq(S) /\ Len(e) = 2
<1>1. \A i \in 1..2 : e[i] \in S
  <2>1. \A i \in 1..2 : i = 1 \/ i = 2
    OBVIOUS
  <2> QED
    BY <2>1
<1>2. DOMAIN e = 1..2
  OBVIOUS
<1>3. e \in Seq(S)
  BY <1>1, <1>2
<1> QED
  BY <1>3, <1>2

\* See TwoLong.
LEMMA FourLong ==
    ASSUME NEW S, NEW e, e = [i \in 1..4 |-> e[i]], e[1] \in S, e[2] \in S, e[3] \in S, e[4] \in S
    PROVE  e \in Seq(S) /\ Len(e) = 4
<1>1. \A i \in 1..4 : e[i] \in S
  <2>1. \A i \in 1..4 : i = 1 \/ i = 2 \/ i = 3 \/ i = 4
    OBVIOUS
  <2> QED
    BY <2>1
<1>2. DOMAIN e = 1..4
  OBVIOUS
<1>3. e \in Seq(S)
  BY <1>1, <1>2
<1> QED
  BY <1>3, <1>2

\* Frames of n bytes.
Frames(n) == {s \in Seq(Bytes) : Len(s) = n}

\* The bytes b are those of the number v.
AreTwoOf(b, v) == b[1] = (v \div 256) % 256 /\ b[2] = v % 256
AreFourOf(b, v) ==
  /\ b[1] = (((v \div 256) \div 256) \div 256) % 256
  /\ b[2] = ((v \div 256) \div 256) % 256 /\ b[3] = (v \div 256) % 256 /\ b[4] = v % 256

\* The bytes of a number of two bytes.
LEMMA BytesOfTwo ==
    ASSUME NEW v \in Int
    PROVE  EncodeInt(v, 2) \in Frames(2) /\ AreTwoOf(EncodeInt(v, 2), v)
<1> DEFINE e == EncodeInt(v, 2)
           w == Weights
<1>1. e = [i \in 1..2 |-> (v \div w[2 - i + 1]) % 256]
  BY DEF EncodeInt
<1>2. w[1] = 1 /\ w[2] = 256
  BY SMT DEF Weights
<1> HIDE DEF e, w
<1>3. e[1] = (v \div 256) % 256 /\ e[2] = v % 256
  <2>1. 2 - 1 + 1 = 2 /\ 2 - 2 + 1 = 1 /\ 1 \in 1..2 /\ 2 \in 1..2
    OBVIOUS
  <2>2. e[1] = (v \div w[2]) % 256 /\ e[2] = (v \div w[1]) % 256
    BY ONLY <1>1, <2>1
  <2>3. v \div 1 = v
    BY NoShift
  <2> QED
    BY ONLY <2>2, <2>3, <1>2
<1>4. (v \div 256) % 256 \in Bytes /\ v % 256 \in Bytes
  BY LowByte, UpperBytes
<1>5. e = [i \in 1..2 |-> e[i]]
  BY ONLY <1>1
<1>6. e[1] \in Bytes /\ e[2] \in Bytes
  BY ONLY <1>3, <1>4
<1>7. e \in Seq(Bytes) /\ Len(e) = 2
  BY ONLY <1>5, <1>6, TwoLong
<1>8. e \in Frames(2) /\ AreTwoOf(e, v)
  BY ONLY <1>3, <1>7 DEF Frames, AreTwoOf
<1> QED
  BY ONLY <1>8, Zenon DEF e

\* The bytes of a number of four bytes.
LEMMA BytesOfFour ==
    ASSUME NEW v \in Int
    PROVE  EncodeInt(v, 4) \in Frames(4) /\ AreFourOf(EncodeInt(v, 4), v)
<1> DEFINE e == EncodeInt(v, 4)
           w == Weights
<1>1. e = [i \in 1..4 |-> (v \div w[4 - i + 1]) % 256]
  BY DEF EncodeInt
<1>2. /\ v \div w[1] = v /\ v \div w[2] = v \div 256
      /\ v \div w[3] = (v \div 256) \div 256 /\ v \div w[4] = ((v \div 256) \div 256) \div 256
  <2>1. w[1] = 1 /\ w[2] = 256 /\ w[3] = 65536 /\ w[4] = 16777216
    BY SMT DEF Weights
  <2>2. /\ v \div 1 = v /\ v \div 65536 = (v \div 256) \div 256
        /\ v \div 16777216 = (v \div 65536) \div 256
    BY NoShift, ShiftsAdd, MoreShiftsAdd, SMT
  <2> HIDE DEF w
  <2> QED
    BY ONLY <2>1, <2>2, SMT
<1> HIDE DEF e, w
<1>3. /\ e[1] = (((v \div 256) \div 256) \div 256) % 256 /\ e[2] = ((v \div 256) \div 256) % 256
      /\ e[3] = (v \div 256) % 256 /\ e[4] = v % 256
  <2>1. /\ 4 - 1 + 1 = 4 /\ 4 - 2 + 1 = 3 /\ 4 - 3 + 1 = 2 /\ 4 - 4 + 1 = 1
        /\ 1 \in 1..4 /\ 2 \in 1..4 /\ 3 \in 1..4 /\ 4 \in 1..4
    OBVIOUS
  <2>2. /\ e[1] = (v \div w[4]) % 256 /\ e[2] = (v \div w[3]) % 256
        /\ e[3] = (v \div w[2]) % 256 /\ e[4] = (v \div w[1]) % 256
    BY ONLY <1>1, <2>1
  <2> QED
    BY ONLY <2>2, <1>2
<1>4. /\ (((v \div 256) \div 256) \div 256) % 256 \in Bytes /\ ((v \div 256) \div 256) % 256 \in Bytes
      /\ (v \div 256) % 256 \in Bytes /\ v % 256 \in Bytes
  BY LowByte, UpperBytes
<1>5. e = [i \in 1..4 |-> e[i]]
  BY ONLY <1>1
<1>6. e[1] \in Bytes /\ e[2] \in Bytes /\ e[3] \in Bytes /\ e[4] \in Bytes
  BY ONLY <1>3, <1>4
<1>7. e \in Seq(Bytes) /\ Len(e) = 4
  BY ONLY <1>5, <1>6, FourLong
<1>8. e \in Frames(4) /\ AreFourOf(e, v)
  BY ONLY <1>3, <1>7 DEF Frames, AreFourOf
<1> QED
  BY ONLY <1>8, Zenon DEF e

\* Numbers of two bytes.
Int16 == {n \in Int : -32768 <= n /\ n <= 32767}

\* The first byte of a signed number.
LEMMA FirstByte ==
    ASSUME NEW h \in Int, -128 <= h, h <= 127
    PROVE  (IF h % 256 >= 128 THEN (h % 256) - 256 ELSE h % 256) = h
BY SMT

\* The upper half of a number of 16 bits has 8.
LEMMA UpperHalf ==
    ASSUME NEW h \in Int, NEW m \in Int, -32768 <= m, m <= 32767,
           NEW x \in Int, 0 <= x, x <= 255, m = h * 256 + x
    PROVE  -128 <= h /\ h <= 127
BY SMT

\* The first byte of a number of 16 bits is read with its sign.
LEMMA FirstOfTwo ==
    ASSUME NEW m \in Int16
    PROVE  (IF (m \div 256) % 256 >= 128 THEN ((m \div 256) % 256) - 256 ELSE (m \div 256) % 256)
             = m \div 256
<1> DEFINE h == m \div 256  x == m % 256
<1>1. m \in Int /\ -32768 <= m /\ m <= 32767
  BY SMT DEF Int16
<1>2. h \in Int /\ x \in Bytes /\ m = h * 256 + x
  BY <1>1, LastByte, UpperBytes, LowByte
<1> HIDE DEF h, x
<1>3. x \in Int /\ 0 <= x /\ x <= 255
  BY <1>2, BytesAreNumbers
<1>4. -128 <= h /\ h <= 127
  BY <1>1, <1>2, <1>3, UpperHalf
<1>5. (IF h % 256 >= 128 THEN (h % 256) - 256 ELSE h % 256) = h
  BY <1>2, <1>4, FirstByte
<1> QED
  BY ONLY <1>5 DEF h

\* A number that is sent in two or four bytes is the number that is read.
LEMMA TwoComeBack ==
    ASSUME NEW v \in Int16, NEW b \in Frames(2), AreTwoOf(b, v)
    PROVE  DecodeSigned(b) = v
<1>1. DecodeSigned(b) = (IF b[1] >= 128 THEN b[1] - 256 ELSE b[1]) * 256 + b[2]
  BY SignedTwo DEF Frames
<1>4. b[1] = (v \div 256) % 256 /\ b[2] = v % 256
  BY DEF AreTwoOf
<1>2. (IF b[1] >= 128 THEN b[1] - 256 ELSE b[1]) = v \div 256
  <2>1. (IF (v \div 256) % 256 >= 128 THEN ((v \div 256) % 256) - 256 ELSE (v \div 256) % 256)
          = v \div 256
    BY FirstOfTwo
  <2> QED
    BY ONLY <2>1, <1>4
<1>3. v = (v \div 256) * 256 + (v % 256)
  <2>1. v \in Int
    BY DEF Int16
  <2> QED
    BY <2>1, LastByte
<1> QED
  BY ONLY <1>1, <1>2, <1>3, <1>4

\* See TwoComeBack.
LEMMA FourComeBack ==
    ASSUME NEW v \in Int32, NEW b \in Frames(4), AreFourOf(b, v)
    PROVE  DecodeSigned(b) = v
<1> DEFINE l == v \div 256
           m == l \div 256
           h == m \div 256
           top == IF b[1] >= 128 THEN b[1] - 256 ELSE b[1]
<1>1. DecodeSigned(b) = ((top * 256 + b[2]) * 256 + b[3]) * 256 + b[4]
  BY SignedFour DEF Frames
<1>10. b[1] = h % 256 /\ b[2] = m % 256 /\ b[3] = l % 256 /\ b[4] = v % 256
  BY Zenon DEF AreFourOf
<1>2. v \in Int /\ -32768 <= v \div 65536 /\ v \div 65536 <= 32767
  BY SMT DEF Int32
<1>3. v \div 65536 = m
  BY <1>2, ShiftsAdd
<1>4. l \in Int /\ m \in Int
  BY <1>2, UpperBytes
<1>5. m \in Int16
  BY ONLY <1>2, <1>3, <1>4 DEF Int16
<1>6. top = h
  <2>1. (IF (m \div 256) % 256 >= 128 THEN ((m \div 256) % 256) - 256 ELSE (m \div 256) % 256)
          = m \div 256
    BY <1>5, FirstOfTwo
  <2> QED
    BY ONLY <2>1, <1>10 DEF top, h
<1>7. v = l * 256 + (v % 256)
  BY <1>2, LastByte
<1>8. l = m * 256 + (l % 256)
  BY <1>4, LastByte
<1>9. m = h * 256 + (m % 256)
  BY <1>4, LastByte
<1> HIDE DEF l, m, h, top
<1> QED
  BY ONLY <1>1, <1>6, <1>7, <1>8, <1>9, <1>10

\* The upper byte of a heading is a byte.
LEMMA UpperOfHeading ==
    ASSUME NEW v \in Int, 0 <= v, v <= 65535
    PROVE  (v \div 256) % 256 = v \div 256
<1>1. 0 <= v \div 256 /\ v \div 256 <= 255
  BY SMT
<1> DEFINE h == v \div 256
<1>2. h \in Int
  BY UpperBytes
<1> HIDE DEF h
<1>3. h % 256 = h
  <2>1. 0 <= h /\ h <= 255
    BY ONLY <1>1 DEF h
  <2> QED
    BY ONLY <1>2, <2>1, SMT
<1> QED
  BY ONLY <1>3 DEF h

\* A heading that is sent in two bytes is the heading that is read.
LEMMA HeadingComesBack ==
    ASSUME NEW v \in UInt16, NEW b \in Frames(2), AreTwoOf(b, v)
    PROVE  DecodeInt(b) = v
<1>1. DecodeInt(b) = b[1] * 256 + b[2]
  BY UnsignedTwo DEF Frames
<1>5. b[1] = (v \div 256) % 256 /\ b[2] = v % 256
  BY DEF AreTwoOf
<1>2. v \in Int /\ 0 <= v /\ v <= 65535
  BY SMT DEF UInt16
<1>3. v = (v \div 256) * 256 + (v % 256)
  BY <1>2, LastByte
<1>4. (v \div 256) % 256 = v \div 256
  BY <1>2, UpperOfHeading
<1> QED
  BY ONLY <1>1, <1>3, <1>4, <1>5

\* A reading is three numbers.
LEMMA ReadingIs ==
    ASSUME NEW r \in Readings
    PROVE  /\ r = [x |-> r.x, y |-> r.y, th |-> r.th]
           /\ r.x \in Int32 /\ r.y \in Int32 /\ r.th \in UInt16
<1>1. r \in [x : Int32, y : Int32, th : UInt16]
  BY DriverAssumption
<1> QED
  BY ONLY <1>1

\* What 32 and 16 bits hold are numbers.
LEMMA WidthsAreNumbers == (\A n \in Int32 : n \in Int) /\ (\A n \in UInt16 : n \in Int)
BY SMT DEF Int32, UInt16

\* A frame r that is s, then t; and one that is s, then the byte c.
IsJoined(r, s, t) ==
  /\ r \in Seq(Bytes) /\ Len(r) = Len(s) + Len(t)
  /\ \A i \in 1..Len(s) : r[i] = s[i]
  /\ \A i \in 1..Len(t) : r[Len(s) + i] = t[i]
IsAppended(r, s, c) ==
  /\ r \in Seq(Bytes) /\ Len(r) = Len(s) + 1
  /\ \A i \in 1..Len(s) : r[i] = s[i]
  /\ r[Len(s) + 1] = c /\ SubSeq(r, 1, Len(s)) = s

\* What the concatenation of two frames is.
LEMMA Joined ==
    ASSUME NEW s \in Seq(Bytes), NEW t \in Seq(Bytes)
    PROVE  IsJoined(s \o t, s, t)
<1> DEFINE r == s \o t
<1>1. r \in Seq(Bytes)
  BY ConcatProperties
<1>2. Len(r) = Len(s) + Len(t)
  BY ConcatProperties
<1>3. \A i \in 1..Len(s) : r[i] = s[i]
  OBVIOUS
<1>4. \A i \in 1..Len(t) : r[Len(s) + i] = t[i]
  OBVIOUS
<1> QED
  BY ONLY <1>1, <1>2, <1>3, <1>4 DEF IsJoined

\* What a frame with one more byte is.
LEMMA Appended ==
    ASSUME NEW s \in Seq(Bytes), NEW c \in Bytes
    PROVE  IsAppended(Append(s, c), s, c)
<1> DEFINE r == Append(s, c)
<1>1. r \in Seq(Bytes)
  BY AppendProperties
<1>2. Len(r) = Len(s) + 1
  OBVIOUS
<1>3. r[Len(s) + 1] = c
  OBVIOUS
<1>4. \A i \in 1..Len(s) : r[i] = s[i]
  OBVIOUS
<1>5. SubSeq(r, 1, Len(s)) = s
  OBVIOUS
<1> QED
  BY ONLY <1>1, <1>2, <1>3, <1>4, <1>5 DEF IsAppended

\* The checksum of a frame is a byte.
LEMMA ChecksumIsAByte ==
    ASSUME NEW b \in Seq(Bytes)
    PROVE  CalcChecksum(b) \in Bytes
<1>1. PICK g \in [0..Len(b) -> Bytes] : CalcChecksum(b) = g[Len(b)]
  BY ChecksumSums
<1>2. Len(b) \in 0..Len(b)
  OBVIOUS
<1> QED
  BY ONLY <1>1, <1>2

\* The frame of a reply.
IsReply(f, o, x, y, th) ==
  /\ f \in Seq(Bytes) /\ Len(f) = 19
  /\ f[1] = o[1] /\ f[2] = o[2]
  /\ f[3] = x[1] /\ f[4] = x[2] /\ f[5] = x[3] /\ f[6] = x[4]
  /\ f[7] = y[1] /\ f[8] = y[2] /\ f[9] = y[3] /\ f[10] = y[4]
  /\ f[11] = th[1] /\ f[12] = th[2]
  /\ f[19] = CalcChecksum(SubSeq(f, 1, 18))

\* The frame that is made of a header, three numbers and six zeros.
LEMMA FrameOfThree ==
    ASSUME NEW o \in Frames(2), NEW x \in Frames(4), NEW y \in Frames(4),
           NEW th \in Frames(2), NEW z \in Frames(6)
    PROVE  IsReply(WithSum((((o \o x) \o y) \o th) \o z), o, x, y, th)
<1> DEFINE b2 == o \o x
           b3 == b2 \o y
           b4 == b3 \o th
           b5 == b4 \o z
           f == WithSum(b5)
<1>1. IsJoined(b2, o, x)
  BY Joined DEF Frames
<1>22. /\ Len(o) = 2 /\ x \in Seq(Bytes) /\ Len(x) = 4 /\ y \in Seq(Bytes) /\ Len(y) = 4
      /\ th \in Seq(Bytes) /\ Len(th) = 2 /\ z \in Seq(Bytes) /\ Len(z) = 6
  BY DEF Frames
<1>23. b3 = b2 \o y /\ b4 = b3 \o th /\ b5 = b4 \o z /\ f = WithSum(b5)
  OBVIOUS
<1> HIDE DEF b2, b3, b4, b5, f
<1>2. /\ b2 \in Seq(Bytes) /\ Len(b2) = 6 /\ \A i \in 1..2 : b2[i] = o[i]
      /\ \A i \in 1..4 : b2[2 + i] = x[i]
  BY ONLY <1>1, <1>22 DEF IsJoined
<1>3. IsJoined(b3, b2, y)
  BY ONLY <1>2, <1>22, <1>23, Joined
<1>4. /\ b3 \in Seq(Bytes) /\ Len(b3) = 10 /\ \A i \in 1..6 : b3[i] = b2[i]
      /\ \A i \in 1..4 : b3[6 + i] = y[i]
  BY ONLY <1>2, <1>3, <1>22 DEF IsJoined
<1>5. IsJoined(b4, b3, th)
  BY ONLY <1>4, <1>22, <1>23, Joined
<1>6. /\ b4 \in Seq(Bytes) /\ Len(b4) = 12 /\ \A i \in 1..10 : b4[i] = b3[i]
      /\ \A i \in 1..2 : b4[10 + i] = th[i]
  BY ONLY <1>4, <1>5, <1>22 DEF IsJoined
<1>7. IsJoined(b5, b4, z)
  BY ONLY <1>6, <1>22, <1>23, Joined
<1>8. b5 \in Seq(Bytes) /\ Len(b5) = 18 /\ \A i \in 1..12 : b5[i] = b4[i]
  BY ONLY <1>6, <1>7, <1>22 DEF IsJoined
<1> DEFINE c == CalcChecksum(b5)
<1>9. c \in Bytes
  BY ONLY <1>8, ChecksumIsAByte
<1>10. f = Append(b5, c)
  BY ONLY <1>23 DEF WithSum
<1> HIDE DEF c
<1>11. IsAppended(f, b5, c)
  BY ONLY <1>8, <1>9, <1>10, Appended
<1>12. /\ f \in Seq(Bytes) /\ Len(f) = 19 /\ \A i \in 1..18 : f[i] = b5[i]
       /\ f[19] = c
  BY ONLY <1>8, <1>11 DEF IsAppended
<1>13. SubSeq(f, 1, 18) = b5
  <2>1. SubSeq(f, 1, Len(b5)) = b5
    BY ONLY <1>11 DEF IsAppended
  <2> QED
    BY ONLY <2>1, <1>8, Zenon
<1>14. \A i \in 1..12 : f[i] = b4[i]
  <2>1. \A i \in 1..12 : b5[i] = b4[i]
    BY ONLY <1>8
  <2>2. \A i \in 1..12 : f[i] = b5[i]
    <3>1. \A i \in 1..18 : f[i] = b5[i]
      BY ONLY <1>12
    <3> QED
      BY ONLY <3>1
  <2> QED
    BY ONLY <2>1, <2>2, Zenon
<1>15. \A i \in 1..10 : f[i] = b3[i]
  <2>1. \A i \in 1..10 : b4[i] = b3[i]
    BY ONLY <1>6
  <2> QED
    BY ONLY <2>1, <1>14
<1>16. \A i \in 1..6 : f[i] = b2[i]
  <2>1. \A i \in 1..6 : b3[i] = b2[i]
    BY ONLY <1>4
  <2> QED
    BY ONLY <2>1, <1>15
<1>17. /\ f[1] = o[1] /\ f[2] = o[2]
       /\ f[3] = x[1] /\ f[4] = x[2] /\ f[5] = x[3] /\ f[6] = x[4]
  <2>1. (\A i \in 1..2 : b2[i] = o[i]) /\ \A i \in 1..4 : b2[2 + i] = x[i]
    BY ONLY <1>2
  <2>2. b2[1] = o[1] /\ b2[2] = o[2] /\ b2[3] = x[1] /\ b2[4] = x[2] /\ b2[5] = x[3] /\ b2[6] = x[4]
    BY ONLY <2>1
  <2>3. /\ f[1] = b2[1] /\ f[2] = b2[2] /\ f[3] = b2[3]
        /\ f[4] = b2[4] /\ f[5] = b2[5] /\ f[6] = b2[6]
    BY ONLY <1>16
  <2> QED
    BY ONLY <2>2, <2>3
<1>19. f[7] = y[1] /\ f[8] = y[2] /\ f[9] = y[3] /\ f[10] = y[4]
  <2>1. b3[7] = y[1] /\ b3[8] = y[2] /\ b3[9] = y[3] /\ b3[10] = y[4]
    BY ONLY <1>4
  <2>2. f[7] = b3[7] /\ f[8] = b3[8] /\ f[9] = b3[9] /\ f[10] = b3[10]
    BY ONLY <1>15
  <2> QED
    BY ONLY <2>1, <2>2
<1>20. f[11] = th[1] /\ f[12] = th[2]
  <2>1. b4[11] = th[1] /\ b4[12] = th[2]
    BY ONLY <1>6
  <2>2. f[11] = b4[11] /\ f[12] = b4[12]
    BY ONLY <1>14
  <2> QED
    BY ONLY <2>1, <2>2
<1>18. f[19] = CalcChecksum(SubSeq(f, 1, 18))
  BY ONLY <1>12, <1>13, Zenon DEF c
<1>21. f \in Seq(Bytes) /\ Len(f) = 19
  BY ONLY <1>12
<1> QED
  BY ONLY <1>17, <1>18, <1>19, <1>20, <1>21, Zenon DEF IsReply, f, b5, b4, b3, b2

\* The bytes of a reply.
LEMMA ReplyBytes ==
    ASSUME NEW r \in Readings
    PROVE  IsReply(OdomReply(r), OdomHeader, EncodeInt(r.x, 4), EncodeInt(r.y, 4), EncodeInt(r.th, 2))
<1> DEFINE o == OdomHeader
           x == EncodeInt(r.x, 4)
           y == EncodeInt(r.y, 4)
           th == EncodeInt(r.th, 2)
           z == <<0, 0, 0, 0, 0, 0>>
<1>1. r.x \in Int /\ r.y \in Int /\ r.th \in Int
  BY ReadingIs, WidthsAreNumbers
<1>2. x \in Frames(4)
  BY ONLY <1>1, BytesOfFour, Zenon
<1>3. y \in Frames(4)
  BY ONLY <1>1, BytesOfFour, Zenon
<1>4. th \in Frames(2)
  BY ONLY <1>1, BytesOfTwo, Zenon
<1>5. o \in Frames(2)
  <2>1. 36 \in Bytes /\ 117 \in Bytes
    BY SMT DEF Bytes
  <2> QED
    BY <2>1 DEF OdomHeader, Frames
<1>6. z \in Frames(6)
  <2>1. 0 \in Bytes
    BY SMT DEF Bytes
  <2> QED
    BY <2>1 DEF Frames
<1>7. OdomReply(r) = WithSum((((o \o x) \o y) \o th) \o z)
  BY Zenon DEF OdomReply
<1> HIDE DEF o, x, y, th, z
<1>8. IsReply(WithSum((((o \o x) \o y) \o th) \o z), o, x, y, th)
  BY ONLY <1>2, <1>3, <1>4, <1>5, <1>6, FrameOfThree, Zenon
<1> QED
  BY ONLY <1>7, <1>8, Zenon DEF o, x, y, th

\* The bytes a number is read from, and what they are.
IsPiece(p, f, a, b) ==
  p \in Seq(Bytes) /\ Len(p) = b - a + 1 /\ \A i \in 1..b - a + 1 : p[i] = f[a + i - 1]

\* The bytes of a frame from one place to another.
LEMMA PieceOfFrame ==
    ASSUME NEW f \in Seq(Bytes), NEW a \in Int, NEW b \in Int, 1 <= a, a <= b, b <= Len(f)
    PROVE  IsPiece(SubSeq(f, a, b), f, a, b)
<1>1. \A i \in a..b : f[i] \in Bytes
  OBVIOUS
<1>2. /\ SubSeq(f, a, b) \in Seq(Bytes)
      /\ Len(SubSeq(f, a, b)) = IF a <= b THEN b - a + 1 ELSE 0
      /\ \A i \in 1..b - a + 1 : SubSeq(f, a, b)[i] = f[a + i - 1]
  BY <1>1, SubSeqProperties
<1> QED
  BY <1>2 DEF IsPiece

\* The bytes the three numbers of a reply are read from.
LEMMA PiecesOfReply ==
    ASSUME NEW f \in Seq(Bytes), Len(f) = 19
    PROVE  /\ IsPiece(SubSeq(f, 3, 6), f, 3, 6) /\ IsPiece(SubSeq(f, 7, 10), f, 7, 10)
           /\ IsPiece(SubSeq(f, 11, 12), f, 11, 12)
<1>1. 1 <= 3 /\ 3 <= 6 /\ 6 <= 19 /\ 3 \in Int /\ 6 \in Int
  OBVIOUS
<1>2. IsPiece(SubSeq(f, 3, 6), f, 3, 6)
  BY ONLY <1>1, PieceOfFrame, Len(f) = 19, f \in Seq(Bytes), Zenon
<1>3. 1 <= 7 /\ 7 <= 10 /\ 10 <= 19 /\ 7 \in Int /\ 10 \in Int
  OBVIOUS
<1>4. IsPiece(SubSeq(f, 7, 10), f, 7, 10)
  BY ONLY <1>3, PieceOfFrame, Len(f) = 19, f \in Seq(Bytes), Zenon
<1>5. 1 <= 11 /\ 11 <= 12 /\ 12 <= 19 /\ 11 \in Int /\ 12 \in Int
  OBVIOUS
<1>6. IsPiece(SubSeq(f, 11, 12), f, 11, 12)
  BY ONLY <1>5, PieceOfFrame, Len(f) = 19, f \in Seq(Bytes), Zenon
<1> QED
  BY ONLY <1>2, <1>4, <1>6, Zenon

\* Two lists of bytes that agree are the bytes of the same number.
LEMMA SameBytes ==
    ASSUME NEW v, NEW b, NEW e
    PROVE  /\ AreTwoOf(e, v) /\ b[1] = e[1] /\ b[2] = e[2] => AreTwoOf(b, v)
           /\ AreFourOf(e, v) /\ b[1] = e[1] /\ b[2] = e[2] /\ b[3] = e[3] /\ b[4] = e[4]
                => AreFourOf(b, v)
<1>1. ASSUME AreTwoOf(e, v), b[1] = e[1], b[2] = e[2] PROVE AreTwoOf(b, v)
  BY <1>1 DEF AreTwoOf
<1>2. ASSUME AreFourOf(e, v), b[1] = e[1], b[2] = e[2], b[3] = e[3], b[4] = e[4]
      PROVE  AreFourOf(b, v)
  BY <1>2 DEF AreFourOf
<1> QED
  BY <1>1, <1>2, Zenon

\* A position, a heading and the speed of a wheel are read as they were sent.
LEMMA PositionIsRead ==
    ASSUME NEW v \in Int32, NEW b \in Frames(4),
           b[1] = EncodeInt(v, 4)[1], b[2] = EncodeInt(v, 4)[2],
           b[3] = EncodeInt(v, 4)[3], b[4] = EncodeInt(v, 4)[4]
    PROVE  DecodeSigned(b) = v
<1>1. v \in Int
  BY WidthsAreNumbers
<1>2. AreFourOf(EncodeInt(v, 4), v)
  BY ONLY <1>1, BytesOfFour, Zenon
<1>3. AreFourOf(b, v)
  BY <1>2, SameBytes, Zenon
<1> QED
  BY <1>3, FourComeBack, Zenon

\* See PositionIsRead.
LEMMA HeadingIsRead ==
    ASSUME NEW v \in UInt16, NEW b \in Frames(2),
           b[1] = EncodeInt(v, 2)[1], b[2] = EncodeInt(v, 2)[2]
    PROVE  DecodeInt(b) = v
<1>1. v \in Int
  BY WidthsAreNumbers
<1>2. AreTwoOf(EncodeInt(v, 2), v)
  BY ONLY <1>1, BytesOfTwo, Zenon
<1>3. AreTwoOf(b, v)
  BY <1>2, SameBytes, Zenon
<1> QED
  BY <1>3, HeadingComesBack, Zenon

\* See PositionIsRead.
LEMMA SpeedIsRead ==
    ASSUME NEW v \in Int16, NEW b \in Frames(2),
           b[1] = EncodeInt(v, 2)[1], b[2] = EncodeInt(v, 2)[2]
    PROVE  DecodeSigned(b) = v
<1>1. v \in Int
  BY SMT DEF Int16
<1>2. AreTwoOf(EncodeInt(v, 2), v)
  BY ONLY <1>1, BytesOfTwo, Zenon
<1>3. AreTwoOf(b, v)
  BY <1>2, SameBytes, Zenon
<1> QED
  BY <1>3, TwoComeBack, Zenon

\* A reply is decoded as the reading it was made of.
LEMMA ReplyIsTheReading ==
    ASSUME NEW r \in Readings
    PROVE  DecodeOdom(OdomReply(r)) = r
<1> DEFINE f == OdomReply(r)
           x == EncodeInt(r.x, 4)
           y == EncodeInt(r.y, 4)
           th == EncodeInt(r.th, 2)
<1>1. IsReply(f, OdomHeader, x, y, th)
  BY ReplyBytes
<1> HIDE DEF f, x, y, th
<1>2. /\ f \in Seq(Bytes) /\ Len(f) = 19
      /\ f[3] = x[1] /\ f[4] = x[2] /\ f[5] = x[3] /\ f[6] = x[4]
      /\ f[7] = y[1] /\ f[8] = y[2] /\ f[9] = y[3] /\ f[10] = y[4]
      /\ f[11] = th[1] /\ f[12] = th[2]
  BY ONLY <1>1, Zenon DEF IsReply
<1> DEFINE p == SubSeq(f, 3, 6)
           q == SubSeq(f, 7, 10)
           h == SubSeq(f, 11, 12)
<1>4. IsPiece(p, f, 3, 6) /\ IsPiece(q, f, 7, 10) /\ IsPiece(h, f, 11, 12)
  BY ONLY <1>2, PiecesOfReply, Zenon
<1>10. DecodeOdom(f) = [x |-> DecodeSigned(p), y |-> DecodeSigned(q), th |-> DecodeInt(h)]
  BY ONLY Zenon DEF DecodeOdom
<1> HIDE DEF p, q, h
<1>3. /\ p \in Frames(4)
      /\ p[1] = f[3] /\ p[2] = f[4] /\ p[3] = f[5] /\ p[4] = f[6]
      /\ q \in Frames(4)
      /\ q[1] = f[7] /\ q[2] = f[8] /\ q[3] = f[9] /\ q[4] = f[10]
      /\ h \in Frames(2) /\ h[1] = f[11] /\ h[2] = f[12]
  <2>1. p \in Frames(4) /\ p[1] = f[3] /\ p[2] = f[4] /\ p[3] = f[5] /\ p[4] = f[6]
    BY ONLY <1>4 DEF IsPiece, Frames
  <2>2. q \in Frames(4) /\ q[1] = f[7] /\ q[2] = f[8] /\ q[3] = f[9] /\ q[4] = f[10]
    BY ONLY <1>4 DEF IsPiece, Frames
  <2>3. h \in Frames(2) /\ h[1] = f[11] /\ h[2] = f[12]
    BY ONLY <1>4 DEF IsPiece, Frames
  <2> QED
    BY ONLY <2>1, <2>2, <2>3, Zenon
<1>5. r = [x |-> r.x, y |-> r.y, th |-> r.th] /\ r.x \in Int32 /\ r.y \in Int32 /\ r.th \in UInt16
  BY ReadingIs
<1>6. DecodeSigned(p) = r.x
  <2>1. p[1] = x[1] /\ p[2] = x[2] /\ p[3] = x[3] /\ p[4] = x[4]
    BY ONLY <1>2, <1>3, Zenon
  <2> QED
    BY ONLY <2>1, <1>3, <1>5, PositionIsRead, Zenon DEF x
<1>7. DecodeSigned(q) = r.y
  <2>1. q[1] = y[1] /\ q[2] = y[2] /\ q[3] = y[3] /\ q[4] = y[4]
    BY ONLY <1>2, <1>3, Zenon
  <2> QED
    BY ONLY <2>1, <1>3, <1>5, PositionIsRead, Zenon DEF y
<1>8. DecodeInt(h) = r.th
  <2>1. h[1] = th[1] /\ h[2] = th[2]
    BY ONLY <1>2, <1>3, Zenon
  <2> QED
    BY ONLY <2>1, <1>3, <1>5, HeadingIsRead, Zenon DEF th
<1>9. DecodeOdom(f) = r
  BY ONLY <1>10, <1>5, <1>6, <1>7, <1>8, Zenon
<1> QED
  BY ONLY <1>9, Zenon DEF f

\* What check_error() accepts.
IsAccepted(a, h, size) ==
  /\ Len(a) = size /\ \A i \in DOMAIN h : a[i] = h[i]
  /\ CalcChecksum(SubSeq(a, 1, size - 1)) = a[size]

\* check_error() accepts nothing else.
LEMMA AcceptedIs ==
    ASSUME NEW a, NEW h, NEW size, CheckError(a, h, size) = "NO_ERROR"
    PROVE  IsAccepted(a, h, size)
<1> DEFINE short == Len(a) # size
           other == \E i \in DOMAIN h : a[i] # h[i]
           bad == CalcChecksum(SubSeq(a, 1, size - 1)) # a[size]
<1>1. "NO_ERROR" = CASE short -> "RECEIVE_SIZE_ERROR"
                     [] ~short /\ other -> "INVALID_HEADER"
                     [] OTHER -> IF bad THEN "CHECKSUM_ERROR" ELSE "NO_ERROR"
  BY Zenon DEF CheckError
<1> HIDE DEF short, other, bad
<1>2. ~short /\ ~other /\ ~bad
  BY ONLY <1>1
<1> QED
  BY ONLY <1>2, Zenon DEF IsAccepted, short, other, bad

\* The bytes of a frame that arrive, one of them flipped.
LEMMA ArrivedIs ==
    ASSUME NEW len \in Nat, NEW f \in Frames(len), NEW t \in Tampers
    PROVE  \E n \in 0..len :
             Arrived(f, t) = [i \in 1..n |-> IF i = t.at THEN (f[i] + 1) % 256 ELSE f[i]]
<1> DEFINE n == IF t.keep < Len(f) THEN t.keep ELSE Len(f)
           cut == SubSeq(f, 1, n)
<1>1. t.keep \in Nat
  BY DriverAssumption
<1>2. f \in Seq(Bytes) /\ Len(f) = len
  BY DEF Frames
<1>3. n \in 0..Len(f)
  BY ONLY <1>1, <1>2
<1>4. Arrived(f, t) = [i \in DOMAIN cut |-> IF i = t.at THEN (cut[i] + 1) % 256 ELSE cut[i]]
  BY ONLY Zenon DEF Arrived
<1> HIDE DEF n
<1>5. DOMAIN cut = 1..n /\ \A i \in 1..n : cut[i] = f[i]
  <2>1. \A i \in 1..n : f[i] \in Bytes
    BY ONLY <1>2, <1>3
  <2> QED
    BY ONLY <2>1, <1>3
<1> HIDE DEF cut
<1>6. Arrived(f, t) = [i \in 1..n |-> IF i = t.at THEN (f[i] + 1) % 256 ELSE f[i]]
  BY ONLY <1>4, <1>5, Zenon
<1>7. n \in 0..len
  BY ONLY <1>2, <1>3
<1> QED
  BY ONLY <1>6, <1>7, Zenon

\* A flipped byte is another byte.
LEMMA FlippedIsAnother ==
    ASSUME NEW x \in Bytes
    PROVE  (x + 1) % 256 # x /\ (x + 1) % 256 \in Bytes
BY SMT DEF Bytes

\* The byte after x.
NextByte(x) == (x + 1) % 256

\* Frame a is frame f with the byte at flipped, or f.
IsFlipped(a, f, at, len) ==
  /\ a \in Frames(len) /\ \A i \in 1..len : i # at => a[i] = f[i]
  /\ at \in 1..len => a[at] = NextByte(f[at])
  /\ at \notin 1..len => a = f

\* A frame that arrives in full is flipped or what was sent.
LEMMA FlippedFrame ==
    ASSUME NEW len \in Nat, NEW f \in Frames(len), NEW at \in Nat, NEW a,
           a = [i \in 1..len |-> IF i = at THEN (f[i] + 1) % 256 ELSE f[i]]
    PROVE  IsFlipped(a, f, at, len)
<1>1. f \in Seq(Bytes) /\ Len(f) = len
  BY DEF Frames
<1>9. \A i \in 1..len : f[i] \in Bytes
  BY ONLY <1>1
<1>2. \A i \in 1..len : (IF i = at THEN (f[i] + 1) % 256 ELSE f[i]) \in Bytes
  BY ONLY <1>9, FlippedIsAnother
<1>3. a \in Seq(Bytes) /\ Len(a) = len
  BY ONLY <1>2, a = [i \in 1..len |-> IF i = at THEN (f[i] + 1) % 256 ELSE f[i]], len \in Nat
<1>4. \A i \in 1..len : a[i] = IF i = at THEN NextByte(f[i]) ELSE f[i]
  BY Zenon DEF NextByte
<1>5. f = [i \in 1..len |-> f[i]]
  BY ONLY <1>1
<1>6. at \notin 1..len => a = f
  <2> SUFFICES ASSUME at \notin 1..len PROVE a = f
    OBVIOUS
  <2>1. a = [i \in 1..len |-> f[i]]
    BY Zenon
  <2> QED
    BY ONLY <2>1, <1>5, Zenon
<1>7. a \in Frames(len)
  BY ONLY <1>3 DEF Frames
<1>8. (\A i \in 1..len : i # at => a[i] = f[i]) /\ (at \in 1..len => a[at] = NextByte(f[at]))
  BY ONLY <1>4, Zenon
<1> QED
  BY ONLY <1>6, <1>7, <1>8, Zenon DEF IsFlipped

\* b is frame f without its last byte.
IsBody(b, f, len) == b \in Frames(len) /\ \A i \in 1..len : b[i] = f[i]

\* The bytes before the checksum of a frame.
LEMMA BodyOf ==
    ASSUME NEW len \in Nat, NEW f \in Frames(len + 1)
    PROVE  IsBody(SubSeq(f, 1, len), f, len)
<1>1. f \in Seq(Bytes) /\ Len(f) = len + 1
  BY DEF Frames
<1> DEFINE b == SubSeq(f, 1, len)
<1>2. \A i \in 1..len : f[i] \in Bytes
  BY ONLY <1>1, len \in Nat
<1>3. b \in Seq(Bytes) /\ Len(b) = len /\ \A i \in 1..len : b[i] = f[i]
  BY ONLY <1>1, <1>2, len \in Nat
<1> HIDE DEF b
<1>4. IsBody(b, f, len)
  BY ONLY <1>3 DEF IsBody, Frames
<1> QED
  BY ONLY <1>4, Zenon DEF b

\* A flipped frame has another checksum than the one it carries.
LEMMA FlipIsSeen ==
    ASSUME NEW len \in Nat, NEW f \in Frames(len + 1), NEW at \in Nat, NEW a,
           IsFlipped(a, f, at, len + 1), at \in 1..len + 1,
           f[len + 1] = CalcChecksum(SubSeq(f, 1, len))
    PROVE  a[len + 1] # CalcChecksum(SubSeq(a, 1, len))
<1> DEFINE got == SubSeq(a, 1, len)
           body == SubSeq(f, 1, len)
<1>1. a \in Frames(len + 1)
  BY Zenon DEF IsFlipped
<1>2. IsBody(got, a, len) /\ IsBody(body, f, len)
  BY <1>1, BodyOf, Zenon
<1>3. f[len + 1] = CalcChecksum(body)
  OBVIOUS
<1>4. SUFFICES ASSUME a[len + 1] = CalcChecksum(got) PROVE FALSE
  BY Zenon
<1> HIDE DEF got, body
<1>5. /\ got \in Seq(Bytes) /\ Len(got) = len /\ \A i \in 1..len : got[i] = a[i]
      /\ body \in Seq(Bytes) /\ Len(body) = len /\ \A i \in 1..len : body[i] = f[i]
  BY ONLY <1>2 DEF IsBody, Frames
<1>6. CalcChecksum(body) \in Bytes
  BY ONLY <1>5, ChecksumIsAByte, Zenon
<1>7. /\ \A i \in 1..len + 1 : i # at => a[i] = f[i]
      /\ a[at] = (f[at] + 1) % 256
  BY Zenon DEF IsFlipped, NextByte
<1>8. CASE at \in 1..len
  <2>1. len + 1 \in 1..len + 1 /\ len + 1 # at /\ \A i \in 1..len : i \in 1..len + 1
    BY ONLY <1>8, len \in Nat
  <2>2. got[at] = (body[at] + 1) % 256
    BY ONLY <1>5, <1>7, <1>8, Zenon
  <2>3. \A i \in 1..Len(body) : i # at => got[i] = body[i]
    BY ONLY <1>5, <1>7, <2>1, Zenon
  <2>4. at \in 1..Len(body) /\ Len(got) = Len(body)
    BY ONLY <1>5, <1>8, Zenon
  <2>5. CalcChecksum(got) = (CalcChecksum(body) + 1) % 256
    BY ONLY <1>5, <2>2, <2>3, <2>4, ChecksumSeesAFlip, Zenon
  <2>6. a[len + 1] = f[len + 1]
    BY ONLY <1>7, <2>1, Zenon
  <2> QED
    BY ONLY <2>5, <2>6, <1>3, <1>4, <1>6, FlippedIsAnother, Zenon
<1>9. CASE at = len + 1
  <2>1. \A i \in 1..len : i \in 1..len + 1 /\ i # at
    BY ONLY <1>9, len \in Nat
  <2>2. \A i \in 1..len : got[i] = body[i]
    BY ONLY <2>1, <1>5, <1>7, Zenon
  <2>3. got = body
    <3>1. got = [i \in 1..len |-> got[i]] /\ body = [i \in 1..len |-> body[i]]
      BY ONLY <1>5
    <3>2. [i \in 1..len |-> got[i]] = [i \in 1..len |-> body[i]]
      BY ONLY <2>2, Zenon
    <3> QED
      BY ONLY <3>1, <3>2, Zenon
  <2>4. a[len + 1] = (f[len + 1] + 1) % 256
    BY ONLY <1>7, <1>9, Zenon
  <2> QED
    BY ONLY <2>3, <2>4, <1>3, <1>4, <1>6, FlippedIsAnother, Zenon
<1>10. at \in 1..len \/ at = len + 1
  BY ONLY at \in 1..len + 1, len \in Nat
<1> QED
  BY ONLY <1>8, <1>9, <1>10, Zenon

\* A reply that check_error() accepts arrived as it was sent: neither cut short nor
\* with a byte flipped.
LEMMA DamageIsSeen ==
    ASSUME NEW r \in Readings, NEW t \in Tampers,
           CheckError(Arrived(OdomReply(r), t), OdomHeader, 19) = "NO_ERROR"
    PROVE  Arrived(OdomReply(r), t) = OdomReply(r)
<1> DEFINE f == OdomReply(r)
           a == Arrived(f, t)
           N == 19
           M == 18
<1>1. f \in Frames(N) /\ f[N] = CalcChecksum(SubSeq(f, 1, M))
  BY ReplyBytes, Zenon DEF IsReply, Frames
<1>2. IsAccepted(a, OdomHeader, N)
  BY AcceptedIs, Zenon
<1>3. N = M + 1 /\ M = N - 1 /\ M \in Nat /\ N \in Nat
  OBVIOUS
<1> HIDE DEF f, N, M
<1>4. Len(a) = N /\ a[N] = CalcChecksum(SubSeq(a, 1, M))
  BY ONLY <1>2, <1>3, Zenon DEF IsAccepted
<1>5. PICK n \in 0..N : a = [i \in 1..n |-> IF i = t.at THEN (f[i] + 1) % 256 ELSE f[i]]
  BY <1>1, <1>3, ArrivedIs, Zenon
<1>6. t.at \in Nat
  BY DriverAssumption
<1> HIDE DEF a
<1>7. n = N
  <2>1. a = [i \in 1..n |-> a[i]]
    BY ONLY <1>5, Zenon
  <2>2. Len(a) = n
    BY ONLY <2>1, <1>5, <1>3
  <2> QED
    BY ONLY <2>2, <1>4, Zenon
<1>8. IsFlipped(a, f, t.at, N)
  BY ONLY <1>1, <1>3, <1>5, <1>6, <1>7, FlippedFrame, Zenon
<1>9. t.at \notin 1..N
  <2> SUFFICES ASSUME t.at \in 1..N PROVE FALSE
    OBVIOUS
  <2>1. M \in Nat /\ f \in Frames(M + 1) /\ IsFlipped(a, f, t.at, M + 1) /\ t.at \in 1..M + 1
        /\ f[M + 1] = CalcChecksum(SubSeq(f, 1, M))
    BY ONLY <1>1, <1>3, <1>8, t.at \in 1..N, Zenon
  <2>2. a[M + 1] # CalcChecksum(SubSeq(a, 1, M))
    BY ONLY <2>1, <1>6, FlipIsSeen, Zenon
  <2> QED
    BY ONLY <2>2, <1>3, <1>4, Zenon
<1>10. a = f
  BY ONLY <1>8, <1>9, Zenon DEF IsFlipped
<1> QED
  BY ONLY <1>10, Zenon DEF a, f

\* What the limits let the wheels do.
WheelLimit == 2000 * MaxSpeed + MaxTurn * Pitch
Within(w, b) == 2000 * w <= b /\ -2000 * w <= b
Speeds == {w \in Int : Within(w, WheelLimit)}

\* The speed of a wheel that moves n / 2000 mm in a second.
WheelOf(n) == Truncated(n, 2000)

\* A limited number is within its limit.
LEMMA ClampBounds ==
    ASSUME NEW v \in Int, NEW l \in Nat
    PROVE  Clamp(v, l) \in Int /\ -l <= Clamp(v, l) /\ Clamp(v, l) <= l
BY SMT DEF Clamp

\* A division that truncates toward zero gives no larger number.
LEMMA TruncatedBounds ==
    ASSUME NEW n \in Int, NEW b \in Int, -b <= n, n <= b
    PROVE  WheelOf(n) \in Int /\ Within(WheelOf(n), b)
BY SMT DEF WheelOf, Truncated, Within

\* The turn of a limited rate.
LEMMA TurnBounds ==
    ASSUME NEW w \in Int, NEW m \in Nat, NEW p \in Nat, -m <= w, w <= m
    PROVE  w * p \in Int /\ m * p \in Int /\ -(m * p) <= w * p /\ w * p <= m * p
<1>1. (m - w) * p >= 0 /\ (m + w) * p >= 0
  <2>1. \A a, b \in Nat : a * b >= 0
    BY SMT
  <2>2. m - w \in Nat /\ m + w \in Nat
    BY SMT
  <2> QED
    BY <2>1, <2>2, SMT
<1>2. (m - w) * p = m * p - w * p /\ (m + w) * p = m * p + w * p
  BY SMT
<1>3. w * p \in Int /\ m * p \in Int
  BY SMT
<1> DEFINE a == w * p
           b == m * p
<1>4. b - a >= 0 /\ b + a >= 0 /\ a \in Int /\ b \in Int
  BY ONLY <1>1, <1>2, <1>3, Zenon
<1> HIDE DEF a, b
<1>5. -b <= a /\ a <= b
  BY ONLY <1>4, SMT
<1> QED
  BY ONLY <1>3, <1>5, Zenon DEF a, b

\* A number within the limit of the wheels has 16 bits.
LEMMA SpeedFits ==
    ASSUME NEW w \in Int, NEW b \in Int, Within(w, b), b < 2000 * 32768
    PROVE  w \in Int16
BY SMT DEF Int16, Within

\* The limit is a number of 27 bits.
LEMMA LimitFits == WheelLimit \in Int /\ WheelLimit >= 0 /\ WheelLimit < 2000 * 32768
<1>1. MaxSpeed \in Nat /\ MaxTurn \in Nat /\ Pitch \in Nat
  BY LimitAssumption, SMT
<1>2. MaxTurn * Pitch \in Nat
  <2>1. \A a, b \in Nat : a * b \in Nat
    BY SMT
  <2> QED
    BY ONLY <2>1, <1>1, Zenon
<1> DEFINE t == MaxTurn * Pitch
<1>3. t \in Nat
  BY ONLY <1>2, Zenon
<1>4. 2000 * MaxSpeed + t < 2000 * 32768
  BY LimitAssumption, SMT
<1> HIDE DEF t
<1>5. 2000 * MaxSpeed + t \in Int /\ 2000 * MaxSpeed + t >= 0
  BY ONLY <1>1, <1>3, SMT
<1> QED
  BY ONLY <1>4, <1>5, SMT DEF WheelLimit, t

\* Both speeds of a command are within the limits.
LEMMA CommandsAreLimited ==
    ASSUME NEW tw \in Twists
    PROVE  CreateSpeed(tw) \in [left : Speeds, right : Speeds]
<1> DEFINE v == Clamp(tw.v, MaxSpeed)
           w == Clamp(tw.w, MaxTurn)
           turn == w * Pitch
           full == MaxTurn * Pitch
           b == 2000 * MaxSpeed + full
<1>1. MaxSpeed \in Nat /\ MaxTurn \in Nat /\ Pitch \in Nat
  BY LimitAssumption, SMT
<1>2. tw.v \in Int /\ tw.w \in Int
  BY DriverAssumption, Zenon
<1>3. v \in Int /\ -MaxSpeed <= v /\ v <= MaxSpeed
  BY ONLY <1>1, <1>2, ClampBounds, Zenon
<1>4. w \in Int /\ -MaxTurn <= w /\ w <= MaxTurn
  BY ONLY <1>1, <1>2, ClampBounds, Zenon
<1> HIDE DEF v, w
<1>5. turn \in Int /\ full \in Int /\ -full <= turn /\ turn <= full
  BY ONLY <1>1, <1>4, TurnBounds, Zenon
<1>6. b = WheelLimit
  BY ONLY Zenon DEF WheelLimit
<1>7. b \in Int
  <2> HIDE DEF turn, full
  <2> QED
    BY ONLY <1>1, <1>5, SMT
<1> DEFINE m == 2000 * v - turn
           p == 2000 * v + turn
<1>8. m \in Int /\ -b <= m /\ m <= b /\ p \in Int /\ -b <= p /\ p <= b
  <2> HIDE DEF turn, full
  <2> QED
    BY ONLY <1>1, <1>3, <1>5, SMT
<1>9. CreateSpeed(tw) = [left |-> WheelOf(m), right |-> WheelOf(p)]
  BY ONLY SMT DEF CreateSpeed, WheelOf, v, w
<1> HIDE DEF b, m, p, turn, full
<1>10. WheelOf(m) \in Int /\ Within(WheelOf(m), b)
  BY ONLY <1>7, <1>8, TruncatedBounds
<1>11. WheelOf(p) \in Int /\ Within(WheelOf(p), b)
  BY ONLY <1>7, <1>8, TruncatedBounds
<1>12. WheelOf(m) \in Speeds /\ WheelOf(p) \in Speeds
  BY ONLY <1>6, <1>10, <1>11, Zenon DEF Speeds
<1> QED
  BY ONLY <1>9, <1>12

\* So is a stop.
LEMMA StopIsLimited == Stop \in [left : Speeds, right : Speeds]
<1>1. Within(0, WheelLimit) /\ 0 \in Int
  <2>1. WheelLimit \in Int /\ WheelLimit >= 0
    BY LimitFits, SMT
  <2> QED
    BY ONLY <2>1, SMT DEF Within
<1>2. 0 \in Speeds
  BY ONLY <1>1, Zenon DEF Speeds
<1> QED
  BY ONLY <1>2, Zenon DEF Stop

\* The frame of a speed command.
IsSpeedFrame(f, right, left) ==
  /\ f \in Frames(7)
  /\ f[3] = right[1] /\ f[4] = right[2] /\ f[5] = left[1] /\ f[6] = left[2]

\* The frame that is made of a header and two numbers.
LEMMA FrameOfTwo ==
    ASSUME NEW o \in Frames(2), NEW x \in Frames(2), NEW y \in Frames(2)
    PROVE  IsSpeedFrame(WithSum((o \o x) \o y), x, y)
<1> DEFINE b2 == o \o x
           b3 == b2 \o y
           f == WithSum(b3)
<1>1. IsJoined(b2, o, x)
  BY Joined DEF Frames
<1>2. /\ Len(o) = 2 /\ x \in Seq(Bytes) /\ Len(x) = 2 /\ y \in Seq(Bytes) /\ Len(y) = 2
  BY DEF Frames
<1>3. b3 = b2 \o y /\ f = WithSum(b3)
  OBVIOUS
<1> HIDE DEF b2, b3, f
<1>4. b2 \in Seq(Bytes) /\ Len(b2) = 4 /\ \A i \in 1..2 : b2[2 + i] = x[i]
  BY ONLY <1>1, <1>2 DEF IsJoined
<1>5. IsJoined(b3, b2, y)
  BY ONLY <1>2, <1>3, <1>4, Joined
<1>6. /\ b3 \in Seq(Bytes) /\ Len(b3) = 6 /\ \A i \in 1..4 : b3[i] = b2[i]
      /\ \A i \in 1..2 : b3[4 + i] = y[i]
  BY ONLY <1>2, <1>4, <1>5 DEF IsJoined
<1> DEFINE c == CalcChecksum(b3)
<1>7. c \in Bytes
  BY ONLY <1>6, ChecksumIsAByte
<1>8. f = Append(b3, c)
  BY ONLY <1>3 DEF WithSum
<1> HIDE DEF c
<1>9. IsAppended(f, b3, c)
  BY ONLY <1>6, <1>7, <1>8, Appended
<1>10. f \in Seq(Bytes) /\ Len(f) = 7 /\ \A i \in 1..6 : f[i] = b3[i]
  BY ONLY <1>6, <1>9 DEF IsAppended
<1>11. f[3] = x[1] /\ f[4] = x[2]
  <2>1. b2[3] = x[1] /\ b2[4] = x[2]
    BY ONLY <1>4
  <2>2. b3[3] = b2[3] /\ b3[4] = b2[4]
    BY ONLY <1>6
  <2>3. f[3] = b3[3] /\ f[4] = b3[4]
    BY ONLY <1>10
  <2> QED
    BY ONLY <2>1, <2>2, <2>3, Zenon
<1>12. f[5] = y[1] /\ f[6] = y[2]
  <2>1. b3[5] = y[1] /\ b3[6] = y[2]
    BY ONLY <1>6
  <2>2. f[5] = b3[5] /\ f[6] = b3[6]
    BY ONLY <1>10
  <2> QED
    BY ONLY <2>1, <2>2, Zenon
<1>13. f \in Frames(7)
  BY ONLY <1>10 DEF Frames
<1>14. IsSpeedFrame(f, x, y)
  BY ONLY <1>11, <1>12, <1>13, Zenon DEF IsSpeedFrame
<1> QED
  BY ONLY <1>14, Zenon DEF f, b3, b2

\* The device drives the wheels as the command says.
LEMMA CommandIsDriven ==
    ASSUME NEW p \in [left : Speeds, right : Speeds]
    PROVE  Driven(EncodeSpeed(p)) = p
<1> DEFINE o == SpeedHeader
           x == EncodeInt(p.right, 2)
           y == EncodeInt(p.left, 2)
           f == WithSum((o \o x) \o y)
<1>1. p = [left |-> p.left, right |-> p.right] /\ p.left \in Speeds /\ p.right \in Speeds
  BY Zenon
<1>2. \A w \in Speeds : w \in Int16 /\ w \in Int
  <2> SUFFICES ASSUME NEW w \in Speeds PROVE w \in Int16 /\ w \in Int
    OBVIOUS
  <2>1. w \in Int /\ Within(w, WheelLimit)
    BY Zenon DEF Speeds
  <2> DEFINE b == WheelLimit
  <2>2. b \in Int /\ b < 2000 * 32768
    BY ONLY LimitFits, SMT
  <2>3. Within(w, b)
    BY ONLY <2>1, Zenon
  <2> HIDE DEF b
  <2> QED
    BY ONLY <2>1, <2>2, <2>3, SpeedFits, SMT
<1>3. x \in Frames(2) /\ y \in Frames(2)
  BY ONLY <1>1, <1>2, BytesOfTwo, Zenon
<1>4. o \in Frames(2)
  <2>1. 150 \in Bytes /\ 71 \in Bytes
    BY SMT DEF Bytes
  <2> QED
    BY <2>1 DEF SpeedHeader, Frames
<1>5. EncodeSpeed(p) = f
  BY ONLY Zenon DEF EncodeSpeed, WithSum
<1> HIDE DEF o, x, y
<1>6. IsSpeedFrame(f, x, y)
  BY ONLY <1>3, <1>4, FrameOfTwo, Zenon
<1> HIDE DEF f
<1> DEFINE r == SubSeq(f, 3, 4)
           l == SubSeq(f, 5, 6)
<1>7. Driven(f) = [right |-> DecodeSigned(r), left |-> DecodeSigned(l)]
  BY ONLY Zenon DEF Driven
<1>8. IsPiece(r, f, 3, 4) /\ IsPiece(l, f, 5, 6)
  <2>1. f \in Seq(Bytes) /\ Len(f) = 7
    BY ONLY <1>6, Zenon DEF IsSpeedFrame, Frames
  <2>2. /\ 1 <= 3 /\ 3 <= 4 /\ 4 <= 7 /\ 1 <= 5 /\ 5 <= 6 /\ 6 <= 7
        /\ 3 \in Int /\ 4 \in Int /\ 5 \in Int /\ 6 \in Int
    OBVIOUS
  <2> QED
    BY ONLY <2>1, <2>2, PieceOfFrame, Zenon
<1> HIDE DEF r, l
<1>9. r \in Frames(2) /\ r[1] = f[3] /\ r[2] = f[4]
  BY ONLY <1>8 DEF IsPiece, Frames
<1>10. l \in Frames(2) /\ l[1] = f[5] /\ l[2] = f[6]
  BY ONLY <1>8 DEF IsPiece, Frames
<1>11. f[3] = x[1] /\ f[4] = x[2] /\ f[5] = y[1] /\ f[6] = y[2]
  BY ONLY <1>6, Zenon DEF IsSpeedFrame
<1>12. DecodeSigned(r) = p.right
  <2>1. r[1] = x[1] /\ r[2] = x[2]
    BY ONLY <1>9, <1>11, Zenon
  <2> QED
    BY ONLY <2>1, <1>1, <1>2, <1>9, SpeedIsRead, Zenon DEF x
<1>13. DecodeSigned(l) = p.left
  <2>1. l[1] = y[1] /\ l[2] = y[2]
    BY ONLY <1>10, <1>11, Zenon
  <2> QED
    BY ONLY <2>1, <1>1, <1>2, <1>10, SpeedIsRead, Zenon DEF y
<1>14. Driven(f) = [right |-> p.right, left |-> p.left]
  BY ONLY <1>7, <1>12, <1>13, Zenon
<1>15. [right |-> p.right, left |-> p.left] = p
  BY ONLY <1>1
<1> QED
  BY ONLY <1>5, <1>14, <1>15, Zenon

----------------------------------------------------------------------------
(* The inductive invariant.                                                *)

\* What the node publishes is the last reading it got; the wheels turn within the limits.
OutIsTruth == ~AlwaysPublish /\ odom.out # NoValue => odom.out = Turned(odom.truth)
WheelsAreLimited == motor \in [estop : BOOLEAN, wheels : [left : Speeds, right : Speeds]]

\* A value the node takes from the line is the reading the device gave.
LEMMA ValuesAreReadings ==
    ASSUME NEW p, NEW r \in Readings, NEW t \in Tampers, GetData(p, r, t).error = "NO_ERROR"
    PROVE  GetData(p, r, t).data = r
<1> DEFINE silence == CheckError(<<>>, OdomHeader, 19)
           e == CASE ~Reaches(p) -> "WRITE_ERROR"
                  [] Reaches(p) /\ dev.answers -> OdomErrors[r][t]
                  [] OTHER -> silence
           g == GetData(p, r, t)
<1>1. g = [error |-> e, data |-> IF e = "NO_ERROR" THEN OdomValues[r][t] ELSE NoValue]
  BY Zenon DEF GetData
<1>2. silence # "NO_ERROR"
  <2> SUFFICES ASSUME silence = "NO_ERROR" PROVE FALSE
    OBVIOUS
  <2>1. IsAccepted(<<>>, OdomHeader, 19)
    BY ONLY silence = "NO_ERROR", AcceptedIs, Zenon
  <2>2. Len(<<>>) = 19
    BY ONLY <2>1, Zenon DEF IsAccepted
  <2> QED
    BY ONLY <2>2
<1>3. OdomErrors[r][t] = CheckError(Arrived(OdomReply(r), t), OdomHeader, 19)
  BY DEF OdomErrors
<1>4. OdomValues[r][t] = IF OdomErrors[r][t] = "NO_ERROR"
                         THEN DecodeOdom(Arrived(OdomReply(r), t)) ELSE NoValue
  BY DEF OdomValues
<1>5. g.error = "NO_ERROR"
  OBVIOUS
<1> HIDE DEF g
<1>6. e = "NO_ERROR"
  <2> HIDE DEF e
  <2> QED
    BY ONLY <1>1, <1>5
<1>7. OdomErrors[r][t] = "NO_ERROR"
  <2> DEFINE errors == OdomErrors[r][t]
  <2> HIDE DEF silence, errors
  <2>1. "NO_ERROR" = CASE ~Reaches(p) -> "WRITE_ERROR"
                       [] Reaches(p) /\ dev.answers -> errors
                       [] OTHER -> silence
    BY ONLY <1>6, Zenon DEF errors
  <2>2. "WRITE_ERROR" # "NO_ERROR"
    OBVIOUS
  <2>3. errors = "NO_ERROR"
    BY ONLY <1>2, <2>1, <2>2, Zenon
  <2> QED
    BY ONLY <2>3, Zenon DEF errors
<1> HIDE DEF e, silence
<1>9. g.data = OdomValues[r][t]
  BY ONLY <1>1, <1>6
<1>10. Arrived(OdomReply(r), t) = OdomReply(r)
  BY ONLY <1>3, <1>7, r \in Readings, t \in Tampers, DamageIsSeen, Zenon
<1>11. OdomValues[r][t] = DecodeOdom(OdomReply(r))
  BY ONLY <1>4, <1>7, <1>10, Zenon
<1>12. g.data = r
  BY ONLY <1>9, <1>11, ReplyIsTheReading, r \in Readings, Zenon
<1> QED
  BY ONLY <1>12, Zenon DEF g

\* The speeds a node sends.
LEMMA SpeedsAreDriven ==
    ASSUME NEW speed \in {Stop} \cup {CreateSpeed(tw) : tw \in Twists}
    PROVE  WheelSpeeds[speed] \in [left : Speeds, right : Speeds]
<1>1. speed \in [left : Speeds, right : Speeds]
  BY StopIsLimited, CommandsAreLimited, Zenon
<1>2. WheelSpeeds[speed] = Driven(EncodeSpeed(speed))
  BY Zenon DEF WheelSpeeds
<1> QED
  BY ONLY <1>1, <1>2, CommandIsDriven, Zenon

\* An exchange leaves the wheels within the limits.
LEMMA SendKeepsTheLimits ==
    ASSUME WheelsAreLimited, NEW p, NEW reached, NEW t,
           NEW speed \in {Stop} \cup {CreateSpeed(tw) : tw \in Twists}
    PROVE  SendSpeed(p, speed, reached, t).wheels \in [left : Speeds, right : Speeds]
<1>1. SendSpeed(p, speed, reached, t).wheels
        = IF Reaches(p) /\ reached /\ dev.answers THEN WheelSpeeds[speed] ELSE motor.wheels
  BY Zenon DEF SendSpeed
<1>2. motor.wheels \in [left : Speeds, right : Speeds]
  BY Zenon DEF WheelsAreLimited
<1> QED
  BY ONLY <1>1, <1>2, SpeedsAreDriven, Zenon,
          speed \in {Stop} \cup {CreateSpeed(tw) : tw \in Twists}

\* So does a health check.
LEMMA ProbeKeepsTheLimits ==
    ASSUME WheelsAreLimited, NEW reached, NEW t
    PROVE  Checked(reached, t).wheels \in [left : Speeds, right : Speeds]
<1> DEFINE L == [left : Speeds, right : Speeds]
<1>1. motor.wheels \in L
  BY Zenon DEF WheelsAreLimited
<1>2. Stop \in {Stop} \cup {CreateSpeed(tw) : tw \in Twists}
  BY Zenon
<1>3. \A p : SendSpeed(p, Stop, reached, t).wheels \in L
  BY <1>2, SendKeepsTheLimits, Zenon
<1>4. \A p : Probe(p, reached, t).wheels \in L
  BY <1>1, <1>3, Zenon DEF Probe
<1> HIDE DEF L
<1>5. \A c, n, p, q : (IF c THEN LET h == HandleSerialError(n, p, q) IN
                                 [node |-> h.node, port |-> h.port,
                                  wheels |-> Probe(p, reached, t).wheels]
                       ELSE [node |-> n, port |-> p, wheels |-> motor.wheels]).wheels \in L
  BY ONLY <1>1, <1>4
<1> QED
  BY ONLY <1>5, Zenon DEF Checked, L

\* The start.
LEMMA LineInit == DriverInit => OutIsTruth /\ WheelsAreLimited
<1> SUFFICES ASSUME DriverInit PROVE OutIsTruth /\ WheelsAreLimited
  OBVIOUS
<1>1. PICK g \in Garbage : odom = [valid |-> g, out |-> NoValue, truth |-> NoValue]
  BY Zenon DEF DriverInit
<1>2. OutIsTruth
  BY ONLY <1>1 DEF OutIsTruth
<1>3. motor = [estop |-> FALSE, wheels |-> Stop]
  BY Zenon DEF DriverInit
<1>4. WheelsAreLimited
  BY ONLY <1>3, StopIsLimited DEF WheelsAreLimited
<1> QED
  BY ONLY <1>2, <1>4

\* Every step.
LEMMA LineStep ==
    ASSUME OutIsTruth, WheelsAreLimited, [DriverNext]_driverVars
    PROVE  OutIsTruth' /\ WheelsAreLimited'
<1> DEFINE L == [left : Speeds, right : Speeds]
<1>1. ASSUME UNCHANGED <<motor, odom>> PROVE OutIsTruth' /\ WheelsAreLimited'
  BY <1>1 DEF OutIsTruth, WheelsAreLimited
<1>2. ASSUME UNCHANGED odom PROVE OutIsTruth'
  BY <1>2, Zenon DEF OutIsTruth
<1>3. ASSUME NEW wheels \in L, motor' = [motor EXCEPT !.wheels = wheels] PROVE WheelsAreLimited'
  BY <1>3 DEF WheelsAreLimited
<1>4. CASE UNCHANGED driverVars
  BY <1>1, <1>4, Zenon DEF driverVars
<1>5. CASE DeviceNext
  BY <1>1, <1>5, Zenon DEF DeviceNext
<1>6. ASSUME NEW b \in BOOLEAN, NEW t \in Tampers, HealthCheck(b, t)
      PROVE  OutIsTruth' /\ WheelsAreLimited'
  <2>1. UNCHANGED odom /\ motor' = [motor EXCEPT !.wheels = Checked(b, t).wheels]
    BY <1>6, Zenon DEF HealthCheck
  <2>2. Checked(b, t).wheels \in L
    BY ProbeKeepsTheLimits, Zenon
  <2> QED
    BY ONLY <2>1, <2>2, <1>2, <1>3, Zenon
<1>7. ASSUME NEW tw \in Twists, NEW b \in BOOLEAN, NEW t \in Tampers, TwistSub(tw, b, t)
      PROVE  OutIsTruth' /\ WheelsAreLimited'
  <2>1. /\ UNCHANGED odom
        /\ motor' = [motor EXCEPT !.wheels = SendSpeed(port, CreateSpeed(tw), b, t).wheels]
    BY <1>7, Zenon DEF TwistSub
  <2>2. CreateSpeed(tw) \in {Stop} \cup {CreateSpeed(x) : x \in Twists}
    BY Zenon
  <2>3. SendSpeed(port, CreateSpeed(tw), b, t).wheels \in L
    BY <2>2, SendKeepsTheLimits, Zenon
  <2> QED
    BY ONLY <2>1, <2>3, <1>2, <1>3, Zenon
<1>8. ASSUME NEW e \in BOOLEAN, NEW b \in BOOLEAN, NEW t \in Tampers, EmergencyStopSub(e, b, t)
      PROVE  OutIsTruth' /\ WheelsAreLimited'
  <2> DEFINE w == IF e THEN SendSpeed(port, Stop, b, t).wheels ELSE motor.wheels
  <2>1. UNCHANGED odom /\ motor' = [estop |-> e, wheels |-> w]
    BY <1>8, Zenon DEF EmergencyStopSub
  <2>2. w \in L
    <3>1. motor.wheels \in L
      BY Zenon DEF WheelsAreLimited
    <3>2. Stop \in {Stop} \cup {CreateSpeed(x) : x \in Twists}
      BY Zenon
    <3>3. SendSpeed(port, Stop, b, t).wheels \in L
      BY <3>2, SendKeepsTheLimits, Zenon
    <3> QED
      BY ONLY <3>1, <3>3, Zenon
  <2> HIDE DEF w
  <2>3. WheelsAreLimited'
    BY ONLY <2>1, <2>2, e \in BOOLEAN DEF WheelsAreLimited
  <2> QED
    BY ONLY <2>1, <2>3, <1>2, Zenon
<1>9. ASSUME NEW r \in Readings, NEW t \in Tampers, Publish(r, t)
      PROVE  OutIsTruth' /\ WheelsAreLimited'
  <2> DEFINE g == GetData(port, r, t)
             valid == IF g.error = "NO_ERROR" THEN Turned(g.data) ELSE odom.valid
  <2>1. /\ UNCHANGED motor
        /\ odom' = [valid |-> valid, truth |-> IF g.error = "NO_ERROR" THEN r ELSE odom.truth,
                    out |-> IF g.error = "NO_ERROR" \/ AlwaysPublish THEN valid ELSE odom.out]
    BY <1>9, Zenon DEF Publish
  <2>2. g.error = "NO_ERROR" => g.data = r
    BY ValuesAreReadings, Zenon
  <2> HIDE DEF g
  <2>3. OutIsTruth'
    <3>1. /\ odom'.truth = IF g.error = "NO_ERROR" THEN r ELSE odom.truth
          /\ odom'.out = IF g.error = "NO_ERROR" \/ AlwaysPublish THEN valid ELSE odom.out
      BY ONLY <2>1
    <3>2. CASE g.error = "NO_ERROR"
      <4>1. odom'.truth = r /\ odom'.out = Turned(r)
        BY ONLY <3>1, <3>2, <2>2
      <4> QED
        BY ONLY <4>1 DEF OutIsTruth
    <3>3. CASE g.error # "NO_ERROR" /\ ~AlwaysPublish
      <4>1. odom'.truth = odom.truth /\ odom'.out = odom.out
        BY ONLY <3>1, <3>3
      <4>2. OutIsTruth
        OBVIOUS
      <4> QED
        BY ONLY <4>1, <4>2 DEF OutIsTruth
    <3>4. CASE AlwaysPublish
      BY ONLY <3>4, Zenon DEF OutIsTruth
    <3> QED
      BY ONLY <3>2, <3>3, <3>4, Zenon
  <2>4. WheelsAreLimited'
    BY ONLY <2>1, WheelsAreLimited DEF WheelsAreLimited
  <2> QED
    BY ONLY <2>3, <2>4
<1>10. CASE DriverNext
  <2>1. \/ DeviceNext
        \/ \E b \in BOOLEAN, t \in Tampers : HealthCheck(b, t)
        \/ \E tw \in Twists, b \in BOOLEAN, t \in Tampers : TwistSub(tw, b, t)
        \/ \E e \in BOOLEAN, b \in BOOLEAN, t \in Tampers : EmergencyStopSub(e, b, t)
        \/ \E r \in Readings, t \in Tampers : Publish(r, t)
    BY <1>10, Zenon DEF DriverNext
  <2> QED
    BY ONLY <2>1, <1>5, <1>6, <1>7, <1>8, <1>9, Zenon
<1> QED
  BY <1>4, <1>10, Zenon

\* The invariant says what LineIsFaithful says.
LEMMA LineFollows == OutIsTruth /\ WheelsAreLimited => LineIsFaithful
<1> SUFFICES ASSUME OutIsTruth, WheelsAreLimited PROVE LineIsFaithful
  OBVIOUS
<1>1. motor.wheels.left \in Speeds /\ motor.wheels.right \in Speeds
  BY Zenon DEF WheelsAreLimited
<1>2. \A w \in {motor.wheels.left, motor.wheels.right} : Within(w, WheelLimit)
  BY ONLY <1>1, Zenon DEF Speeds
<1>3. \A w \in {motor.wheels.left, motor.wheels.right} :
        2000 * w <= 2000 * MaxSpeed + MaxTurn * Pitch /\ -2000 * w <= 2000 * MaxSpeed + MaxTurn * Pitch
  BY ONLY <1>2 DEF Within, WheelLimit
<1>4. ASSUME ~AlwaysPublish, odom.out # NoValue, NEW f \in {"x", "y", "th"}
      PROVE  odom.out[f] = IF f \in Inverted THEN -odom.truth[f] ELSE odom.truth[f]
  <2>1. odom.out = Turned(odom.truth)
    BY <1>4, Zenon DEF OutIsTruth
  <2> QED
    BY ONLY <2>1, f \in {"x", "y", "th"} DEF Turned
<1> QED
  BY <1>3, <1>4, Zenon DEF LineIsFaithful

(***************************************************************************)
(* What crosses the serial line is what was sent: an odometry that only      *)
(* publishes what it reads publishes exactly the position the device gave,   *)
(* with the signs its inv_ parameters ask for, whatever was cut off or       *)
(* flipped in other replies, and the wheels never turn faster than max_speed *)
(* and max_turn allow - for every reading of 32 bits, every command and      *)
(* every pair of limits whose speeds have 16 bits.                           *)
(***************************************************************************)
THEOREM TheLineIsFaithful == DriverSpec => []LineIsFaithful
<1> DEFINE Inv == OutIsTruth /\ WheelsAreLimited
<1>1. DriverInit => Inv
  BY LineInit
<1>2. Inv /\ [DriverNext]_driverVars => Inv'
  BY LineStep
<1>3. Inv => LineIsFaithful
  BY LineFollows
<1> QED
  BY <1>1, <1>2, <1>3, PTL DEF DriverSpec
=============================================================================
