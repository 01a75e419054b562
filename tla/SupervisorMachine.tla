-------------------------- MODULE SupervisorMachine --------------------------
(***************************************************************************)
(* The localization supervisor's state machine                             *)
(* (localization_supervisor/state_machine.py) as its node drives it: one   *)
(* step per timer period, with the period's checks.  A check is bad, good  *)
(* or na (None in the code: not decidable); bad is True for the anomaly    *)
(* checks and False for converged.                                         *)
(*                                                                         *)
(* Times are kept as the number of periods since the event the current     *)
(* state waits on (isolation, re-initialisation, degradation).  That       *)
(* number and the run counters are only compared with thresholds, so they  *)
(* are kept up to Cap.                                                     *)
(***************************************************************************)
EXTENDS Naturals

CONSTANTS RunChecks,                    \* the checks counted in runs: gnss, scan, diff
          SuspectTicks, IsolateTicks,   \* per check: runs that raise suspicion,
                                        \* that isolate
          CorroborateTicks, ClearTicks,
          IsolateHold,                  \* periods
          RecoverOkTicks, RecoverTimeout, MaxReinitAttempts,
          DegradedRetry,                \* periods
          SlowOnDegraded,               \* action_on_degraded = 'slow'
          StartupGrace, GraceAfterRecovery, \* periods
          Cap                           \* bound on counters, at least every threshold

Verdicts == {"bad", "good", "na"}
CheckNames == RunChecks \cup {"jump", "converged"}

ASSUME ConfigAssumption ==
    /\ "gnss" \in RunChecks /\ "jump" \notin RunChecks /\ "converged" \notin RunChecks
    /\ SuspectTicks \in [RunChecks -> Nat] /\ IsolateTicks \in [RunChecks -> Nat]
    /\ CorroborateTicks \in Nat /\ ClearTicks \in Nat /\ IsolateHold \in Nat
    /\ RecoverOkTicks \in Nat /\ RecoverTimeout \in Nat
    /\ MaxReinitAttempts \in Nat \ {0} /\ DegradedRetry \in Nat
    /\ SlowOnDegraded \in BOOLEAN
    /\ StartupGrace \in Nat /\ GraceAfterRecovery \in Nat

\* The thresholds of MachineConfig and of localization_supervisor.yaml: one
\* period never takes a check from unsuspicious to confirmed.
ASSUME ThresholdAssumption ==
    \A c \in RunChecks : 0 < SuspectTicks[c] /\ SuspectTicks[c] < IsolateTicks[c]

ASSUME CapAssumption ==
    /\ Cap \in Nat
    /\ \A c \in RunChecks : SuspectTicks[c] <= Cap /\ IsolateTicks[c] <= Cap
    /\ \A k \in {CorroborateTicks, ClearTicks, IsolateHold, RecoverOkTicks,
                 RecoverTimeout, DegradedRetry} : k <= Cap

VARIABLES
    recoveryEnabled,    \* recovery_enabled, chosen at the start
    state, attached,
    run,            \* _gnss_run, _scan_run, _diff_run
    jumpSeen, clearRun, okRun,
    since,          \* periods since _isolated_at, _reinit_at or _degraded_at
    attempts,
    grace,          \* periods until _grace_until
    speedLimited,   \* /speed_limit is in force
    reinits,        \* re-initialisations since AMCL was last isolated or DEGRADED
    last,           \* the outcome of the last period's measurements
    even            \* the parity of the periods: every period is a step

machineVars == <<state, attached, run, jumpSeen, clearRun, okRun, since, attempts>>
vars == <<recoveryEnabled, machineVars, grace, speedLimited, reinits, last, even>>

States == {"NORMAL", "SUSPECT", "ISOLATED", "RECOVERING", "DEGRADED"}
NoRun == [c \in RunChecks |-> 0]
Unavailable == [c \in CheckNames |-> "na"]

Init ==
    /\ recoveryEnabled \in BOOLEAN
    /\ state = "NORMAL" /\ attached = TRUE
    /\ run = NoRun /\ jumpSeen = FALSE /\ clearRun = 0 /\ okRun = 0
    /\ since = 0 /\ attempts = 0
    /\ grace = StartupGrace /\ speedLimited = FALSE /\ reinits = 0
    /\ last = "mixed" /\ even = TRUE

-----------------------------------------------------------------------------
Inc(k) == IF k < Cap THEN k + 1 ELSE k

\* _update_runs
NextRun(checks) ==
    [c \in RunChecks |-> IF checks[c] = "bad" THEN Inc(run[c])
                         ELSE IF checks[c] = "good" THEN 0 ELSE run[c]]

Anomaly(checks) == \E c \in RunChecks \cup {"jump"} : checks[c] = "bad"
Known(checks) == \E c \in RunChecks \cup {"jump"} : checks[c] # "na"

Suspicious(checks) ==
    \/ checks["jump"] = "bad"
    \/ \E c \in RunChecks : NextRun(checks)[c] >= SuspectTicks[c]

\* _isolate_reason, after _update_runs
Confirmed(checks) ==
    \/ \E c \in RunChecks : NextRun(checks)[c] >= IsolateTicks[c]
    \/ /\ jumpSeen \/ checks["jump"] = "bad"
       /\ \E c \in RunChecks : NextRun(checks)[c] >= CorroborateTicks

\* mutated form: the runs are kept
ResetCountersKeepsRuns ==
    /\ jumpSeen' = FALSE /\ clearRun' = 0 /\ okRun' = 0 /\ UNCHANGED run

ResetCounters ==
    /\ run' = NoRun /\ jumpSeen' = FALSE /\ clearRun' = 0 /\ okRun' = 0

\* the counters as _update_runs leaves them
KeepRuns(checks) ==
    /\ run' = NextRun(checks)
    /\ jumpSeen' = (jumpSeen \/ checks["jump"] = "bad")

Pass(k) == IF k > 0 THEN k - 1 ELSE 0

\* What a step leaves alone when it emits no action.
NoAction ==
    /\ grace' = Pass(grace)
    /\ UNCHANGED <<speedLimited, reinits>>

\* _apply_degraded
ApplyDegraded(degraded) ==
    speedLimited' = IF SlowOnDegraded THEN degraded ELSE speedLimited

StepNormal(checks) ==
    /\ state = "NORMAL"
    /\ run' = NextRun(checks)
    /\ jumpSeen' = (checks["jump"] = "bad")
    /\ \/ Suspicious(checks) /\ state' = "SUSPECT" /\ clearRun' = 0
       \/ ~Suspicious(checks) /\ UNCHANGED <<state, clearRun>>
    /\ NoAction
    /\ UNCHANGED <<attached, okRun, since, attempts>>

\* clearing in SUSPECT and, without recovery, in DEGRADED
Cleared(checks) == Known(checks) /\ ~Anomaly(checks) /\ Inc(clearRun) >= ClearTicks
CountClear(checks) ==
    /\ ~Cleared(checks)
    /\ KeepRuns(checks)
    /\ clearRun' = IF Anomaly(checks) THEN 0
                   ELSE IF Known(checks) THEN Inc(clearRun) ELSE clearRun
    /\ UNCHANGED <<state, okRun>>

StepSuspect(checks) ==
    /\ state = "SUSPECT"
    /\ \/ /\ Confirmed(checks) /\ ~recoveryEnabled
          /\ state' = "DEGRADED" /\ clearRun' = 0
          /\ ApplyDegraded(TRUE)
          /\ grace' = Pass(grace)
          /\ KeepRuns(checks)
          /\ UNCHANGED <<attached, okRun, since, reinits>>
       \/ /\ Confirmed(checks) /\ recoveryEnabled
          /\ state' = "ISOLATED" /\ attached' = FALSE /\ since' = 0
          /\ KeepRuns(checks)
          /\ grace' = Pass(grace) /\ reinits' = 0
          /\ UNCHANGED <<clearRun, okRun, speedLimited>>
       \/ /\ ~Confirmed(checks) /\ Cleared(checks)
          /\ state' = "NORMAL" /\ ResetCounters
          /\ NoAction
          /\ UNCHANGED <<attached, since>>
       \/ /\ ~Confirmed(checks) /\ CountClear(checks)
          /\ NoAction
          /\ UNCHANGED <<attached, since>>
    /\ UNCHANGED attempts

\* _start_recovery with the REINIT action
StartRecovery ==
    /\ state' = "RECOVERING" /\ since' = 0 /\ attempts' = 1 /\ okRun' = 0
    /\ grace' = Pass(grace)

StepIsolated(checks) ==
    /\ state = "ISOLATED"
    /\ KeepRuns(checks)
    /\ \/ /\ Inc(since) >= IsolateHold
          /\ StartRecovery /\ reinits' = reinits + 1
          /\ UNCHANGED speedLimited
       \/ /\ Inc(since) < IsolateHold
          /\ since' = Inc(since)
          /\ NoAction
          /\ UNCHANGED <<state, attempts, okRun>>
    /\ UNCHANGED <<attached, clearRun>>

\* mutated form: GNSS does not count against the recovery
NextOkWithoutGnss(checks) ==
    IF checks["converged"] = "bad" THEN 0
    ELSE IF checks["converged"] = "good" THEN Inc(okRun) ELSE okRun

NextOk(checks) ==
    IF checks["gnss"] = "bad" \/ checks["converged"] = "bad" THEN 0
    ELSE IF checks["converged"] = "good" THEN Inc(okRun) ELSE okRun

\* mutated form: one attempt too many
AttemptsLeftOver == attempts <= MaxReinitAttempts

AttemptsLeft == attempts < MaxReinitAttempts

\* mutated form: AMCL stays cut off
RecoveredDetached ==
    /\ state' = "NORMAL"
    /\ ResetCounters
    /\ ApplyDegraded(FALSE)
    /\ grace' = Pass(GraceAfterRecovery)
    /\ UNCHANGED <<attached, since, attempts, reinits>>

\* back to NORMAL with the ATTACH action
Recovered ==
    /\ state' = "NORMAL" /\ attached' = TRUE
    /\ ResetCounters
    /\ ApplyDegraded(FALSE)
    /\ grace' = Pass(GraceAfterRecovery)
    /\ UNCHANGED <<since, attempts, reinits>>

StepRecovering(checks) ==
    /\ state = "RECOVERING"
    /\ \/ NextOk(checks) >= RecoverOkTicks /\ Recovered
       \/ /\ NextOk(checks) < RecoverOkTicks /\ Inc(since) >= RecoverTimeout
          /\ AttemptsLeft
          /\ attempts' = attempts + 1 /\ reinits' = reinits + 1
          /\ since' = 0 /\ okRun' = 0
          /\ KeepRuns(checks)
          /\ grace' = Pass(grace)
          /\ UNCHANGED <<state, attached, clearRun, speedLimited>>
       \/ /\ NextOk(checks) < RecoverOkTicks /\ Inc(since) >= RecoverTimeout
          /\ ~AttemptsLeft
          /\ state' = "DEGRADED" /\ since' = 0 /\ okRun' = NextOk(checks)
          /\ KeepRuns(checks)
          /\ ApplyDegraded(TRUE)
          /\ grace' = Pass(grace)
          /\ UNCHANGED <<attached, clearRun, attempts, reinits>>
       \/ /\ NextOk(checks) < RecoverOkTicks /\ Inc(since) < RecoverTimeout
          /\ since' = Inc(since) /\ okRun' = NextOk(checks)
          /\ KeepRuns(checks)
          /\ NoAction
          /\ UNCHANGED <<state, attached, clearRun, attempts>>

StepDegraded(checks) ==
    /\ state = "DEGRADED"
    /\ \/ /\ ~recoveryEnabled /\ Cleared(checks)
          /\ state' = "NORMAL" /\ ResetCounters
          /\ ApplyDegraded(FALSE)
          /\ grace' = Pass(GraceAfterRecovery)
          /\ UNCHANGED <<since, attempts, reinits>>
       \/ /\ ~recoveryEnabled /\ CountClear(checks)
          /\ NoAction
          /\ UNCHANGED <<since, attempts>>
       \/ /\ recoveryEnabled /\ Inc(since) >= DegradedRetry
          /\ KeepRuns(checks)
          /\ StartRecovery /\ reinits' = 1
          /\ UNCHANGED <<clearRun, speedLimited>>
       \/ /\ recoveryEnabled /\ Inc(since) < DegradedRetry
          /\ KeepRuns(checks)
          /\ since' = Inc(since)
          /\ NoAction
          /\ UNCHANGED <<state, clearRun, okRun, attempts>>
    /\ UNCHANGED attached

Step(checks) ==
    \/ StepNormal(checks) \/ StepSuspect(checks) \/ StepIsolated(checks)
    \/ StepRecovering(checks) \/ StepDegraded(checks)

\* The measurements of a period, used or not.
Outcome(checks) ==
    IF checks["gnss"] = "bad" THEN "mismatch"
    ELSE IF \A c \in CheckNames : checks[c] = "good" THEN "healthy" ELSE "mixed"

\* _on_timer: during a grace period every check is undecided
OnTimer(checks) ==
    /\ Step(IF grace > 0 THEN Unavailable ELSE checks)
    /\ last' = Outcome(checks) /\ even' = ~even
    /\ UNCHANGED recoveryEnabled

Next == \E checks \in [CheckNames -> Verdicts] : OnTimer(checks)

Spec == Init /\ [][Next]_vars

\* The timer keeps firing; every period changes even, so a period that leaves
\* the machine as it was counts too.
FairSpec == Spec /\ WF_vars(Next)

-----------------------------------------------------------------------------
(* Properties                                                              *)

\* The type invariant, with the bounds of the counters.
TypeOK ==
    /\ state \in States /\ attached \in BOOLEAN
    /\ run \in [RunChecks -> 0..Cap] /\ jumpSeen \in BOOLEAN
    /\ clearRun \in 0..Cap /\ okRun \in 0..Cap /\ since \in 0..Cap
    /\ attempts \in 0..MaxReinitAttempts /\ reinits \in 0..MaxReinitAttempts
    /\ grace \in Nat /\ speedLimited \in BOOLEAN
    /\ last \in {"mismatch", "healthy", "mixed"}
    /\ recoveryEnabled \in BOOLEAN /\ even \in BOOLEAN

\* AMCL is cut off exactly while a recovery is under way or has been given up:
\* no path through retries and give-ups leaves the machine in a working state
\* with AMCL cut off, and a supervisor that only monitors never cuts it off
\* (state_machine.py: attached and state are assigned separately).
DetachedWhileRecovering ==
    attached = ~(\/ state \in {"ISOLATED", "RECOVERING"}
                 \/ state = "DEGRADED" /\ recoveryEnabled)

\* A check that stays bad is acted on: its run never reaches the next threshold
\* without a change of state, whatever runs were left over from an earlier
\* suspicion or recovery (_reset_counters on every way back to NORMAL).
PersistentAnomalyIsActedOn ==
    /\ state = "NORMAL" => \A c \in RunChecks : run[c] < SuspectTicks[c]
    /\ state = "SUSPECT" => \A c \in RunChecks : run[c] < IsolateTicks[c]

\* AMCL is re-attached on confirmations collected after the latest
\* re-initialisation only: an attempt inherits none of an earlier one.
ConfirmationsAreFresh == state = "RECOVERING" => okRun <= since

\* DEGRADED is reported after exactly max_reinit_attempts re-initialisations,
\* and a retry from DEGRADED has as many again.
GivesUpAfterAllAttempts ==
    /\ state = "RECOVERING" => reinits \in 1..MaxReinitAttempts
    /\ (state = "DEGRADED" /\ recoveryEnabled) => reinits = MaxReinitAttempts

\* The speed limit of DEGRADED is in force there and through its retries, and
\* is lifted on every way back to normal driving (_apply_degraded).
SpeedLimitFollowsState ==
    /\ speedLimited => SlowOnDegraded /\ state \in {"DEGRADED", "RECOVERING"}
    /\ (SlowOnDegraded /\ state = "DEGRADED") => speedLimited

\* While GNSS keeps disagreeing with AMCL the machine comes to rest outside
\* NORMAL and SUSPECT: neither clearing nor recovery ever lets AMCL back in.
LastingMismatchIsHeld ==
    <>[](last = "mismatch") => <>[](state \notin {"NORMAL", "SUSPECT"})

\* When the measurements become and stay good, the machine is back in NORMAL
\* with AMCL attached, from wherever it was, DEGRADED and the grace period
\* after a recovery included.
HealthyRunRecovers ==
    <>[](last = "healthy") => <>[](state = "NORMAL" /\ attached /\ ~speedLimited)

\* A recovery is entered, counted, limited and left as one: AMCL is cut off
\* exactly while it lasts, DEGRADED comes after all its attempts and the speed
\* limit follows (state_machine.py assigns the three on separate paths).
RecoveryIsSound ==
    /\ DetachedWhileRecovering
    /\ GivesUpAfterAllAttempts
    /\ SpeedLimitFollowsState

\* Evidence is neither ignored nor reused: no check stays bad past its
\* threshold and no confirmation is older than what it confirms
\* (_reset_counters, _ok_run).
AnomaliesAreConfirmed == PersistentAnomalyIsActedOn /\ ConfirmationsAreFresh

=============================================================================
