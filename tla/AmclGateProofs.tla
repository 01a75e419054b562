--------------------------- MODULE AmclGateProofs ---------------------------
(***************************************************************************)
(* Theorems about AmclGate, for every value of its bounds.                 *)
(***************************************************************************)
EXTENDS AmclGate, TLAPS

\* Spending from a bound keeps the bounds well typed.
LEMMA SpendType ==
    ASSUME TypeOK, NEW kind \in Kinds, Spend(kind)
    PROVE  budget' \in [Kinds -> Nat]
BY DEF TypeOK, Spend, Kinds

\* What _reconcile does to the arbiter's variables is well typed.
LEMMA ReconcileType ==
    ASSUME TypeOK, NEW w \in [Requesters -> BOOLEAN], Reconcile(w)
    PROVE  /\ applied' \in {{}, {TRUE}, {FALSE}}
           /\ gateCall' \in Calls
           /\ gateWasReady' \in BOOLEAN
<1> DEFINE desired == \A r \in Requesters : w[r]
<1>1. desired \in BOOLEAN
  OBVIOUS
<1>2. [at |-> "request", want |-> desired] \in Calls
  BY <1>1 DEF Calls
<1> QED
  BY <1>2 DEF TypeOK, Reconcile

\* ... and so is what a request does to them.
LEMMA RequestType ==
    ASSUME TypeOK, NEW who \in Requesters, NEW attach \in BOOLEAN,
           Request(who, attach)
    PROVE  /\ wants' \in [Requesters -> BOOLEAN]
           /\ applied' \in {{}, {TRUE}, {FALSE}}
           /\ gateCall' \in Calls
           /\ gateWasReady' \in BOOLEAN
<1> DEFINE w == [wants EXCEPT ![who] = attach]
<1>1. w \in [Requesters -> BOOLEAN]
  BY DEF TypeOK
<1>2. wants' = w
  BY DEF Request
<1>3. Reconcile(w) \/ UNCHANGED <<applied, gateCall, gateWasReady>>
  BY DEF Request
<1> QED
  BY <1>1, <1>2, <1>3, ReconcileType DEF TypeOK

-----------------------------------------------------------------------------
\* Type correctness: every node's variables keep their types through every
\* callback, crash and restart (node.py and arbiter.py of the arbiter, node.py
\* of the supervisor).
THEOREM TypeCorrect == Spec => []TypeOK
<1>1. Init => TypeOK
  <2>1. Limits \in [Kinds -> Nat]
    BY AmclGateAssumption DEF Limits
  <2>2. Idle \in Calls
    BY DEF Idle, Calls
  <2>3. [r \in Requesters |-> TRUE] \in [Requesters -> BOOLEAN]
    OBVIOUS
  <2> QED
    BY <2>1, <2>2, <2>3 DEF Init, TypeOK
<1>2. TypeOK /\ [Next]_vars => TypeOK'
  <2> SUFFICES ASSUME TypeOK, [Next]_vars PROVE TypeOK'
    OBVIOUS
  <2>1. CASE SupervisorDecides
    BY <2>1, SpendType DEF SupervisorDecides, TypeOK, arbiterVars, gateVars, Kinds
  <2>2. CASE SupervisorTimer
    BY <2>2 DEF SupervisorTimer, TypeOK, Calls, arbiterVars, gateVars
  <2>3. CASE SupervisorDone
    BY <2>3 DEF SupervisorDone, TypeOK, Calls, Idle, arbiterVars, gateVars
  <2>4. CASE SupervisorRestart
    BY <2>4, SpendType DEF SupervisorRestart, TypeOK, Calls, Idle, arbiterVars, gateVars, Kinds
  <2>5. ASSUME NEW attach \in BOOLEAN, OnWaypointRequest(attach) PROVE TypeOK'
    <3>1. budget' \in [Kinds -> Nat]
      BY <2>5, SpendType DEF OnWaypointRequest, Kinds
    <3> QED
      BY <2>5, <3>1, RequestType DEF OnWaypointRequest, TypeOK, supervisorVars, gateVars, Requesters
  <2>6. CASE OnSupervisorRequest
    <3>1. supCall.want \in BOOLEAN
      BY DEF TypeOK, Calls
    <3>2. supCall' \in Calls
      BY <2>6 DEF OnSupervisorRequest, TypeOK, Calls
    <3> QED
      BY <2>6, <3>1, <3>2, RequestType DEF OnSupervisorRequest, TypeOK, gateVars, Requesters
  <2>7. CASE ArbiterTimer
    <3>1. wants \in [Requesters -> BOOLEAN]
      BY DEF TypeOK
    <3> QED
      BY <2>7, <3>1, ReconcileType DEF ArbiterTimer, TypeOK, supervisorVars, gateVars
  <2>8. CASE OnDone
    BY <2>8 DEF OnDone, TypeOK, Calls, Idle, supervisorVars, gateVars
  <2>9. CASE OnDoneFailed
    BY <2>9, SpendType DEF OnDoneFailed, TypeOK, Calls, Idle, supervisorVars, gateVars, Kinds
  <2>10. CASE ArbiterRestart
    BY <2>10, SpendType DEF ArbiterRestart, TypeOK, Calls, Idle, gateVars, Kinds
  <2>11. CASE ChangePublishState
    BY <2>11 DEF ChangePublishState, TypeOK, Calls, supervisorVars
  <2>12. CASE GateCrash
    BY <2>12, SpendType DEF GateCrash, TypeOK, Calls, supervisorVars, Kinds
  <2>13. CASE GateStart
    BY <2>13 DEF GateStart, TypeOK, arbiterVars, supervisorVars
  <2>14. CASE UNCHANGED vars
    BY <2>14 DEF TypeOK, vars, supervisorVars, arbiterVars, gateVars
  <2> QED
    BY <2>1, <2>2, <2>3, <2>4, <2>5, <2>6, <2>7, <2>8, <2>9, <2>10, <2>11,
       <2>12, <2>13, <2>14 DEF Next
<1> QED
  BY <1>1, <1>2, PTL DEF Spec

-----------------------------------------------------------------------------
(***************************************************************************)
(* The gate follows the arbiter.  SettledGateIsRight is not inductive: it  *)
(* says nothing of a call under way, of a belief that is not the present   *)
(* intent, nor of a gate that is gone.                                     *)
(***************************************************************************)

\* What the arbiter believes is so until a new call reaches the gate; what it
\* asked for is so once the gate answered; a call is open and a belief is held
\* only about a gate that has been seen and not lost since.
GateInv ==
    /\ \A v \in BOOLEAN :
         (applied = {v} /\ gateCall.at \in {"none", "request"}) => gateOpen = v
    /\ gateCall.at = "response" => gateOpen = gateCall.want
    /\ gateCall.at # "lost"
    /\ gateCall.at # "none" => gateUp /\ gateWasReady
    /\ applied # {} => gateWasReady

\* _reconcile keeps it: it only forgets, or opens a call to a gate that is up.
LEMMA ReconcileKeepsGateInv ==
    ASSUME TypeOK, GateInv, NEW w, Reconcile(w), UNCHANGED gateVars
    PROVE  GateInv'
<1> DEFINE desired == \A r \in Requesters : w[r]
           known == IF gateWasReady /\ ~gateUp THEN {} ELSE applied
<1>1. /\ gateWasReady' = gateUp /\ applied' = known
      /\ \/ gateCall' = gateCall
         \/ gateCall.at = "none" /\ gateUp /\ gateCall' = [at |-> "request", want |-> desired]
  BY DEF Reconcile
<1>2. CASE gateCall' = gateCall
  BY <1>1, <1>2 DEF GateInv, TypeOK, Calls, gateVars
<1>3. CASE gateCall.at = "none" /\ gateUp /\ gateCall' = [at |-> "request", want |-> desired]
  <2>1. gateCall'.at = "request"
    BY <1>3
  <2> QED
    BY <1>1, <1>3, <2>1 DEF GateInv, TypeOK, gateVars
<1> QED
  BY <1>1, <1>2, <1>3

\* ... and so does a request of either requester (_on_request).
LEMMA RequestKeepsGateInv ==
    ASSUME TypeOK, GateInv, NEW who, NEW attach, Request(who, attach), UNCHANGED gateVars
    PROVE  GateInv'
<1>1. Reconcile([wants EXCEPT ![who] = attach])
        \/ UNCHANGED <<applied, gateCall, gateWasReady>>
  BY DEF Request
<1> QED
  BY <1>1, ReconcileKeepsGateInv DEF GateInv, gateVars

\* With a gate that is not lost in the middle of a call, the gate is what the
\* requesters want together whenever the arbiter has settled: whatever requests
\* cross a call under way, and whatever crashes and restarts happen in between
\* (amcl_gate_arbiter: _on_request, _reconcile, _on_done).
THEOREM GateFollowsArbiter ==
    ASSUME CrashDuringCall = FALSE
    PROVE  Spec => []SettledGateIsRight
<1>1. Init => GateInv
  <2>1. Idle.at = "none"
    BY DEF Idle
  <2>2. \A v \in BOOLEAN : {} # {v}
    OBVIOUS
  <2> QED
    BY <2>1, <2>2 DEF Init, GateInv
<1>2. TypeOK /\ GateInv /\ [Next]_vars => GateInv'
  <2> SUFFICES ASSUME TypeOK, GateInv, [Next]_vars PROVE GateInv'
    OBVIOUS
  <2>1. CASE UNCHANGED arbiterVars /\ UNCHANGED gateVars
    BY <2>1 DEF GateInv, arbiterVars, gateVars
  <2>2. ASSUME NEW attach \in BOOLEAN, OnWaypointRequest(attach) PROVE GateInv'
    BY <2>2, RequestKeepsGateInv DEF OnWaypointRequest
  <2>3. CASE OnSupervisorRequest
    BY <2>3, RequestKeepsGateInv DEF OnSupervisorRequest
  <2>4. CASE ArbiterTimer
    BY <2>4, ReconcileKeepsGateInv DEF ArbiterTimer
  <2>5. CASE OnDone
    BY <2>5 DEF OnDone, GateInv, TypeOK, Calls, Idle, gateVars
  <2>6. CASE OnDoneFailed
    BY <2>6 DEF OnDoneFailed, GateInv, TypeOK, Calls, Idle, gateVars
  <2>7. CASE ArbiterRestart
    BY <2>7 DEF ArbiterRestart, GateInv, Idle, gateVars
  <2>8. CASE ChangePublishState
    BY <2>8 DEF ChangePublishState, GateInv, TypeOK, Calls
  <2>9. CASE GateCrash
    BY <2>9 DEF GateCrash, GateInv, TypeOK, Calls
  <2>10. CASE GateStart
    BY <2>10 DEF GateStart, GateInv, TypeOK, arbiterVars
  <2> QED
    BY <2>1, <2>2, <2>3, <2>4, <2>5, <2>6, <2>7, <2>8, <2>9, <2>10
    DEF Next, vars, SupervisorDecides, SupervisorTimer, SupervisorDone, SupervisorRestart
<1>3. TypeOK /\ GateInv => SettledGateIsRight
  <2>1. Desired \in BOOLEAN
    BY DEF Desired
  <2> QED
    BY <2>1 DEF GateInv, SettledGateIsRight, NeedsApply
<1> QED
  BY <1>1, <1>2, <1>3, TypeCorrect, PTL DEF Spec

-----------------------------------------------------------------------------
(* The arbiter follows the supervisor.                                     *)

\* The bounds on restarts are only spent: a restart cannot be undone.
BudgetInv ==
    /\ budget["supervisor"] \leq MaxSupervisorRestarts
    /\ budget["arbiter"] \leq MaxArbiterRestarts

\* Until then the arbiter holds what the supervisor believes, or what it is
\* being told.
SupervisorInv ==
    Unrestarted =>
        /\ supCall.at \in {"none", "request"} => wants["supervisor"] = supApplied
        /\ supCall.at = "response" => wants["supervisor"] = supCall.want
        /\ supCall.at # "lost"

\* A restart of either node leaves less of its bound than there was at first.
LEMMA RestartSpends ==
    ASSUME TypeOK, BudgetInv, NEW kind \in {"supervisor", "arbiter"}, Spend(kind)
    PROVE  BudgetInv' /\ ~Unrestarted'
<1>1. /\ budget'[kind] = budget[kind] - 1
      /\ \A k \in Kinds \ {kind} : budget'[k] = budget[k]
  BY DEF TypeOK, Kinds, Spend
<1>2. \A k \in Kinds : budget[k] \in Nat
  BY DEF TypeOK
<1> QED
  BY <1>1, <1>2, AmclGateAssumption DEF BudgetInv, Unrestarted, Kinds

\* As long as neither of the two nodes is restarted, the arbiter holds for the
\* supervisor what the supervisor believes whenever no call is under way,
\* whatever the state machine decided and the gate did meanwhile (_call_gate,
\* _on_gate_done).
THEOREM ArbiterFollowsSupervisor == Spec => []SettledSupervisorIsRight
<1>1. Init => BudgetInv /\ SupervisorInv
  BY AmclGateAssumption DEF Init, BudgetInv, SupervisorInv, Unrestarted, Idle, Requesters, Limits, Kinds
<1>2. TypeOK /\ BudgetInv /\ SupervisorInv /\ [Next]_vars => BudgetInv' /\ SupervisorInv'
  <2> SUFFICES ASSUME TypeOK, BudgetInv, SupervisorInv, [Next]_vars
               PROVE  BudgetInv' /\ SupervisorInv'
    OBVIOUS
  <2> USE AmclGateAssumption DEF TypeOK, BudgetInv, SupervisorInv, Unrestarted, Kinds, Requesters
  <2>1. CASE SupervisorDecides
    BY <2>1 DEF SupervisorDecides, Spend, arbiterVars
  <2>2. CASE SupervisorTimer
    BY <2>2 DEF SupervisorTimer, Calls, arbiterVars
  <2>3. CASE SupervisorDone
    BY <2>3 DEF SupervisorDone, Calls, Idle, arbiterVars
  <2>4. CASE SupervisorRestart
    BY <2>4, RestartSpends DEF SupervisorRestart
  <2>5. ASSUME NEW attach \in BOOLEAN, OnWaypointRequest(attach) PROVE BudgetInv' /\ SupervisorInv'
    BY <2>5 DEF OnWaypointRequest, Request, Spend, supervisorVars
  <2>6. CASE OnSupervisorRequest
    BY <2>6 DEF OnSupervisorRequest, Request, Calls
  <2>7. CASE ArbiterTimer
    BY <2>7 DEF ArbiterTimer, supervisorVars
  <2>8. CASE OnDone
    BY <2>8 DEF OnDone, supervisorVars
  <2>9. CASE OnDoneFailed
    BY <2>9 DEF OnDoneFailed, Spend, supervisorVars
  <2>10. CASE ArbiterRestart
    BY <2>10, RestartSpends DEF ArbiterRestart
  <2>11. CASE ChangePublishState
    BY <2>11 DEF ChangePublishState, supervisorVars
  <2>12. CASE GateCrash
    BY <2>12 DEF GateCrash, Spend, supervisorVars
  <2>13. CASE GateStart
    BY <2>13 DEF GateStart, arbiterVars, supervisorVars
  <2>14. CASE UNCHANGED vars
    BY <2>14 DEF vars, supervisorVars, arbiterVars
  <2> QED
    BY <2>1, <2>2, <2>3, <2>4, <2>5, <2>6, <2>7, <2>8, <2>9, <2>10, <2>11,
       <2>12, <2>13, <2>14 DEF Next
<1>3. SupervisorInv => SettledSupervisorIsRight
  BY DEF SupervisorInv, SettledSupervisorIsRight
<1> QED
  BY <1>1, <1>2, <1>3, TypeCorrect, PTL DEF Spec

\* The three nodes agree whenever nothing is under way, if no gate is lost in
\* the middle of a call.
THEOREM NodesAgree ==
    ASSUME CrashDuringCall = FALSE
    PROVE  Spec => []SettledIsRight
<1>1. TypeOK /\ SettledGateIsRight /\ SettledSupervisorIsRight => SettledIsRight
  BY DEF SettledIsRight
<1>2. Spec => []SettledGateIsRight
  BY GateFollowsArbiter
<1> QED
  BY <1>1, <1>2, TypeCorrect, ArbiterFollowsSupervisor, PTL

=============================================================================
