------------------------------ MODULE AmclGate ------------------------------
(***************************************************************************)
(* The gate that lets AMCL's pose into the EKF, and who decides on it:     *)
(*   - the gate node (generic_publish_controller_node), open when started; *)
(*   - the arbiter (amcl_gate_arbiter), which opens the gate only when     *)
(*     every requester agrees and realigns it periodically;                *)
(*   - the supervisor's side of it (localization_supervisor/node.py): the  *)
(*     state machine's attached flag is sent to the arbiter until it       *)
(*     answers;                                                            *)
(*   - the waypoint actions (and the web UI) as the other requester.       *)
(* Each node runs its callbacks one at a time, so each callback is one     *)
(* action.  A service call is in transit as a request, then as a response; *)
(* a call whose server died before it answered is lost, and its future     *)
(* never completes.                                                        *)
(***************************************************************************)
EXTENDS Naturals

CONSTANTS MaxChanges,           \* bound on the changes of mind of the requesters
          MaxGateCrashes,       \* bound on the crashes of the gate node
          MaxSupervisorRestarts, \* bound on the restarts of the supervisor
          MaxArbiterRestarts,   \* bound on the restarts of the arbiter
          MaxFailures,          \* bound on unsuccessful answers of the gate
          CrashDuringCall       \* may the gate crash while a call to it is open?

ASSUME AmclGateAssumption ==
    /\ MaxChanges \in Nat /\ MaxGateCrashes \in Nat /\ MaxFailures \in Nat
    /\ MaxSupervisorRestarts \in Nat /\ MaxArbiterRestarts \in Nat
    /\ CrashDuringCall \in BOOLEAN

VARIABLES
    supAttached,    \* the state machine's attached
    supApplied,     \* _applied_attach
    supCall,        \* call to the arbiter, with _gate_pending = (supCall.at # "none")
    wants,          \* GateArbiter._wants
    applied,        \* GateArbiter._applied: {} for None, or {value}
    gateCall,       \* call to the gate, with _pending = (gateCall.at # "none")
    gateWasReady,
    gateUp, gateOpen,
    budget          \* what is left of the bounds

supervisorVars == <<supAttached, supApplied, supCall>>
arbiterVars == <<wants, applied, gateCall, gateWasReady>>
gateVars == <<gateUp, gateOpen>>
vars == <<supervisorVars, arbiterVars, gateVars, budget>>

Requesters == {"waypoint", "supervisor"}
Idle == [at |-> "none", want |-> TRUE]
Calls == [at : {"none", "request", "response", "lost"}, want : BOOLEAN]
Kinds == {"change", "gate", "supervisor", "arbiter", "failure"}

Desired == \A r \in Requesters : wants[r]
NeedsApply == applied # {Desired}

Limits ==
    [k \in Kinds |-> IF k = "change" THEN MaxChanges
                     ELSE IF k = "gate" THEN MaxGateCrashes
                     ELSE IF k = "supervisor" THEN MaxSupervisorRestarts
                     ELSE IF k = "arbiter" THEN MaxArbiterRestarts
                     ELSE MaxFailures]
Spend(kind) == budget[kind] > 0 /\ budget' = [budget EXCEPT ![kind] = @ - 1]

Init ==
    /\ supAttached = TRUE /\ supApplied = TRUE /\ supCall = Idle
    /\ wants = [r \in Requesters |-> TRUE]
    /\ applied = {} /\ gateCall = Idle /\ gateWasReady = FALSE
    /\ gateUp \in BOOLEAN /\ gateOpen = TRUE
    /\ budget = Limits

-----------------------------------------------------------------------------
(* The supervisor.                                                         *)

\* the state machine isolates or re-attaches AMCL (SupervisorMachine)
SupervisorDecides ==
    /\ Spend("change")
    /\ supAttached' = ~supAttached
    /\ UNCHANGED <<supApplied, supCall, arbiterVars, gateVars>>

\* the end of _on_timer with _call_gate
SupervisorTimer ==
    /\ supApplied # supAttached
    /\ supCall.at = "none"
    /\ supCall' = [at |-> "request", want |-> supAttached]
    /\ UNCHANGED <<supAttached, supApplied, arbiterVars, gateVars, budget>>

\* mutated form: what is wanted now is taken for what was applied
SupervisorDoneLatest ==
    /\ supCall.at = "response"
    /\ supApplied' = supAttached
    /\ supCall' = Idle
    /\ UNCHANGED <<supAttached, arbiterVars, gateVars, budget>>

\* _on_gate_done; the arbiter always answers success
SupervisorDone ==
    /\ supCall.at = "response"
    /\ supApplied' = supCall.want
    /\ supCall' = Idle
    /\ UNCHANGED <<supAttached, arbiterVars, gateVars, budget>>

SupervisorRestart ==
    /\ Spend("supervisor")
    /\ supAttached' = TRUE /\ supApplied' = TRUE /\ supCall' = Idle
    /\ UNCHANGED <<arbiterVars, gateVars>>

-----------------------------------------------------------------------------
(* The arbiter.                                                            *)

\* _reconcile, for the intents w
Reconcile(w) ==
    LET desired == \A r \in Requesters : w[r]
        known == IF gateWasReady /\ ~gateUp THEN {} ELSE applied
    IN  /\ gateWasReady' = gateUp
        /\ applied' = known
        /\ gateCall' = IF gateCall.at = "none" /\ gateUp /\ known # {desired}
                       THEN [at |-> "request", want |-> desired]
                       ELSE gateCall

\* _on_request: a change of the overall intent is applied at once
Request(who, attach) ==
    LET w == [wants EXCEPT ![who] = attach]
    IN  /\ wants' = w
        /\ IF (\A r \in Requesters : w[r]) # Desired
           THEN Reconcile(w)
           ELSE UNCHANGED <<applied, gateCall, gateWasReady>>

OnWaypointRequest(attach) ==
    /\ attach # wants["waypoint"]
    /\ Spend("change")
    /\ Request("waypoint", attach)
    /\ UNCHANGED <<supervisorVars, gateVars>>

OnSupervisorRequest ==
    /\ supCall.at = "request"
    /\ Request("supervisor", supCall.want)
    /\ supCall' = [at |-> "response", want |-> supCall.want]
    /\ UNCHANGED <<supAttached, supApplied, gateVars, budget>>

ArbiterTimer ==
    /\ Reconcile(wants)
    /\ UNCHANGED <<wants, supervisorVars, gateVars, budget>>

\* mutated form: the intent of now is taken for the one applied
OnDoneLatest ==
    /\ gateCall.at = "response"
    /\ gateCall' = Idle
    /\ applied' = {Desired}
    /\ UNCHANGED <<wants, gateWasReady, supervisorVars, gateVars, budget>>

\* mutated form: a failed call stays pending
OnDoneFailedKeepsPending ==
    /\ Spend("failure")
    /\ gateCall.at = "request"
    /\ gateCall' = [at |-> "lost", want |-> gateCall.want]
    /\ UNCHANGED <<wants, applied, gateWasReady, supervisorVars, gateVars>>

\* _on_done with a successful answer, and with an unsuccessful one
OnDone ==
    /\ gateCall.at = "response"
    /\ gateCall' = Idle
    /\ applied' = {gateCall.want}
    /\ UNCHANGED <<wants, gateWasReady, supervisorVars, gateVars, budget>>

OnDoneFailed ==
    /\ Spend("failure")
    /\ gateCall.at = "request"
    /\ gateCall' = Idle
    /\ UNCHANGED <<wants, applied, gateWasReady, supervisorVars, gateVars>>

\* A supervisor's call the old process had not answered is lost with it.  A
\* request of the old process to the gate is handled before the new one is up
\* (ChangePublishState before this step) or not at all.
ArbiterRestart ==
    /\ Spend("arbiter")
    /\ wants' = [r \in Requesters |-> TRUE]
    /\ applied' = {} /\ gateCall' = Idle /\ gateWasReady' = FALSE
    /\ supCall' = IF supCall.at = "request" THEN [at |-> "lost", want |-> supCall.want]
                  ELSE supCall
    /\ UNCHANGED <<supAttached, supApplied, gateVars>>

-----------------------------------------------------------------------------
(* The gate node.                                                          *)

ChangePublishState ==
    /\ gateUp /\ gateCall.at = "request"
    /\ gateOpen' = gateCall.want
    /\ gateCall' = [at |-> "response", want |-> gateCall.want]
    /\ UNCHANGED <<wants, applied, gateWasReady, supervisorVars, gateUp, budget>>

\* A request the node had not handled dies with it; an answer already sent
\* still arrives.
GateCrash ==
    /\ Spend("gate")
    /\ CrashDuringCall \/ gateCall.at = "none"
    /\ gateUp /\ gateUp' = FALSE
    /\ gateCall' = IF gateCall.at = "request" THEN [at |-> "lost", want |-> gateCall.want]
                   ELSE gateCall
    /\ UNCHANGED <<wants, applied, gateWasReady, supervisorVars, gateOpen>>

\* The node comes back open, after the arbiter's timer has seen it gone (a
\* shorter absence is a documented limit of the arbiter).
GateStart ==
    /\ ~gateUp /\ ~gateWasReady
    /\ gateUp' = TRUE /\ gateOpen' = TRUE
    /\ UNCHANGED <<arbiterVars, supervisorVars, budget>>

-----------------------------------------------------------------------------
Next ==
    \/ SupervisorDecides \/ SupervisorTimer \/ SupervisorDone \/ SupervisorRestart
    \/ \E attach \in BOOLEAN : OnWaypointRequest(attach)
    \/ OnSupervisorRequest \/ ArbiterTimer \/ OnDone \/ OnDoneFailed \/ ArbiterRestart
    \/ ChangePublishState \/ GateCrash \/ GateStart

Spec == Init /\ [][Next]_vars

\* Timers keep firing, calls are handled, the gate node is (re)started.
Fairness ==
    /\ WF_vars(SupervisorTimer) /\ WF_vars(SupervisorDone)
    /\ WF_vars(OnSupervisorRequest) /\ WF_vars(ArbiterTimer) /\ WF_vars(OnDone)
    /\ WF_vars(ChangePublishState) /\ WF_vars(GateStart)

FairSpec == Spec /\ Fairness

-----------------------------------------------------------------------------
(* Properties                                                              *)

\* The type invariant: what the three nodes keep, and the calls between them.
TypeOK ==
    /\ supAttached \in BOOLEAN /\ supApplied \in BOOLEAN /\ supCall \in Calls
    /\ wants \in [Requesters -> BOOLEAN]
    /\ applied \in {{}, {TRUE}, {FALSE}}
    /\ gateCall \in Calls /\ gateWasReady \in BOOLEAN
    /\ gateUp \in BOOLEAN /\ gateOpen \in BOOLEAN
    /\ budget \in [Kinds -> Nat]

\* When no call is under way and the arbiter has nothing to apply, the gate is
\* what the requesters want together: neither of them overrides the other, and
\* requests that crossed an application in progress are not forgotten.
SettledGateIsRight ==
    (gateCall.at = "none" /\ ~NeedsApply) => gateOpen = Desired

\* neither of the two nodes that keep the supervisor's intent was restarted
Unrestarted ==
    /\ budget["supervisor"] = MaxSupervisorRestarts
    /\ budget["arbiter"] = MaxArbiterRestarts

\* Likewise between the supervisor and the arbiter, until one of the two is
\* restarted: with no call under way the arbiter holds for the supervisor
\* exactly what the supervisor believes (_on_gate_done).
SettledSupervisorIsRight ==
    (Unrestarted /\ supCall.at = "none") => wants["supervisor"] = supApplied

\* Once the requesters stop changing their minds, the gate is and stays what
\* they want together (the arbiter's timer realigns it until it is).
GateConverges == <>[](gateUp /\ gateOpen = Desired)

\* The supervisor's decision reaches the arbiter and stays there (_on_timer
\* calls until the arbiter has answered).
SupervisorIsHeard == <>[](wants["supervisor"] = supAttached)

\* Unless one of the two nodes is restarted, whatever the gate does meanwhile.
HeardUnlessRestarted == []Unrestarted => SupervisorIsHeard

\* The three nodes agree whenever nothing is under way: the gate with the
\* arbiter (_on_done, _reconcile), the arbiter with the supervisor
\* (_on_gate_done), and each keeps its types.
SettledIsRight == TypeOK /\ SettledGateIsRight /\ SettledSupervisorIsRight

=============================================================================
