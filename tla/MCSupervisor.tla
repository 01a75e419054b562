---------------------------- MODULE MCSupervisor ----------------------------
(* Instances of SupervisorMachine: every threshold is small, in the order    *)
(* the defaults have (GNSS is trusted sooner than scan and difference).      *)
EXTENDS SupervisorMachine

Suspect == [c \in RunChecks |-> IF c = "gnss" THEN 1 ELSE 2]
Isolate == [c \in RunChecks |-> IF c = "gnss" THEN 2 ELSE 3]
=============================================================================
