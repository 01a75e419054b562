----------------------------- MODULE MCAmclGate -----------------------------
(* Instances of AmclGate; the bounds are numbers given in the .cfg files.    *)
EXTENDS AmclGate
=============================================================================
