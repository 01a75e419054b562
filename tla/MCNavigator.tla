----------------------------- MODULE MCNavigator -----------------------------
(* WaypointNavigator under an arbitrary caller: two behaviour trees, three   *)
(* logical goals.                                                            *)
EXTENDS NavigatorCaller
=============================================================================
