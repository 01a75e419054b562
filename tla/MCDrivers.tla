------------------------------ MODULE MCDrivers ------------------------------
(***************************************************************************)
(* The C++ nodes around navigation: the serial drivers, the obstacle       *)
(* detector and the waypoint follower.  They share no state, so a          *)
(* behaviour runs one of them and leaves the others as they began.  The    *)
(* follower's stop_on_failure is set before its first list only.           *)
(***************************************************************************)
EXTENDS SerialDrivers, ObstacleDetector, FollowWaypoints

CONSTANT Parts
ASSUME PartsAssumption == Parts \subseteq {"serial", "detector", "follower"}

VARIABLE runs       \* the part this behaviour is about

vars == <<runs, driverVars, detectorVars, followVars>>

TwistTable == {[v |-> 900, w |-> -2000], [v |-> -300, w |-> 500]}
ReadingTable == {[x |-> 0, y |-> 0, th |-> 0], [x |-> -70000, y |-> 300, th |-> 62831]}
GarbageTable == {[x |-> 12345, y |-> -1, th |-> 0]}
TamperTable == {Clean, [keep |-> 3, at |-> 0], [keep |-> 99, at |-> 1], [keep |-> 99, at |-> 4]}

Pt(x, y, z) == [x |-> x, y |-> y, z |-> z]
Stack(x, y) == <<Pt(x, y, 0), Pt(x, y, 1), Pt(x, y, 4), Pt(x, y, 5)>>
Flat(x, y) == <<Pt(x, y, 0), Pt(x, y, 1), Pt(x, y, 1), Pt(x, y, 9)>>
CloudTable ==
    { <<>>, Flat(0, 0) \o <<NoPoint>>, Stack(0, 0), Stack(0, 0) \o Stack(2, 0),
      Stack(0, 0) \o Stack(2, 2) \o Stack(6, 0), Stack(6, 2) \o Stack(4, 0) \o Flat(0, 2),
      Flat(2, 0) \o Stack(0, 2), Stack(9, 0) \o <<Pt(1, 1, 30)>> }

Init ==
    /\ runs \in Parts
    /\ DriverInit /\ (runs # "serial" => kind = "motor" /\ ~dev.present /\ ~dev.answers)
    /\ DetectorInit
    /\ FollowInit

Next ==
    \/ runs = "serial" /\ DriverNext /\ UNCHANGED <<runs, detectorVars, followVars>>
    \/ runs = "detector" /\ DetectorNext /\ UNCHANGED <<runs, driverVars, followVars>>
    \/ runs = "follower" /\ FollowNext /\ UNCHANGED <<runs, driverVars, detectorVars>>
       /\ (stopOnFailure' # stopOnFailure => srv.requests = 0)

\* The drivers' timers keep firing (rclcpp wall timers).
Spec == Init /\ [][Next]_vars /\ (runs = "serial" => DriverFairness)
=============================================================================
