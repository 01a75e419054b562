------------------------------- MODULE MCNav2 -------------------------------
(***************************************************************************)
(* The C++ navigation stack in small: the costmap, its denoise layer and   *)
(* filters, the waiting behaviour's conditions, the collision monitor and  *)
(* the transform buffer.  They work on data of their own, so a behaviour   *)
(* runs one of them and leaves the others as they began.                   *)
(***************************************************************************)
EXTENDS Costmap, DenoiseLayer, CostmapFilters, PathClearance, CollisionMonitor, TfBuffer

CONSTANTS Parts,
          MaxCostmapEvents,     \* what happens to the costmap between its updates
          MaxClearanceEvents    \* what happens to the conditions besides ticks and maps
ASSUME Nav2Assumption ==
    /\ Parts \subseteq {"costmap", "denoise", "filters", "clearance", "monitor", "tf"}
    /\ MaxCostmapEvents \in Nat /\ MaxClearanceEvents \in Nat

VARIABLES runs,      \* the part this behaviour is about
          events     \* the events so far

vars == <<runs, events, costmapVars, denoiseVars, filterVars, clearanceVars, monitorVars, tfVars>>

-----------------------------------------------------------------------------
(* The costmap: a row of five cells, a world of four places, two maps.     *)
WorldTable == {0, 2, 3, 5}
MapTable == {[origin |-> 0, grid |-> [c \in Cells |-> IF c = 2 THEN Lethal ELSE FreeSpace]],
             [origin |-> 1, grid |-> [c \in Cells |-> IF c = 0 THEN NoInformation ELSE FreeSpace]]}

(* Every window of these sizes and costs.                                  *)
Win(r, c, costs) == {[rows |-> r, cols |-> c, pix |-> p] : p \in [0..(r * c - 1) -> costs]}
WindowTable ==
    Win(3, 3, {0, 254}) \cup Win(2, 2, {0, 100, 253, 254, 255}) \cup Win(1, 4, {0, 253})
      \cup Win(4, 1, {0, 254, 255}) \cup Win(2, 4, {0, 254})

(* Filters: a mask over the costmap's start, one beside it and a coarse    *)
(* one; a limit of 50 percent and one of 50.                               *)
InfoTable == {[type |-> "percent", base |-> 100, mult |-> -1, topic |-> "a"],
              [type |-> "absolute", base |-> 0, mult |-> 1, topic |-> "b"],
              [type |-> "binary", base |-> 0, mult |-> 1, topic |-> "a"]}
MaskTable == {[origin |-> -2, half |-> 1, frame |-> "global", cells |-> <<0, 100, -1>>],
              [origin |-> 5, half |-> 1, frame |-> "mask", cells |-> <<50, 0>>],
              [origin |-> 0, half |-> 2, frame |-> "global", cells |-> <<100, 60>>]}
MasterTable == [origin |-> 0, half |-> 1, size |-> 4]
BeneathTable == {[c \in 0..3 |-> <<0, 100, 254, 255>>[c + 1]]}
AreaTable == {<<0, 4>>, <<1, 3>>}

(* Conditions: a row of seven cells, a path that passes an obstacle.       *)
Row7(marks) == [c \in 0..6 |-> IF c \in DOMAIN marks THEN marks[c] ELSE 0]
ObstacleAhead == Row7([c \in {5} |-> 254])
CostMapTable == {Row7(<<>>), ObstacleAhead, Row7([c \in {4, 5} |-> IF c = 4 THEN 255 ELSE 254]),
                 Row7([c \in {0} |-> 254])}
PathTable == {<<1, 3, 6>>, <<2, 1, 0>>}
RobotTable == [at |-> 2, heading |-> 1]
OutlineTable == <<1, 0, -1>>
ServerTable == {[set |-> FALSE, detect |-> TRUE, track |-> FALSE],
                [set |-> TRUE, detect |-> TRUE, track |-> TRUE]}

(* The collision monitor: a stop box, a slowdown circle, a limit box, an   *)
(* approach polygon, a zone received on a topic.                           *)
Box(x1, y1, x2, y2) == <<<<x2, y2>>, <<x2, y1>>, <<x1, y1>>, <<x1, y2>>>>
Params(action, shape, verts) ==
    [action |-> action, shape |-> shape, verts |-> verts, enabled |-> TRUE, minPoints |-> 1,
     radius |-> 4, num |-> 1, den |-> 2, linear |-> 1, angular |-> 0, steps |-> 2]
PolygonTable ==
    [stop |-> Params("stop", "points", Box(1, -1, 3, 1)),
     slow |-> Params("slowdown", "circle", <<>>),
     limit |-> [Params("limit", "points", Box(-1, -2, 6, 2)) EXCEPT !.minPoints = 2],
     zone |-> Params("stop", "topic", <<>>),
     near |-> Params("approach", "points", Box(-1, -1, 1, 1)),
     foot |-> [Params("approach", "footprint", <<>>) EXCEPT !.enabled = FALSE],
     bad |-> Params("stop", "points", <<<<0, 0>>, <<1, 1>>>>)]
Config(list, s) == [list |-> list, sources |-> s]
ConfigTable ==
    {Config(<<"slow", "stop">>, {"scan"}), Config(<<"near", "limit">>, {"scan"}),
     Config(<<"zone">>, {"scan"}), Config(<<"foot">>, {"scan"}), Config(<<"limit", "bad">>, {"scan"}),
     Config(<<"stop">>, {"cloud"}), Config(<<"slow">>, {"sonar"})}
SourceTable == [scan |-> [type |-> "scan", enabled |-> TRUE, stop |-> TRUE],
                cloud |-> [type |-> "pointcloud", enabled |-> TRUE, stop |-> FALSE],
                sonar |-> [type |-> "range", enabled |-> TRUE, stop |-> FALSE]]
Beam(x, y, ok, z) == [p |-> <<x, y>>, ok |-> ok, z |-> z]
SourceMessageTable == {<<Beam(3, 0, TRUE, 1), Beam(5, 1, TRUE, 9), Beam(0, 7, TRUE, 1)>>, <<Beam(2, 0, FALSE, 1)>>}
ZoneTable == {Box(2, -1, 4, 1)}
CmdTable == {[x |-> 3, y |-> 4, tw |-> 1]}

(* Transforms: base moves from odom to map half way, laser is mounted on   *)
(* base by a static transform, odom drifts in map.                         *)
Tfm(c, p, t, s, v) == [child |-> c, parent |-> p, stamp |-> t, s |-> s, v |-> v, static |-> FALSE]
MessageTable ==
    {Tfm("odom", "map", 2, -1, 4), Tfm("odom", "map", 4, -1, 6), Tfm("odom", "map", 7, -1, 8),
     Tfm("base", "odom", 2, -1, 2), Tfm("base", "map", 4, 1, 3),
     [Tfm("laser", "base", 1, -1, 1) EXCEPT !.static = TRUE]}
Req(t, s, at) == [target |-> t, source |-> s, time |-> at]
RequestTable == {Req("map", "laser", 4), Req("odom", "base", 2)}
TimeTable == {0, 2, 3, 4}

(* Nothing tells one publisher from the other.                             *)
PublisherSymmetry == Permutations(Publishers)

-----------------------------------------------------------------------------
Init ==
    /\ runs \in Parts /\ events = 0
    /\ CostmapInit /\ (runs # "costmap" => rolling)
    /\ DenoiseInit /\ (runs # "denoise" => way = 4 /\ least = 1 /\ on /\ solid /\ wide)
    /\ FiltersInit /\ (runs # "filters" => filter = "speed")
    /\ ClearanceInit
    /\ runs # "clearance" => condition = "IsPathClear" /\ plan.path = <<2, 1, 0>>
    /\ MonitorInit
    /\ TfInit

\* An event costs the budget, the work between the events does not.
Within(work, event, most) ==
    \/ work /\ UNCHANGED events
    \/ events < most /\ event /\ events' = events + 1

CostmapNext == Within(CostmapStep, CostmapEvent, MaxCostmapEvents)

ClearanceWork ==
    \/ Ticks(TRUE)
    \/ AnswerController
    \/ AnswerCostmap
    \/ CommitPath
    \/ mon.seq < 3 /\ \E m \in {Row7(<<>>), ObstacleAhead} : PublishCostmap(m)

ClearanceEvent ==
    \/ \E p \in PathTable : NewPlan(p[3], p)
    \/ \E s \in ServerTable : SetServer(s)
    \/ now + 2 <= ClockEnd /\ Elapse(2)
    \/ LoseAnswer
    \/ Ticks(FALSE)

ClearanceNext == Within(ClearanceWork, ClearanceEvent, MaxClearanceEvents)

\* The operator changes a parameter after the first configuration, and may then
\* configure the node again with polygons it had.
MonitorStep ==
    /\ MonitorNext
    /\ node'.changes # node.changes => node.ops = 1
    /\ node.changes # 0 => DOMAIN params'.zones = DOMAIN params.zones

Next ==
    \/ runs = "costmap" /\ CostmapNext
       /\ UNCHANGED <<runs, denoiseVars, filterVars, clearanceVars, monitorVars, tfVars>>
    \/ runs = "denoise" /\ DenoiseNext
       /\ UNCHANGED <<runs, events, costmapVars, filterVars, clearanceVars, monitorVars, tfVars>>
    \/ runs = "filters" /\ FiltersNext
       /\ UNCHANGED <<runs, events, costmapVars, denoiseVars, clearanceVars, monitorVars, tfVars>>
    \/ runs = "clearance" /\ ClearanceNext
       /\ UNCHANGED <<runs, costmapVars, denoiseVars, filterVars, monitorVars, tfVars>>
    \/ runs = "monitor" /\ MonitorStep
       /\ UNCHANGED <<runs, events, costmapVars, denoiseVars, filterVars, clearanceVars, tfVars>>
    \/ runs = "tf" /\ TfNext
       /\ UNCHANGED <<runs, events, costmapVars, denoiseVars, filterVars, clearanceVars, monitorVars>>

Spec == Init /\ [][Next]_vars
=============================================================================
