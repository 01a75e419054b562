-------------------------- MODULE CollisionMonitor --------------------------
(***************************************************************************)
(* nav2_collision_monitor as this repository builds it (with the            *)
(* stop_on_timeout option it adds): the last gate a velocity command passes *)
(* before the motors.  One executor thread runs every callback, so each     *)
(* callback is one step.  Coordinates are integers, rotations are quarter   *)
(* turns, and velocities are multiples of 1/Scale; the robot's own motion,  *)
(* the obstacles and the transform tree are the environment.                *)
(***************************************************************************)
EXTENDS Integers, Sequences, FiniteSets, SequencesExt

CONSTANTS
  PolygonParams,  \* polygon name -> its parameters
  Configs,        \* the values of "polygons" (a list) and "observation_sources" explored
  SourceParams,   \* source name -> [type, enabled, stop]
  Cmds,           \* commands on cmd_vel_in, [x, y, tw], tw in quarter turns per
                  \* simulation step
  SourceMessages,       \* sensor readings: obstacles in the odometry frame with what filters them
  ZoneMsgs,       \* polygon messages: vertices in the odometry frame
  SourceTimeout, StopPubTimeout,
  MinHeight, MaxHeight,
  Scale,          \* a multiple of every denominator a velocity is scaled by
  MaxTime,        \* bound: the clock
  MaxOps,         \* bound: configurations by the operator
  MaxChanges,     \* bound: parameters set by the operator
  NoData

\* hypot(x, y) of a command
Speed(v) == CHOOSE s \in 0 .. (v.x * v.x + v.y * v.y) : s * s = v.x * v.x + v.y * v.y

\* times before a collision are at least one simulation step, ratios are numbers;
\* the speed of a command is one too
ASSUME MonitorAssumption ==
  /\ Scale \in Nat \ {0}
  /\ Cmds \subseteq [x : Int, y : Int, tw : Int]
  /\ \A c \in Cmds : \E s \in 0 .. (c.x * c.x + c.y * c.y) : s * s = c.x * c.x + c.y * c.y
  /\ \A n \in DOMAIN PolygonParams :
       /\ PolygonParams[n].num \in Int /\ PolygonParams[n].den \in Nat \ {0}
       /\ PolygonParams[n].linear \in Int /\ PolygonParams[n].angular \in Nat
       /\ PolygonParams[n].steps \in Nat \ {0} /\ PolygonParams[n].enabled \in BOOLEAN
       /\ PolygonParams[n].shape = "footprint" => PolygonParams[n].action = "approach"
  /\ \A c \in Configs : c.list \in Seq(DOMAIN PolygonParams)

VARIABLES
  node,       \* lifecycle state of the node, and the operator's actions so far
  params,     \* the switches among the ROS parameters declared so far: zones
              \* (polygon name -> enabled) and sources (name -> [enabled, stop])
  polygons,   \* polygons_: name, enabled_, poly_ (vertices and frame offset), polygon_
  sources,    \* sources_: name -> enabled_, stop_on_timeout_, data_
  footprint,  \* the last message of the footprint topic, with the pose it was sent at
  prev,       \* robot_action_prev_ and stop_stamp_
  output,        \* the last velocity published to the motors
  state,      \* the last collision_monitor_state published
  world       \* the clock and where the robot is in the odometry frame

monitorVars == <<node, params, polygons, sources, footprint, prev, output, state, world>>

Standstill == [x |-> 0, y |-> 0, tw |-> 0]
Mul(v, n, d) == [x |-> (v.x * n) \div d, y |-> (v.y * n) \div d, tw |-> (v.tw * n) \div d]

----------------------------------------------------------------------------
(* Velocity: the order is that of the squared norm.                         *)

Norm(v) == v.x * v.x + v.y * v.y + v.tw * v.tw

\* mutated form: the comparison of the speeds is turned around
SlowerSwapped(v, w) == Norm(v) > Norm(w)

Slower(v, w) == Norm(v) < Norm(w)

\* a quarter turn is exact: [cos, sin]
Turn(q) == CASE q % 4 = 0 -> <<1, 0>> [] q % 4 = 1 -> <<0, 1>>
             [] q % 4 = 2 -> <<-1, 0>> [] OTHER -> <<0, -1>>

\* transformPoints(): a point seen from the simulated pose
TransformPoint(pose, p) ==
  LET c == Turn(pose.th)[1]  s == Turn(pose.th)[2]
      mx == p[1] - pose.x    my == p[2] - pose.y
  IN <<mx * c + my * s, my * c - mx * s>>

\* projectState(): one simulation step; the velocity turns with the robot
ProjectState(ps) ==
  LET c == Turn(ps.v.tw)[1]  s == Turn(ps.v.tw)[2] IN
  [pose |-> [x |-> ps.pose.x + ps.v.x, y |-> ps.pose.y + ps.v.y, th |-> ps.pose.th + ps.v.tw],
   v |-> [x |-> ps.v.x * c - ps.v.y * s, y |-> ps.v.x * s + ps.v.y * c, tw |-> ps.v.tw]]

----------------------------------------------------------------------------
(* Polygon and Circle.                                                      *)

\* isPointInside(): parity of the edges crossed by the ray in +x direction
IsPointInside(verts, p) ==
  LET n == Len(verts)
      Crossed(j) ==
        LET a == verts[IF j = 1 THEN n ELSE j - 1]  b == verts[j]
            dy == b[2] - a[2]
        IN /\ (p[2] <= a[2]) = (p[2] > b[2])
           \* x_inter > p.x, without the division by dy
           /\ LET lhs == (a[1] - p[1]) * dy + (p[2] - a[2]) * (b[1] - a[1])
              IN IF dy > 0 THEN lhs > 0 ELSE lhs < 0
  IN Cardinality({j \in 1 .. n : Crossed(j)}) % 2 = 1

\* Circle::getPointsInside()
IsInCircle(r, p) == p[1] * p[1] + p[2] * p[2] < r * r

\* poly_ in the base frame: the vertices moved by the offset last applied
Vertices(pg) == [i \in DOMAIN pg.verts |-> <<pg.verts[i][1] + pg.offset, pg.verts[i][2]>>]

Inside(pg, p) ==
  IF pg.par.shape = "circle" THEN IsInCircle(pg.par.radius, p) ELSE IsPointInside(Vertices(pg), p)

PointsInside(pg, pts) == Cardinality({i \in DOMAIN pts : Inside(pg, pts[i])})

\* isShapeSet(): always for a circle, otherwise once there are vertices
IsShapeSet(pg) == pg.par.shape = "circle" \/ pg.verts # <<>>

\* getCollisionTime(): the first simulated step with enough points inside, or -1
CollisionTime(pg, pts, cmd) ==
  LET sim[k \in 0 .. pg.par.steps + 1] ==
        IF k = 0 THEN [pose |-> [x |-> 0, y |-> 0, th |-> 0], v |-> cmd]
        ELSE ProjectState(sim[k - 1])
      hits == {k \in 0 .. pg.par.steps :
                 PointsInside(pg, [i \in DOMAIN pts |-> TransformPoint(sim[k + 1].pose, pts[i])])
                   >= pg.par.minPoints}
  IN IF hits = {} THEN -1 ELSE CHOOSE k \in hits : \A m \in hits : k <= m

\* getFootprintInRobotFrame() fills the vertices before it looks for the pose,
\* and updatePolygon() uses them whatever it returns: without a transform the
\* vertices stay in the odometry frame
FootprintUpdate(pg, tf) ==
  IF footprint = NoData THEN [pg EXCEPT !.verts = <<>>]
  ELSE [pg EXCEPT !.verts = footprint.verts, !.offset = IF tf THEN 0 ELSE footprint.pose]

\* updatePolygon(): a polygon published in another frame follows the robot
UpdatePolygon(pg, tf) ==
  CASE pg.par.shape = "footprint" -> FootprintUpdate(pg, tf)
    [] pg.par.shape = "topic" /\ pg.msg # <<>> /\ tf ->
         [pg EXCEPT !.verts = pg.msg, !.offset = -world.pose]
    [] OTHER -> pg

\* getCommonParameters() and getParameters(): are the parameters usable?
KnownActions == {"stop", "slowdown", "limit", "approach", "none"}

GoodParameters(par) ==
  /\ par.action \in KnownActions
  /\ par.shape = "points" => Len(par.verts) > 3

\* the node's parameter keeps what the operator set before an earlier cleanup
ZoneEnabled(name) ==
  IF name \in DOMAIN params.zones THEN params.zones[name] ELSE PolygonParams[name].enabled

\* the constructor and configure()
NewPolygon(name) ==
  LET par == PolygonParams[name] IN
  [name |-> name, par |-> par, enabled |-> ZoneEnabled(name), msg |-> <<>>, offset |-> 0,
   verts |-> IF par.shape = "points" /\ GoodParameters(par) THEN par.verts ELSE <<>>]

----------------------------------------------------------------------------
(* Source, Scan, PointCloud and Range.                                      *)

SourceTimedOut(data) == world.now - data.stamp > SourceTimeout
IsDataStale(s) == sources[s].data = NoData \/ SourceTimedOut(sources[s].data)

\* base_shift_correction: from the pose at the stamp to the pose now
Corrected(data, pts) ==
  [i \in DOMAIN pts |-> <<pts[i][1] - (world.pose - data.pose), pts[i][2]>>]

\* Scan::getData() keeps the beams within the scanner's range
ScanPoints(data) ==
  Corrected(data, [i \in DOMAIN SelectSeq(data.beams, LAMBDA b : b.ok) |->
                     SelectSeq(data.beams, LAMBDA b : b.ok)[i].p])

\* PointCloud::getData() keeps the points between the two heights
CloudPoints(data) ==
  LET kept == SelectSeq(data.beams, LAMBDA b : b.z >= MinHeight /\ b.z <= MaxHeight)
  IN Corrected(data, [i \in DOMAIN kept |-> kept[i].p])

\* Range::getData(): an arc at one distance, nothing when it is out of span
RangePoints(data) ==
  IF \E i \in DOMAIN data.beams : ~data.beams[i].ok THEN <<>>
  ELSE Corrected(data, [i \in DOMAIN data.beams |-> data.beams[i].p])

\* getData(): nothing without data, when it timed out, or without a transform
GetSourceData(s, tf) ==
  LET d == sources[s].data IN
  IF IsDataStale(s) \/ ~tf THEN <<>>
  ELSE CASE SourceParams[s].type = "scan" -> ScanPoints(d)
         [] SourceParams[s].type = "pointcloud" -> CloudPoints(d)
         [] OTHER -> RangePoints(d)

\* dataCallback(): the newest message replaces the last one
DataCallback(s, m) ==
  /\ sources' = [sources EXCEPT ![s].data =
       [stamp |-> world.now, pose |-> world.pose,
        beams |-> [i \in DOMAIN m |-> [m[i] EXCEPT !.p = <<m[i].p[1] - world.pose, m[i].p[2]>>]]]]
  /\ UNCHANGED <<node, params, polygons, footprint, prev, output, state, world>>

Change == node.changes < MaxChanges /\ node' = [node EXCEPT !.changes = @ + 1]

\* a declared parameter of a source is set, and dynamicParametersCallback() is run
\* if the source exists
SetSource(s, field, b) ==
  /\ Change
  /\ params' = [params EXCEPT !.sources[s][field] = b]
  /\ sources' = IF s \in DOMAIN sources THEN [sources EXCEPT ![s][field] = b] ELSE sources
  /\ UNCHANGED <<polygons, footprint, prev, output, state, world>>

\* a declared parameter of a polygon is set: dynamicParametersCallback() of every one
\* with that name, but for one whose configure() failed before it was registered
SetPolygon(name, b) ==
  /\ Change
  /\ params' = [params EXCEPT !.zones[name] = b]
  /\ polygons' = [i \in DOMAIN polygons |->
       IF polygons[i].name = name /\ GoodParameters(polygons[i].par)
       THEN [polygons[i] EXCEPT !.enabled = b] ELSE polygons[i]]
  /\ UNCHANGED <<sources, footprint, prev, output, state, world>>

\* polygonCallback(): fewer than three points, or no transform, keep the old shape
PolygonCallback(verts, tf) ==
  /\ Len(verts) >= 3 /\ tf
  /\ polygons' = [i \in DOMAIN polygons |->
       IF polygons[i].par.shape = "topic" /\ GoodParameters(polygons[i].par)
       THEN [polygons[i] EXCEPT !.msg = verts, !.verts = verts, !.offset = -world.pose]
       ELSE polygons[i]]
  /\ UNCHANGED <<node, params, sources, footprint, prev, output, state, world>>

\* footprint_callback(): the costmap's footprint, in the odometry frame
FootprintCallback(verts) ==
  /\ \E i \in DOMAIN polygons : polygons[i].par.shape = "footprint"
  /\ footprint' = [verts |-> verts, pose |-> world.pose]
  /\ UNCHANGED <<node, params, polygons, sources, prev, output, state, world>>

----------------------------------------------------------------------------
(* The lifecycle.                                                           *)

NoAction == [vel |-> [x |-> -1, y |-> -1, tw |-> -1], type |-> "none", by |-> "", stamp |-> 0]

\* how many polygons of the list configure before the first that fails
Configured(list) ==
  LET bad == {i \in DOMAIN list : ~GoodParameters(PolygonParams[list[i]])} IN
  IF bad = {} THEN Len(list) ELSE CHOOSE i \in bad : \A j \in bad : i <= j

\* configurePolygons() appends; one that fails stays in the list
ConfigurePolygons(list) ==
  polygons \o [i \in 1 .. Configured(list) |-> NewPolygon(list[i])]

\* the polygons whose "enabled" getCommonParameters() declares: not after an unknown action
DeclaredZones(list) ==
  {list[i] : i \in {k \in 1 .. Configured(list) :
                      PolygonParams[list[k]].action \in KnownActions}}

ZoneParams(list) ==
  [n \in DOMAIN params.zones \cup DeclaredZones(list) |-> ZoneEnabled(n)]

SourceSwitches(s) ==
  IF s \in DOMAIN params.sources THEN params.sources[s]
  ELSE [enabled |-> SourceParams[s].enabled, stop |-> SourceParams[s].stop]

SourceSettings(names) ==
  [s \in DOMAIN params.sources \cup names |-> SourceSwitches(s)]

\* configureSources(): no message has arrived yet
ConfigureSources(names) ==
  [s \in names |-> [enabled |-> SourceSwitches(s).enabled, stop |-> SourceSwitches(s).stop,
                    data |-> NoData]]

Configure(c) ==
  /\ node.state = "unconfigured" /\ node.ops < MaxOps
  /\ polygons' = ConfigurePolygons(c.list)
  /\ LET good == \A i \in DOMAIN c.list : GoodParameters(PolygonParams[c.list[i]]) IN
       /\ node' = [node EXCEPT !.state = IF good THEN "inactive" ELSE "unconfigured",
                               !.ops = @ + 1]
       /\ sources' = IF good THEN ConfigureSources(c.sources) ELSE sources
       /\ params' = [zones |-> ZoneParams(c.list),
                     sources |-> IF good THEN SourceSettings(c.sources) ELSE params.sources]
  /\ UNCHANGED <<footprint, prev, output, state, world>>

MonitorActivate ==
  /\ node.state = "inactive"
  /\ node' = [node EXCEPT !.state = "active"]
  /\ UNCHANGED <<params, polygons, sources, footprint, prev, output, state, world>>

\* on_deactivate(): the action is forgotten, the stamp of the stop is not
MonitorDeactivate ==
  /\ node.state = "active"
  /\ node' = [node EXCEPT !.state = "inactive"]
  /\ prev' = [NoAction EXCEPT !.stamp = prev.stamp]
  /\ UNCHANGED <<params, polygons, sources, footprint, output, state, world>>

Cleanup ==
  /\ node.state = "inactive"
  /\ node' = [node EXCEPT !.state = "unconfigured"]
  /\ polygons' = <<>> /\ sources' = [s \in {} |-> NoData] /\ footprint' = NoData
  /\ UNCHANGED <<params, prev, output, state, world>>

----------------------------------------------------------------------------
(* process(): one command in, one velocity out.                             *)

\* the velocity a triggered STOP, SLOWDOWN or LIMIT polygon allows
SafeVelocity(par, cmd) ==
  CASE par.action = "stop" -> Standstill
    [] par.action = "slowdown" -> Mul(cmd, Scale * par.num, par.den)
    [] OTHER ->  \* limit: the linear part along its direction, the turn clamped
       LET Clamp(v, lo, hi) == IF v > hi THEN hi ELSE IF v < lo THEN lo ELSE v
           speed == Speed(cmd)
           linear == IF speed = 0 THEN Mul(cmd, Scale, 1)
                     ELSE Mul(cmd, Scale * Clamp(par.linear, 0, speed), speed)
       IN [linear EXCEPT !.tw = Scale * Clamp(cmd.tw, -par.angular, par.angular)]

Adopt(pg, vel) == [vel |-> vel, type |-> pg.par.action, by |-> pg.name]

\* a stop is taken as it is, anything else only when it is slower
ProcessStopSlowdownLimit(pg, pts, cmd, act) ==
  LET vel == SafeVelocity(pg.par, cmd) IN
  IF \/ ~IsShapeSet(pg) \/ PointsInside(pg, pts) < pg.par.minPoints
     \/ (pg.par.action # "stop" /\ ~Slower(vel, act.vel))
  THEN act ELSE Adopt(pg, vel)

ProcessApproach(pg, pts, cmd, act) ==
  IF ~IsShapeSet(pg) THEN act
  ELSE LET t == CollisionTime(pg, pts, cmd)
           vel == Mul(cmd, Scale * t, pg.par.steps)
       IN IF t >= 0 /\ Slower(vel, act.vel) THEN Adopt(pg, vel) ELSE act

Blind(s) == sources[s].enabled /\ sources[s].stop /\ IsDataStale(s)

Unhindered(cmd) == [vel |-> Mul(cmd, Scale, 1), type |-> "none", by |-> ""]

\* the action of the sources that must not fall silent
SourceAction(cmd) ==
  IF \E s \in DOMAIN sources : Blind(s)
  THEN [vel |-> Standstill, type |-> "stop", by |-> "source_timeout"] ELSE Unhindered(cmd)

\* one polygon: after a stop it is not even updated
PolygonStep(acc, pg, pts, cmd, tf) ==
  IF ~pg.enabled \/ acc.act.type = "stop"
  THEN [done |-> Append(acc.done, pg), act |-> acc.act]
  ELSE LET u == UpdatePolygon(pg, tf) IN
       [done |-> Append(acc.done, u),
        act |-> CASE pg.par.action \in {"stop", "slowdown", "limit"} ->
                       ProcessStopSlowdownLimit(u, pts, cmd, acc.act)
                  [] pg.par.action = "approach" -> ProcessApproach(u, pts, cmd, acc.act)
                  [] OTHER -> acc.act]

\* the polygons in their order
PolygonPass(pts, cmd, tf) ==
  FoldLeft(LAMBDA acc, pg : PolygonStep(acc, pg, pts, cmd, tf),
           [done |-> <<>>, act |-> SourceAction(cmd)], polygons)

\* mutated form: the first stop is not told from a lasting one
PublishVelocityHeld(act) ==
  LET stopped == Norm(act.vel) = 0
      first == stopped /\ Norm(prev.vel) # 0
  IN [stamp |-> IF first THEN world.now ELSE prev.stamp,
      out |-> IF stopped /\ world.now - prev.stamp > StopPubTimeout THEN output ELSE act.vel]

\* publishVelocity(): a stop is repeated for a while, then the output is silent
PublishVelocity(act) ==
  LET stopped == Norm(act.vel) = 0
      first == stopped /\ Norm(prev.vel) # 0
  IN [stamp |-> IF first THEN world.now ELSE prev.stamp,
      out |-> IF stopped /\ ~first /\ world.now - prev.stamp > StopPubTimeout
              THEN output ELSE act.vel]

CollisionPoints(tf) ==
  LET on == SetToSeq({s \in DOMAIN sources : sources[s].enabled}) IN
  FoldLeft(LAMBDA acc, s : acc \o GetSourceData(s, tf), <<>>, on)

Process(cmd, tf) ==
  /\ node.state = "active"
  /\ LET pass == PolygonPass(CollisionPoints(tf), cmd, tf)
         pub == PublishVelocity(pass.act)
     IN /\ polygons' = pass.done
        /\ output' = pub.out
        /\ prev' = [vel |-> pass.act.vel, type |-> pass.act.type, by |-> pass.act.by,
                    stamp |-> pub.stamp]
        \* notifyActionState() runs when the name of the cause changes
        /\ state' = IF pass.act.by # prev.by
                    THEN [by |-> pass.act.by, type |-> pass.act.type] ELSE state
  /\ UNCHANGED <<node, params, sources, footprint, world>>

\* time passes, and the robot follows the last velocity it was given
Tick ==
  /\ world.now < MaxTime
  /\ world' = [now |-> world.now + 1,
               pose |-> IF output.x > 0 THEN world.pose + 1 ELSE world.pose]
  /\ UNCHANGED <<node, params, polygons, sources, footprint, prev, output, state>>

MonitorInit ==
  /\ node = [state |-> "unconfigured", ops |-> 0, changes |-> 0]
  /\ params = [zones |-> [n \in {} |-> TRUE], sources |-> [s \in {} |-> NoData]]
  /\ polygons = <<>> /\ sources = [s \in {} |-> NoData] /\ footprint = NoData
  /\ prev = NoAction /\ output = Standstill /\ state = [by |-> "", type |-> "none"]
  /\ world = [now |-> 0, pose |-> 0]

MonitorNext ==
  \/ \E c \in Configs : Configure(c)
  \/ MonitorActivate \/ MonitorDeactivate \/ Cleanup
  \/ \E s \in DOMAIN sources : \E m \in SourceMessages : DataCallback(s, m)
  \/ \E s \in DOMAIN params.sources, f \in {"enabled", "stop"}, b \in BOOLEAN :
       SetSource(s, f, b)
  \/ \E n \in DOMAIN params.zones, b \in BOOLEAN : SetPolygon(n, b)
  \/ \E v \in ZoneMsgs, tf \in BOOLEAN : PolygonCallback(v, tf)
  \/ \E v \in ZoneMsgs : FootprintCallback(v)
  \/ \E cmd \in Cmds, tf \in BOOLEAN : Process(cmd, tf)
  \/ Tick

MonitorSpec == MonitorInit /\ [][MonitorNext]_monitorVars

----------------------------------------------------------------------------
(* Properties.                                                              *)

\* Independent of the ray test: strictly inside a convex polygon.
StrictlyInside(verts, p) ==
  LET n == Len(verts)
      Cross(i) == LET a == verts[i]  b == verts[(i % n) + 1] IN
                  (b[1] - a[1]) * (p[2] - a[2]) - (b[2] - a[2]) * (p[1] - a[1])
  IN n > 2 /\ ((\A i \in 1 .. n : Cross(i) > 0) \/ (\A i \in 1 .. n : Cross(i) < 0))

\* The obstacles the enabled and fresh scanners reported, in the odometry
\* frame (obstacles do not move).
Reported ==
  {r \in (DOMAIN sources) \X (1 .. 3) :
     LET s == r[1]  i == r[2] IN
     /\ sources[s].enabled /\ SourceParams[s].type = "scan"
     /\ ~IsDataStale(s) /\ i \in DOMAIN sources[s].data.beams /\ sources[s].data.beams[i].ok}
OdomPoint(r) ==
  LET d == sources[r[1]].data IN <<d.beams[r[2]].p[1] + d.pose, d.beams[r[2]].p[2]>>
BasePoint(r) == <<OdomPoint(r)[1] - world.pose, OdomPoint(r)[2]>>

\* How many reported obstacles really lie in the zone of a polygon: one given
\* by parameters moves with the robot, one received on a topic stays where it
\* is in the odometry frame, however far the robot drove since.
ReallyInside(pg) ==
  {r \in Reported :
     CASE pg.par.shape = "points" -> StrictlyInside(pg.par.verts, BasePoint(r))
       [] pg.par.shape = "topic" -> StrictlyInside(pg.msg, OdomPoint(r))
       [] pg.par.shape = "circle" -> BasePoint(r)[1] * BasePoint(r)[1]
                                   + BasePoint(r)[2] * BasePoint(r)[2] < pg.par.radius * pg.par.radius
       [] OTHER -> FALSE}

(* What the operator wants of a polygon that is configured, and of a source. *)
SwitchedOn(pg) == GoodParameters(pg.par) /\ params.zones[pg.name]
MissedBy(s) == params.sources[s].enabled /\ params.sources[s].stop /\ IsDataStale(s)

(* While the transforms are available, the velocity process() decides on is  *)
(* never faster than what any polygon with enough real obstacles in it       *)
(* allows that the operator has switched on, whatever the order of the       *)
(* polygons, the motion of the robot since the scan, parameters set before   *)
(* the configuration, or polygons left over from a failed one; it is never   *)
(* faster than the command; and it is zero while a source that must not fall *)
(* silent is stale.                                                          *)
OutputIsSafe ==
  [][\A cmd \in Cmds : <<node, sources, world>>' = <<node, sources, world>> /\ Process(cmd, TRUE) =>
       /\ \A i \in DOMAIN polygons :
            LET pg == polygons[i] IN
            SwitchedOn(pg) /\ pg.par.action \in {"stop", "slowdown", "limit"}
              /\ Cardinality(ReallyInside(pg)) >= pg.par.minPoints
            => Norm(prev'.vel) <= Norm(SafeVelocity(pg.par, cmd))
       /\ Norm(prev'.vel) <= Norm(Mul(cmd, Scale, 1))
       /\ (\E s \in DOMAIN sources : MissedBy(s)) => prev'.vel = Standstill]_monitorVars

(* Whenever the node has decided to stop, the last velocity the motors were  *)
(* given is zero: ceasing to publish after stop_pub_timeout never swallows   *)
(* the stop itself, across deactivation and reactivation too.                *)
StopIsDelivered == Norm(prev.vel) = 0 => output = Standstill
============================================================================
