---------------------------- MODULE Nav2Proofs ----------------------------
(***************************************************************************)
(* The parts of Nav2 and tf2 that the repository keeps: the collision      *)
(* monitor, the costmap filters and the transform buffer, for every set of *)
(* polygons, masks, frames and callers.                                    *)
(*                                                                         *)
(* StopsReachTheMotors and EveryPolygonIsObeyed follow the loops of        *)
(* process(); FiltersApplyTheMask follows updateBounds and updateCosts;    *)
(* RequestsAreServed follows the forests of the caches and, for the two    *)
(* mutexes, where a request can wait.                                      *)
(***************************************************************************)
EXTENDS DataInduction, CollisionMonitor, CostmapFilters, TfBuffer, TLAPS

(***************************************************************************)
(* The collision monitor.                                                  *)
(***************************************************************************)
Velocities == [x : Int, y : Int, tw : Int]
Vertex == ZoneMsgs \cup {<<>>} \cup {PolygonParams[n].verts : n \in DOMAIN PolygonParams}
ParameterSets == {PolygonParams[n] : n \in DOMAIN PolygonParams}
Polygons == [name : DOMAIN PolygonParams, par : ParameterSets, enabled : BOOLEAN,
             msg : Vertex, offset : Int, verts : Vertex]
ActionTypes == {"none", "stop"} \cup {par.action : par \in ParameterSets}
Causes == {"", "source_timeout"} \cup DOMAIN PolygonParams
Actions == [vel : Velocities, type : ActionTypes, by : Causes]

MonitorTypes ==
    /\ polygons \in Seq(Polygons)
    /\ footprint \in {NoData} \cup [verts : ZoneMsgs, pose : Int]
    /\ prev \in [vel : Velocities, type : ActionTypes, by : Causes, stamp : Int]
    /\ output \in Velocities
    /\ world \in [now : Int, pose : Int]
    /\ params \in [zones : {params.zones}, sources : {params.sources}]
    /\ \A n \in DOMAIN params.zones : params.zones[n] \in BOOLEAN

\* A square is not negative, and zero only of zero.
LEMMA Squares ==
    ASSUME NEW x \in Int
    PROVE  x * x \in Nat /\ (x * x = 0 => x = 0)
<1>1. CASE x = 0
  BY <1>1
<1>2. CASE x > 0
  <2>1. x * x >= x
    BY <1>2
  <2> QED
    BY <1>2, <2>1
<1>3. CASE x < 0
  <2>1. x * x >= -x
    BY <1>3
  <2> QED
    BY <1>3, <2>1
<1> QED
  BY <1>1, <1>2, <1>3

\* Only the standstill has the norm zero.
LEMMA NormIsANorm ==
    ASSUME NEW v \in Velocities
    PROVE  /\ Norm(v) \in Nat
           /\ Norm(v) = 0 => v = Standstill
<1> DEFINE a == v.x  b == v.y  c == v.tw
<1>1. a \in Int /\ b \in Int /\ c \in Int /\ v = [x |-> a, y |-> b, tw |-> c]
  BY DEF Velocities
<1>2. Norm(v) = a * a + b * b + c * c
  BY DEF Norm
<1> HIDE DEF a, b, c
<1> DEFINE p == a * a  q == b * b  r == c * c
<1>3. p \in Nat /\ q \in Nat /\ r \in Nat /\ (p = 0 => a = 0) /\ (q = 0 => b = 0) /\ (r = 0 => c = 0)
  BY <1>1, Squares
<1>4. Norm(v) = p + q + r
  BY <1>2
<1> HIDE DEF p, q, r
<1>5. Norm(v) \in Nat /\ (Norm(v) = 0 => p = 0 /\ q = 0 /\ r = 0)
  BY <1>3, <1>4
<1>6. Norm(v) = 0 => a = 0 /\ b = 0 /\ c = 0
  BY <1>3, <1>5
<1> QED
  BY <1>1, <1>5, <1>6 DEF Standstill

\* The standstill is a velocity of norm zero.
LEMMA StandstillNorm == Standstill \in Velocities /\ Norm(Standstill) = 0
BY DEF Standstill, Velocities, Norm

\* A scaled velocity is a velocity.
LEMMA MulIsVelocity ==
    ASSUME NEW v \in Velocities, NEW n \in Int, NEW d \in Nat \ {0}
    PROVE  Mul(v, n, d) \in Velocities
<1> DEFINE a == v.x  b == v.y  c == v.tw
<1>1. a \in Int /\ b \in Int /\ c \in Int
  BY DEF Velocities
<1>2. \A w \in Int : w * n \in Int
  OBVIOUS
<1>3. \A w \in Int : w \div d \in Int
  OBVIOUS
<1>4. (a * n) \div d \in Int /\ (b * n) \div d \in Int /\ (c * n) \div d \in Int
  BY <1>1, <1>2, <1>3
<1> QED
  BY <1>4 DEF Mul, Velocities

\* A command is a velocity, and its speed a number.
LEMMA CommandsTyped ==
    ASSUME NEW cmd \in Cmds
    PROVE  cmd \in Velocities /\ Speed(cmd) \in Nat
<1>1. cmd \in Velocities
  BY MonitorAssumption DEF Velocities
<1>2. \E s \in 0..(cmd.x * cmd.x + cmd.y * cmd.y) : s * s = cmd.x * cmd.x + cmd.y * cmd.y
  BY MonitorAssumption
<1> DEFINE q == cmd.x * cmd.x + cmd.y * cmd.y
<1>3. Speed(cmd) \in 0..q
  BY <1>2 DEF Speed
<1> HIDE DEF q
<1>4. Speed(cmd) \in Nat
  BY <1>3
<1> QED
  BY <1>1, <1>4

\* What MonitorAssumption says of a set of parameters.
LEMMA ParametersTyped ==
    ASSUME NEW par \in ParameterSets
    PROVE  /\ par.num \in Int /\ par.den \in Nat \ {0} /\ par.linear \in Int
           /\ par.angular \in Nat /\ par.steps \in Nat \ {0}
           /\ par.action \in ActionTypes
BY MonitorAssumption DEF ParameterSets, ActionTypes

\* SafeVelocity() is a velocity.
LEMMA SafeVelocityTyped ==
    ASSUME NEW par \in ParameterSets, NEW cmd \in Cmds
    PROVE  SafeVelocity(par, cmd) \in Velocities
<1>0. cmd \in Velocities
  BY CommandsTyped
<1>1. CASE par.action = "stop"
  BY <1>1, StandstillNorm DEF SafeVelocity
<1>2. CASE par.action = "slowdown"
  <2>1. Scale * par.num \in Int /\ par.den \in Nat \ {0}
    BY MonitorAssumption, ParametersTyped
  <2> DEFINE k == Scale * par.num
  <2> HIDE DEF k
  <2>2. Mul(cmd, k, par.den) \in Velocities
    BY <1>0, <2>1, MulIsVelocity DEF k
  <2> QED
    BY <1>2, <2>2 DEF SafeVelocity, k
<1>3. CASE par.action # "stop" /\ par.action # "slowdown"
  <2> DEFINE Clamp(v, lo, hi) == IF v > hi THEN hi ELSE IF v < lo THEN lo ELSE v
             rate == Speed(cmd)
             c == Clamp(par.linear, 0, rate)  k == Scale * c
             b == Clamp(cmd.tw, -par.angular, par.angular)  w == Scale * b
             linear == IF rate = 0 THEN Mul(cmd, Scale, 1) ELSE Mul(cmd, k, rate)
  <2>1. par.linear \in Int /\ par.angular \in Nat /\ rate \in Nat /\ Scale \in Nat \ {0}
    BY ParametersTyped, CommandsTyped, MonitorAssumption
  <2>2. cmd.tw \in Int
    BY <1>0 DEF Velocities
  <2>3. SafeVelocity(par, cmd) = [linear EXCEPT !.tw = w]
    BY <1>3 DEF SafeVelocity
  <2> HIDE DEF rate
  <2>4. c \in Int /\ b \in Int
    BY <2>1, <2>2
  <2> HIDE DEF c, b
  <2>5. k \in Int /\ w \in Int
    BY <2>1, <2>4
  <2> HIDE DEF k, w
  <2>6. linear \in Velocities
    <3>1. CASE rate = 0
      BY <1>0, <2>1, <3>1, MulIsVelocity
    <3>2. CASE rate # 0
      BY <1>0, <2>1, <2>5, <3>2, MulIsVelocity
    <3> QED
      BY <3>1, <3>2
  <2> HIDE DEF linear
  <2>7. [linear EXCEPT !.tw = w] \in Velocities
    BY <2>5, <2>6 DEF Velocities
  <2> QED
    BY <2>3, <2>7
<1> QED
  BY <1>1, <1>2, <1>3

\* The time to a collision is a number of steps, or -1.
LEMMA CollisionTimeTyped ==
    ASSUME NEW pg \in Polygons, NEW pts, NEW cmd
    PROVE  CollisionTime(pg, pts, cmd) \in Int
<1> DEFINE Hit(sim, k) ==
             PointsInside(pg, [i \in DOMAIN pts |-> TransformPoint(sim[k + 1].pose, pts[i])])
               >= pg.par.minPoints
           Hits(sim) == {k \in 0 .. pg.par.steps : Hit(sim, k)}
           sims == CHOOSE sim : sim = [k \in 0 .. pg.par.steps + 1 |->
             IF k = 0 THEN [pose |-> [x |-> 0, y |-> 0, th |-> 0], v |-> cmd]
             ELSE ProjectState(sim[k - 1])]
           hits == Hits(sims)
<1>1. CollisionTime(pg, pts, cmd)
        = IF hits = {} THEN -1 ELSE CHOOSE k \in hits : \A m \in hits : k <= m
  BY DEF CollisionTime
<1>2. hits \in SUBSET Nat
  <2>1. pg.par.steps \in Nat
    BY ParametersTyped DEF Polygons
  <2> HIDE DEF Hit, sims
  <2> QED
    BY <2>1
<1> HIDE DEF hits
<1>3. CASE hits # {}
  <2>1. \E k \in hits : \A m \in hits : k <= m
    BY <1>2, <1>3, LeastNatural
  <2>2. (CHOOSE k \in hits : \A m \in hits : k <= m) \in hits
    BY <2>1
  <2> DEFINE c == CHOOSE k \in hits : \A m \in hits : k <= m
  <2>3. CollisionTime(pg, pts, cmd) = c
    BY <1>1, <1>3
  <2>4. c \in hits
    BY <2>2
  <2> HIDE DEF c
  <2>5. c \in Int
    BY ONLY <1>2, <2>4
  <2> QED
    BY ONLY <2>3, <2>5
<1> QED
  BY <1>1, <1>3

\* updatePolygon() leaves a polygon with its name, parameters and switch.
LEMMA UpdatePolygonTyped ==
    ASSUME MonitorTypes, NEW pg \in Polygons, NEW tf
    PROVE  /\ UpdatePolygon(pg, tf) \in Polygons
           /\ UpdatePolygon(pg, tf).par = pg.par /\ UpdatePolygon(pg, tf).name = pg.name
           /\ UpdatePolygon(pg, tf).enabled = pg.enabled
<1>1. world.pose \in Int /\ <<>> \in Vertex
  BY DEF MonitorTypes, Vertex
<1>2. footprint # NoData => footprint.pose \in Int /\ footprint.verts \in Vertex
  BY DEF MonitorTypes, Vertex
<1>3. -world.pose \in Int
  BY <1>1
<1>4. CASE pg.par.shape = "footprint"
  <2>1. UpdatePolygon(pg, tf) = FootprintUpdate(pg, tf)
    BY <1>4 DEF UpdatePolygon
  <2>2. CASE footprint = NoData
    BY <1>1, <2>1, <2>2 DEF FootprintUpdate, Polygons
  <2>3. CASE footprint # NoData
    <3> DEFINE o == IF tf THEN 0 ELSE footprint.pose  w == footprint.verts
    <3>1. UpdatePolygon(pg, tf) = [pg EXCEPT !.verts = w, !.offset = o]
      BY <2>1, <2>3 DEF FootprintUpdate
    <3>2. o \in Int /\ w \in Vertex
      BY <1>2, <2>3
    <3> HIDE DEF o, w
    <3> QED
      BY <3>1, <3>2 DEF Polygons
  <2> QED
    BY <2>2, <2>3
<1>5. CASE pg.par.shape # "footprint" /\ pg.par.shape = "topic" /\ pg.msg # <<>> /\ tf
  <2> DEFINE o == -world.pose
  <2>1. UpdatePolygon(pg, tf) = [pg EXCEPT !.verts = pg.msg, !.offset = o]
    BY <1>5 DEF UpdatePolygon
  <2> HIDE DEF o
  <2> QED
    BY <1>3, <2>1 DEF Polygons, o
<1>6. CASE pg.par.shape # "footprint" /\ ~(pg.par.shape = "topic" /\ pg.msg # <<>> /\ tf)
  BY <1>6 DEF UpdatePolygon
<1> QED
  BY <1>4, <1>5, <1>6

\* One polygon of the loop keeps the polygons and the action typed.
Passes == [done : Seq(Polygons), act : Actions]

\* The action of one polygon is an action.
LEMMA PolygonActionTyped ==
    ASSUME NEW pg \in Polygons, NEW act \in Actions, NEW pts, NEW cmd \in Cmds
    PROVE  /\ ProcessApproach(pg, pts, cmd, act) \in Actions
           /\ ProcessStopSlowdownLimit(pg, pts, cmd, act) \in Actions
<1>1. pg.par \in ParameterSets /\ pg.par.action \in ActionTypes /\ pg.name \in Causes
  BY ParametersTyped DEF Polygons, Causes
<1>2. ASSUME NEW v \in Velocities PROVE Adopt(pg, v) \in Actions
  BY <1>1 DEF Adopt, Actions
<1>3. SafeVelocity(pg.par, cmd) \in Velocities
  BY <1>1, SafeVelocityTyped
<1>4. ProcessStopSlowdownLimit(pg, pts, cmd, act) \in Actions
  BY <1>2, <1>3 DEF ProcessStopSlowdownLimit
<1> DEFINE t == CollisionTime(pg, pts, cmd)
<1>5. t \in Int
  BY CollisionTimeTyped
<1> HIDE DEF t
<1> DEFINE k == Scale * t
<1>6. k \in Int
  BY <1>5, MonitorAssumption
<1> HIDE DEF k
<1>7. Mul(cmd, k, pg.par.steps) \in Velocities
  BY <1>1, <1>6, CommandsTyped, ParametersTyped, MulIsVelocity
<1>8. ProcessApproach(pg, pts, cmd, act) \in Actions
  BY <1>2, <1>7 DEF ProcessApproach, k, t
<1> QED
  BY <1>4, <1>8

\* The bound a polygon sets to the velocity, and whether it sets one.
Triggers(pg, pts, tf) ==
    LET u == UpdatePolygon(pg, tf) IN
    /\ pg.enabled /\ pg.par.action \in {"stop", "slowdown", "limit"}
    /\ IsShapeSet(u) /\ ~(PointsInside(u, pts) < pg.par.minPoints)

\* What is true of an action: a stop stands still, and it is not faster than another.
Sound(act) == act.type = "stop" => act.vel = Standstill
NotFaster(v, w) == Norm(v) <= Norm(w)

\* One polygon: a stop stays, the velocity does not grow, and the polygon is obeyed.
LEMMA PolygonStepObeys ==
    ASSUME MonitorTypes, NEW acc \in Passes, Sound(acc.act), NEW pg \in Polygons,
           NEW pts, NEW cmd \in Cmds, NEW tf
    PROVE  LET next == PolygonStep(acc, pg, pts, cmd, tf) IN
           /\ next \in Passes
           /\ Sound(next.act)
           /\ acc.act.type = "stop" => next.act.type = "stop"
           /\ NotFaster(next.act.vel, acc.act.vel)
           /\ Triggers(pg, pts, tf) => NotFaster(next.act.vel, SafeVelocity(pg.par, cmd))
<1> DEFINE u == UpdatePolygon(pg, tf)  act == acc.act  safe == SafeVelocity(pg.par, cmd)
           next == PolygonStep(acc, pg, pts, cmd, tf)
<1>1. u \in Polygons /\ u.par = pg.par /\ u.name = pg.name /\ u.enabled = pg.enabled
  BY UpdatePolygonTyped
<1>2. acc.done \in Seq(Polygons) /\ act \in Actions /\ act.vel \in Velocities
  BY DEF Passes, Actions
<1>3. Append(acc.done, pg) \in Seq(Polygons) /\ Append(acc.done, u) \in Seq(Polygons)
  BY <1>1, <1>2
<1>4. pg.par \in ParameterSets
  BY DEF Polygons
<1>5. safe \in Velocities /\ Norm(safe) \in Nat /\ Norm(act.vel) \in Nat
  BY <1>2, <1>4, SafeVelocityTyped, NormIsANorm
<1>6. CASE ~pg.enabled \/ act.type = "stop"
  <2>1. next.done = Append(acc.done, pg) /\ next.act = act /\ next \in Passes
    <3>1. next = [done |-> Append(acc.done, pg), act |-> act]
      BY <1>6 DEF PolygonStep
    <3> HIDE DEF act, next
    <3> QED
      BY <1>2, <1>3, <3>1 DEF Passes
  <2>2. NotFaster(act.vel, act.vel)
    BY <1>5 DEF NotFaster
  <2>3. Triggers(pg, pts, tf) => NotFaster(act.vel, safe)
    <3>1. CASE act.type = "stop"
      <4>1. Norm(act.vel) = 0
        BY <3>1, StandstillNorm DEF Sound
      <4> QED
        BY <1>5, <4>1 DEF NotFaster
    <3>2. CASE ~pg.enabled
      BY <3>2 DEF Triggers
    <3> QED
      BY <1>6, <3>1, <3>2
  <2> HIDE DEF next, act, safe
  <2>4. Sound(next.act)
    BY <2>1 DEF act
  <2> QED
    BY <2>1, <2>2, <2>3, <2>4 DEF next, act, safe
<1>7. CASE pg.enabled /\ act.type # "stop"
  <2> DEFINE bounds == pg.par.action \in {"stop", "slowdown", "limit"}
             new == CASE bounds -> ProcessStopSlowdownLimit(u, pts, cmd, act)
                      [] pg.par.action = "approach" -> ProcessApproach(u, pts, cmd, act)
                      [] OTHER -> act
  <2>1. next = [done |-> Append(acc.done, u), act |-> new]
    BY <1>7 DEF PolygonStep
  <2>2. /\ ProcessApproach(u, pts, cmd, act) \in Actions
        /\ ProcessStopSlowdownLimit(u, pts, cmd, act) \in Actions
    BY <1>1, <1>2, PolygonActionTyped
  <2>3. new \in Actions
    BY <1>2, <2>2
  <2>4. Sound(act)
    OBVIOUS
  <2>5. CASE ~bounds /\ pg.par.action # "approach"
    <3>1. new = act /\ ~Triggers(pg, pts, tf)
      BY <2>5 DEF Triggers
    <3> QED
      BY <1>5, <1>7, <1>3, <2>1, <2>3, <2>4, <3>1 DEF NotFaster, Passes
  <2>6. CASE pg.par.action = "approach"
    <3>1. new = ProcessApproach(u, pts, cmd, act) /\ ~Triggers(pg, pts, tf)
      BY <2>6 DEF Triggers
    <3>2. NotFaster(new.vel, act.vel) /\ Sound(new)
      <4>1. CASE new = act
        BY <1>5, <2>4, <4>1 DEF NotFaster
      <4>2. CASE new # act
        <5> DEFINE w == Mul(cmd, Scale * CollisionTime(u, pts, cmd), u.par.steps)
        <5>1. new = Adopt(u, w) /\ Slower(w, act.vel)
          BY <3>1, <4>2 DEF ProcessApproach
        <5> HIDE DEF w, new
        <5>2. new.vel = w /\ new.type = "approach"
          BY <1>1, <2>6, <5>1 DEF Adopt
        <5>3. Norm(w) \in Nat
          BY <2>3, <5>2, NormIsANorm DEF Actions
        <5> QED
          BY <1>5, <5>1, <5>2, <5>3 DEF Slower, NotFaster, Sound
      <4> QED
        BY <4>1, <4>2
    <3> HIDE DEF new
    <3> QED
      BY <1>7, <1>3, <2>1, <2>3, <3>1, <3>2 DEF Passes
  <2>7. CASE bounds
    <3>1. new = ProcessStopSlowdownLimit(u, pts, cmd, act)
      BY <2>7
    <3> DEFINE keeps == \/ ~IsShapeSet(u) \/ PointsInside(u, pts) < pg.par.minPoints
                        \/ (pg.par.action # "stop" /\ ~Slower(safe, act.vel))
    <3>2. new = IF keeps THEN act ELSE Adopt(u, safe)
      BY <1>1, <3>1 DEF ProcessStopSlowdownLimit
    <3>3. /\ NotFaster(new.vel, act.vel) /\ Sound(new)
          /\ Triggers(pg, pts, tf) => NotFaster(new.vel, safe)
      <4>1. CASE keeps
        <5>1. new = act
          BY <3>2, <4>1
        <5>2. Triggers(pg, pts, tf) => ~Slower(safe, act.vel)
          BY <4>1 DEF Triggers
        <5> HIDE DEF new, safe, act, keeps
        <5> QED
          BY <1>5, <2>4, <5>1, <5>2 DEF Slower, NotFaster
      <4>2. CASE ~keeps
        <5>1. new = Adopt(u, safe)
          BY <3>2, <4>2
        <5>2. new.vel = safe /\ new.type = pg.par.action
          BY <1>1, <5>1 DEF Adopt
        <5>3. pg.par.action = "stop" => safe = Standstill
          BY DEF SafeVelocity
        <5>4. NotFaster(safe, act.vel)
          <6>1. CASE pg.par.action = "stop"
            BY <1>5, <5>3, <6>1, StandstillNorm DEF NotFaster
          <6>2. CASE pg.par.action # "stop"
            <7>1. Slower(safe, act.vel)
              BY <4>2, <6>2
            <7> HIDE DEF safe, act
            <7> QED
              BY <1>5, <7>1 DEF Slower, NotFaster
          <6> QED
            BY <6>1, <6>2
        <5>5. NotFaster(safe, safe)
          BY <1>5 DEF NotFaster
        <5> HIDE DEF new, safe, act, keeps
        <5> QED
          BY <5>2, <5>3, <5>4, <5>5 DEF Sound
      <4> QED
        BY <4>1, <4>2
    <3> HIDE DEF new
    <3> QED
      BY <1>7, <1>3, <2>1, <2>3, <3>3 DEF Passes
  <2> QED
    BY <2>5, <2>6, <2>7
<1> QED
  BY <1>6, <1>7

SoundPasses == {acc \in Passes : Sound(acc.act)}

\* The action of the sources: it stands still while one must not be silent and is.
LEMMA SourceActionSound ==
    ASSUME NEW cmd \in Cmds
    PROVE  /\ [done |-> <<>>, act |-> SourceAction(cmd)] \in SoundPasses
           /\ NotFaster(SourceAction(cmd).vel, Mul(cmd, Scale, 1))
           /\ (\E s \in DOMAIN sources : Blind(s)) => SourceAction(cmd).type = "stop"
<1> DEFINE v == Mul(cmd, Scale, 1)  a == SourceAction(cmd)
<1>1. v \in Velocities /\ Norm(v) \in Nat
  <2>1. v \in Velocities
    BY CommandsTyped, MonitorAssumption, MulIsVelocity
  <2> QED
    BY <2>1, NormIsANorm
<1>2. Unhindered(cmd) = [vel |-> v, type |-> "none", by |-> ""]
  BY DEF Unhindered
<1> HIDE DEF v
<1>3. CASE \E s \in DOMAIN sources : Blind(s)
  <2>1. a = [vel |-> Standstill, type |-> "stop", by |-> "source_timeout"]
    BY <1>3 DEF SourceAction
  <2> HIDE DEF a
  <2>2. a \in Actions /\ Sound(a) /\ a.type = "stop" /\ a.vel = Standstill
    BY <2>1, StandstillNorm DEF Actions, ActionTypes, Causes, Sound
  <2>3. NotFaster(a.vel, v)
    BY <1>1, <2>2, StandstillNorm DEF NotFaster
  <2> QED
    BY <2>2, <2>3 DEF SoundPasses, Passes, a, v
<1>4. CASE ~\E s \in DOMAIN sources : Blind(s)
  <2>1. a = [vel |-> v, type |-> "none", by |-> ""]
    BY <1>2, <1>4 DEF SourceAction
  <2> HIDE DEF a
  <2>2. a \in Actions /\ Sound(a) /\ a.vel = v
    BY <1>1, <2>1 DEF Actions, ActionTypes, Causes, Sound
  <2>3. NotFaster(a.vel, v)
    BY <1>1, <2>2 DEF NotFaster
  <2> QED
    BY <1>4, <2>2, <2>3 DEF SoundPasses, Passes, a, v
<1> QED
  BY <1>3, <1>4

\* The loop of process() over the polygons, one polygon after the other.
LEMMA PolygonPassSteps ==
    ASSUME MonitorTypes, NEW cmd \in Cmds, NEW pts, NEW tf
    PROVE  \E f \in [0..Len(polygons) -> SoundPasses] :
             /\ f[0] = [done |-> <<>>, act |-> SourceAction(cmd)]
             /\ f[Len(polygons)] = PolygonPass(pts, cmd, tf)
             /\ \A k \in 1..Len(polygons) :
                  f[k] = PolygonStep(f[k - 1], polygons[k], pts, cmd, tf)
<1> DEFINE n == Len(polygons)
           V == SoundPasses
           base == [done |-> <<>>, act |-> SourceAction(cmd)]
           Next(acc, pg) == PolygonStep(acc, pg, pts, cmd, tf)
           Rule(f) == f = [s \in SUBSET (DOMAIN polygons) |->
               IF s = {} THEN base ELSE Next(f[s \ {Max(s)}], polygons[Max(s)])]
           iter == CHOOSE f : Rule(f)
           H == [k \in 1..n |-> [acc \in V |-> Next(acc, polygons[k])]]
<1>1. n \in Nat /\ DOMAIN polygons = 1..n /\ \A k \in 1..n : polygons[k] \in Polygons
  BY DEF MonitorTypes
<1>2. PolygonPass(pts, cmd, tf) = iter[DOMAIN polygons]
  BY DEF PolygonPass, FoldLeft, MapThenFoldSet
<1>3. \A s : Max(s) = Greatest(s)
  BY DEF Max, Greatest
<1>4. ASSUME NEW acc \in V, NEW pg \in Polygons PROVE Next(acc, pg) \in V
  <2>1. acc \in Passes /\ Sound(acc.act)
    BY DEF SoundPasses
  <2>2. Next(acc, pg) \in Passes /\ Sound(Next(acc, pg).act)
    BY <2>1, PolygonStepObeys
  <2> HIDE DEF Next
  <2> QED
    BY <2>2 DEF SoundPasses
<1> HIDE DEF Next
<1>5. H \in FoldStepsOn(n, V) /\ \A k \in 1..n, acc \in V : H[k][acc] = Next(acc, polygons[k])
  <2>1. \A k \in 1..n, acc \in V : Next(acc, polygons[k]) \in V
    BY <1>1, <1>4
  <2> HIDE DEF V
  <2> QED
    BY <2>1 DEF FoldStepsOn
<1>6. base \in V
  BY SourceActionSound
<1> HIDE DEF H, Rule, n, V, iter, base
<1>7. PICK h \in [SUBSET (1..n) -> V] : FoldsSubsets(h, n, base, H)
  BY <1>1, <1>5, <1>6, FoldsUpTo
<1>8. Rule(h)
  <2> SUFFICES ASSUME NEW s \in SUBSET (1..n)
               PROVE  h[s] = IF s = {} THEN base ELSE Next(h[s \ {Max(s)}], polygons[Max(s)])
    BY <1>1 DEF Rule
  <2>1. CASE s = {}
    BY <1>7, <2>1 DEF FoldsSubsets
  <2>2. CASE s # {}
    <3> DEFINE g == Greatest(s)
    <3>1. g \in s
      BY <1>1, <2>2, GreatestIsOne
    <3>2. h[s] = H[g][h[s \ {g}]] /\ Max(s) = g
      BY <1>3, <1>7, <2>2 DEF FoldsSubsets
    <3> HIDE DEF g
    <3>3. g \in 1..n /\ h[s \ {g}] \in V
      BY <3>1
    <3> QED
      BY <1>5, <2>2, <3>2, <3>3
  <2> QED
    BY <2>1, <2>2
<1>9. Rule(iter)
  BY <1>8 DEF iter
<1>10. \A s \in SUBSET (1..n) : iter[s] = IF s = {} THEN base ELSE
               Next(iter[s \ {Max(s)}], polygons[Max(s)])
  BY <1>1, <1>9 DEF Rule
<1>11. iter[{}] = base
  BY <1>10
<1>12. ASSUME NEW k \in 1..n, iter[1..(k - 1)] \in V
       PROVE  iter[1..k] = H[k][iter[1..(k - 1)]]
  <2>1. k \in Nat /\ k # 0 /\ 1..k \in SUBSET (1..n)
    BY <1>1
  <2>2. Max(1..k) = k /\ 1..k # {} /\ (1..k) \ {k} = 1..(k - 1)
    BY <1>3, <2>1, InitialSegment
  <2>3. iter[1..k] = Next(iter[(1..k) \ {Max(1..k)}], polygons[Max(1..k)])
    BY <1>10, <2>1, <2>2
  <2>4. iter[1..k] = Next(iter[1..(k - 1)], polygons[k])
    BY ONLY <2>2, <2>3
  <2> QED
    BY <1>5, <1>12, <2>4
<1>13. FoldsSegments(iter, n, V, base, H)
  BY <1>11, <1>12 DEF FoldsSegments
<1>14. \E f \in [0..n -> V] : FoldsAlong(f, n, base, H) /\ f[n] = iter[1..n]
  BY <1>1, <1>5, <1>6, <1>13, FoldSteps
<1>15. PICK f \in [0..n -> V] : /\ f[0] = base /\ f[n] = iter[1..n]
                                /\ \A k \in 1..n : f[k] = H[k][f[k - 1]]
  BY <1>14 DEF FoldsAlong
<1>16. ASSUME NEW k \in 1..n PROVE f[k] = Next(f[k - 1], polygons[k])
  <2>1. k - 1 \in 0..n
    BY <1>1
  <2> QED
    BY <1>5, <1>15, <2>1
<1>17. f[n] = PolygonPass(pts, cmd, tf)
  BY <1>1, <1>2, <1>15
<1> QED
  BY <1>15, <1>16, <1>17 DEF n, V, base, Next

\* What the polygons decide: no faster than any of them or the command allows,
\* and a standstill while a source that must not fall silent is stale.
Obeys(act, pts, cmd, tf) ==
    /\ \A i \in DOMAIN polygons :
         Triggers(polygons[i], pts, tf) => NotFaster(act.vel, SafeVelocity(polygons[i].par, cmd))
    /\ NotFaster(act.vel, Mul(cmd, Scale, 1))
    /\ (\E s \in DOMAIN sources : Blind(s)) => act.vel = Standstill

\* The loop obeys every polygon, wherever it stands in the list.
LEMMA PolygonPassObeys ==
    ASSUME MonitorTypes, NEW cmd \in Cmds, NEW pts, NEW tf
    PROVE  /\ PolygonPass(pts, cmd, tf) \in Passes
           /\ Sound(PolygonPass(pts, cmd, tf).act)
           /\ Obeys(PolygonPass(pts, cmd, tf).act, pts, cmd, tf)
<1> DEFINE n == Len(polygons)
           Safe(i) == SafeVelocity(polygons[i].par, cmd)
           Trig(i) == Triggers(polygons[i], pts, tf)
           full == Mul(cmd, Scale, 1)
           blind == \E s \in DOMAIN sources : Blind(s)
<1>1. n \in Nat /\ DOMAIN polygons = 1..n /\ \A k \in 1..n : polygons[k] \in Polygons
  BY DEF MonitorTypes
<1>2. PICK f \in [0..n -> SoundPasses] :
        /\ f[0] = [done |-> <<>>, act |-> SourceAction(cmd)]
        /\ f[n] = PolygonPass(pts, cmd, tf)
        /\ \A k \in 1..n : f[k] = PolygonStep(f[k - 1], polygons[k], pts, cmd, tf)
  BY PolygonPassSteps
<1> DEFINE Fine(k) == /\ blind => f[k].act.type = "stop"
                      /\ NotFaster(f[k].act.vel, full)
                      /\ \A i \in 1..k : Trig(i) => NotFaster(f[k].act.vel, Safe(i))
           D == {k \in 0..n : Fine(k)}
<1>3. full \in Velocities /\ Norm(full) \in Nat
  <2>1. full \in Velocities
    BY CommandsTyped, MonitorAssumption, MulIsVelocity
  <2> QED
    BY <2>1, NormIsANorm
<1>4. \A i \in 1..n : Norm(Safe(i)) \in Nat
  <2> TAKE i \in 1..n
  <2>1. polygons[i].par \in ParameterSets
    BY <1>1 DEF Polygons
  <2>2. Safe(i) \in Velocities
    BY <2>1, SafeVelocityTyped
  <2> QED
    BY <2>2, NormIsANorm
<1>5. \A k \in 0..n : /\ f[k] \in Passes /\ Sound(f[k].act)
                      /\ f[k].act.vel \in Velocities /\ Norm(f[k].act.vel) \in Nat
  <2> TAKE k \in 0..n
  <2>1. f[k] \in Passes /\ Sound(f[k].act)
    BY <1>2 DEF SoundPasses
  <2>2. f[k].act.vel \in Velocities
    BY <2>1 DEF Passes, Actions
  <2> QED
    BY <2>1, <2>2, NormIsANorm
<1>6. 0 \in D
  <2>1. f[0].act = SourceAction(cmd) /\ 0 \in 0..n
    BY <1>1, <1>2
  <2>3. NotFaster(f[0].act.vel, full) /\ (blind => f[0].act.type = "stop")
    <3>1. /\ NotFaster(SourceAction(cmd).vel, full)
          /\ blind => SourceAction(cmd).type = "stop"
      BY SourceActionSound
    <3> HIDE DEF full, blind
    <3> QED
      BY <2>1, <3>1
  <2>4. 1..0 = {}
    OBVIOUS
  <2>2. Fine(0)
    BY <2>3, <2>4
  <2> QED
    BY <2>1, <2>2
<1>7. ASSUME NEW m \in 0..(n - 1), m \in D PROVE m + 1 \in D
  <2> DEFINE a == f[m].act  b == f[m + 1].act  k == m + 1
  <2>1. k \in 1..n /\ k \in 0..n /\ m \in 0..n /\ k - 1 = m /\ Fine(m)
    BY <1>1, <1>7
  <2>2. f[k] = PolygonStep(f[m], polygons[k], pts, cmd, tf)
    BY <1>2, <2>1
  <2>3. f[m] \in Passes /\ Sound(f[m].act) /\ polygons[k] \in Polygons
    BY <1>1, <1>5, <2>1
  <2>4. /\ a.type = "stop" => b.type = "stop"
        /\ NotFaster(b.vel, a.vel)
        /\ Trig(k) => NotFaster(b.vel, Safe(k))
    BY <2>2, <2>3, PolygonStepObeys
  <2>5. Norm(a.vel) \in Nat /\ Norm(b.vel) \in Nat
    BY <1>5, <2>1
  <2>6. \A w : NotFaster(a.vel, w) /\ Norm(w) \in Nat => NotFaster(b.vel, w)
    <3> HIDE DEF a, b
    <3> QED
      BY <2>4, <2>5 DEF NotFaster
  <2>7. NotFaster(a.vel, full) /\ \A i \in 1..m : Trig(i) => NotFaster(a.vel, Safe(i))
    BY <2>1
  <2>8. blind => a.type = "stop"
    BY <2>1
  <2>9. \A i \in 1..k : i = k \/ i \in 1..m
    BY <2>1
  <2>10. m \in 0..n /\ \A i \in 1..m : i \in 1..n
    BY <2>1
  <2> HIDE DEF full, blind, Trig, Safe
  <2>11. NotFaster(b.vel, full) /\ (blind => b.type = "stop")
    BY <1>3, <2>4, <2>6, <2>7, <2>8
  <2>12. \A i \in 1..k : Trig(i) => NotFaster(b.vel, Safe(i))
    BY <1>4, <2>4, <2>6, <2>7, <2>9, <2>10
  <2> QED
    BY <2>1, <2>11, <2>12
<1>8. Fine(n)
  <2>1. \A m \in 0..(n - 1) : m \in D => m + 1 \in D
    BY <1>7
  <2> HIDE DEF D, Fine
  <2>3. n \in Nat /\ n \in 0..n
    BY <1>1
  <2> HIDE DEF n
  <2>4. \A m \in 0..n : m \in D
    BY <1>6, <2>1, <2>3, InductionUpTo
  <2>2. n \in D
    BY <2>3, <2>4
  <2> QED
    BY <2>2 DEF D
<1>9. n \in 0..n
  BY <1>1
<1>10. blind => f[n].act.vel = Standstill
  BY <1>5, <1>8, <1>9 DEF Sound
<1> QED
  BY <1>1, <1>2, <1>5, <1>8, <1>9, <1>10 DEF Obeys

\* The inductive invariant of the monitor.
MonitorInv == MonitorTypes /\ StopIsDelivered

\* publishVelocity() has published a stop when the node has decided to stop.
LEMMA StopsArePublished ==
    ASSUME MonitorInv, NEW act \in Actions
    PROVE  /\ PublishVelocity(act).out \in Velocities /\ PublishVelocity(act).stamp \in Int
           /\ Norm(act.vel) = 0 => PublishVelocity(act).out = Standstill
<1>1. act.vel \in Velocities /\ (Norm(act.vel) = 0 => act.vel = Standstill)
  BY NormIsANorm DEF Actions
<1>2. output \in Velocities /\ prev.stamp \in Int /\ world.now \in Int
  BY DEF MonitorInv, MonitorTypes
<1>3. Norm(prev.vel) = 0 => output = Standstill
  BY DEF MonitorInv, StopIsDelivered
<1> QED
  BY <1>1, <1>2, <1>3 DEF PublishVelocity

\* configurePolygons() constructs polygons of the list.
LEMMA ConfiguredAreListed ==
    ASSUME NEW list \in Seq(DOMAIN PolygonParams)
    PROVE  Configured(list) \in Nat /\ Configured(list) <= Len(list)
<1> DEFINE bad == {i \in DOMAIN list : ~GoodParameters(PolygonParams[list[i]])}
           c == Configured(list)
<1>1. Len(list) \in Nat /\ bad \in SUBSET Nat /\ \A i \in bad : i \in 1..Len(list)
  OBVIOUS
<1>2. c = IF bad = {} THEN Len(list) ELSE CHOOSE i \in bad : \A j \in bad : i <= j
  BY DEF Configured
<1> HIDE DEF bad, c
<1>3. c \in Nat /\ c <= Len(list)
  <2>1. CASE bad = {}
    BY <1>1, <1>2, <2>1
  <2>2. CASE bad # {}
    <3>1. \E i \in bad : \A j \in bad : i <= j
      BY <1>1, <2>2, LeastNatural
    <3>2. c = CHOOSE i \in bad : \A j \in bad : i <= j
      BY <1>2, <2>2
    <3>3. c \in bad
      BY <3>1, <3>2
    <3> QED
      BY ONLY <1>1, <3>3
  <2> QED
    BY <2>1, <2>2
<1> QED
  BY <1>3 DEF c

\* A new polygon is a polygon, and so are those that configure() appends.
LEMMA ConfiguredPolygons ==
    ASSUME MonitorTypes, NEW list \in Seq(DOMAIN PolygonParams)
    PROVE  ConfigurePolygons(list) \in Seq(Polygons)
<1> DEFINE c == Configured(list)
<1>1. Len(list) \in Nat /\ c \in Nat /\ c <= Len(list)
  BY ConfiguredAreListed
<1> HIDE DEF c
<1>4. ASSUME NEW name \in DOMAIN PolygonParams PROVE NewPolygon(name) \in Polygons
  <2> DEFINE par == PolygonParams[name]
             v == IF par.shape = "points" /\ GoodParameters(par) THEN par.verts ELSE <<>>
             e == ZoneEnabled(name)
  <2>1. par \in ParameterSets /\ e \in BOOLEAN
    BY MonitorAssumption DEF ParameterSets, ZoneEnabled, MonitorTypes
  <2>2. v \in Vertex /\ <<>> \in Vertex
    BY DEF Vertex
  <2>3. NewPolygon(name) = [name |-> name, par |-> par, enabled |-> e, msg |-> <<>>,
                            offset |-> 0, verts |-> v]
    BY DEF NewPolygon
  <2> HIDE DEF par, v, e
  <2> QED
    BY <2>1, <2>2, <2>3 DEF Polygons
<1> DEFINE new == [i \in 1..c |-> NewPolygon(list[i])]
<1>5. new \in Seq(Polygons)
  <2>1. \A i \in 1..c : list[i] \in DOMAIN PolygonParams
    BY <1>1
  <2>2. \A i \in 1..c : NewPolygon(list[i]) \in Polygons
    BY <1>4, <2>1
  <2> QED
    BY <1>1, <2>2
<1>6. ConfigurePolygons(list) = polygons \o new
  BY DEF ConfigurePolygons, c
<1>7. polygons \in Seq(Polygons)
  BY DEF MonitorTypes
<1> HIDE DEF new
<1> QED
  BY <1>5, <1>6, <1>7

\* A callback that changes some polygons in place keeps them polygons.
LEMMA PolygonsReplaced ==
    ASSUME MonitorTypes, NEW next, next = [i \in DOMAIN polygons |-> next[i]],
           \A i \in DOMAIN polygons : next[i] \in Polygons
    PROVE  next \in Seq(Polygons)
BY DEF MonitorTypes

\* The callbacks and transitions besides process() keep the types; they leave
\* the output alone and the decision too, or forget the decision.
LEMMA OtherStepsKeepMonitor ==
    ASSUME MonitorInv, [MonitorNext]_monitorVars,
           ~\E cmd \in Cmds, tf \in BOOLEAN : Process(cmd, tf)
    PROVE  MonitorInv'
<1> USE DEF MonitorInv
<1>0. NoAction \in [vel : Velocities, type : ActionTypes, by : Causes, stamp : Int]
      /\ Norm(NoAction.vel) # 0
  BY DEF NoAction, Velocities, ActionTypes, Causes, Norm
<1>1. ASSUME NEW c \in Configs, Configure(c) PROVE MonitorInv'
  <2>1. c.list \in Seq(DOMAIN PolygonParams)
    BY MonitorAssumption
  <2>2. polygons' \in Seq(Polygons)
    BY <1>1, <2>1, ConfiguredPolygons DEF Configure
  <2>3. params'.zones = ZoneParams(c.list)
    BY <1>1 DEF Configure
  <2>4. ASSUME NEW n \in DOMAIN params'.zones PROVE params'.zones[n] \in BOOLEAN
    <3>1. params'.zones[n] = ZoneEnabled(n) /\ n \in DOMAIN params.zones \cup DeclaredZones(c.list)
      BY <2>3 DEF ZoneParams
    <3>2. DeclaredZones(c.list) \subseteq DOMAIN PolygonParams
      <4> SUFFICES ASSUME NEW i \in 1..Configured(c.list) PROVE c.list[i] \in DOMAIN PolygonParams
        BY DEF DeclaredZones
      <4>1. Configured(c.list) \in Nat /\ Configured(c.list) <= Len(c.list)
        BY <2>1, ConfiguredAreListed
      <4> QED
        BY <2>1, <4>1
    <3> QED
      BY <3>1, <3>2, MonitorAssumption DEF ZoneEnabled, MonitorTypes
  <2> QED
    BY <1>1, <2>2, <2>4 DEF Configure, MonitorTypes, StopIsDelivered
<1>2. CASE MonitorActivate
  BY <1>2 DEF MonitorActivate, MonitorTypes, StopIsDelivered
<1>3. CASE MonitorDeactivate
  <2>1. /\ prev' = [NoAction EXCEPT !.stamp = prev.stamp] /\ prev.stamp \in Int
        /\ UNCHANGED <<params, polygons, footprint, output, world>>
    BY <1>3 DEF MonitorDeactivate, MonitorTypes
  <2>2. /\ prev' \in [vel : Velocities, type : ActionTypes, by : Causes, stamp : Int]
        /\ prev'.vel = NoAction.vel
    BY <1>0, <2>1
  <2>3. StopIsDelivered'
    BY <1>0, <2>2 DEF StopIsDelivered
  <2> QED
    BY <2>1, <2>2, <2>3 DEF MonitorTypes
<1>4. CASE Cleanup
  BY <1>4 DEF Cleanup, MonitorTypes, StopIsDelivered
<1>5. ASSUME NEW s, NEW m, DataCallback(s, m) PROVE MonitorInv'
  BY <1>5 DEF DataCallback, MonitorTypes, StopIsDelivered
<1>6. ASSUME NEW s, NEW f, NEW b, SetSource(s, f, b) PROVE MonitorInv'
  <2> DEFINE z == params.zones
             r == [params.sources EXCEPT ![s] = [params.sources[s] EXCEPT ![f] = b]]
  <2>1. params' = [params EXCEPT !.sources = r]
    BY <1>6 DEF SetSource
  <2> HIDE DEF r
  <2>2. params' \in [zones : {z}, sources : {r}]
    BY <2>1 DEF MonitorTypes
  <2> QED
    BY <1>6, <2>2 DEF SetSource, MonitorTypes, StopIsDelivered
<1>7. ASSUME NEW name, NEW b \in BOOLEAN, SetPolygon(name, b) PROVE MonitorInv'
  <2> DEFINE Next(pg) == IF pg.name = name /\ GoodParameters(pg.par)
                         THEN [pg EXCEPT !.enabled = b] ELSE pg
  <2>1. \A pg \in Polygons : Next(pg) \in Polygons
    BY DEF Polygons
  <2>2. polygons' = [i \in DOMAIN polygons |-> Next(polygons[i])]
    BY <1>7 DEF SetPolygon
  <2> HIDE DEF Next
  <2>4. \A i \in DOMAIN polygons : polygons[i] \in Polygons
    BY DEF MonitorTypes
  <2>5. /\ polygons' = [i \in DOMAIN polygons |-> polygons'[i]]
        /\ \A i \in DOMAIN polygons : polygons'[i] \in Polygons
    BY <2>1, <2>2, <2>4
  <2>3. polygons' \in Seq(Polygons)
    BY <2>5, PolygonsReplaced
  <2>6. \A n \in DOMAIN params'.zones : params'.zones[n] \in BOOLEAN
    <3>1. params' = [params EXCEPT !.zones[name] = b]
      BY <1>7 DEF SetPolygon
    <3>2. params \in [zones : {params.zones}, sources : {params.sources}]
      BY DEF MonitorTypes
    <3>3. params'.zones = [params.zones EXCEPT ![name] = b]
      BY <3>1, <3>2
    <3> QED
      BY <3>3 DEF MonitorTypes
  <2> QED
    BY <1>7, <2>3, <2>6 DEF SetPolygon, MonitorTypes, StopIsDelivered
<1>8. ASSUME NEW v \in ZoneMsgs, NEW tf, PolygonCallback(v, tf) PROVE MonitorInv'
  <2> DEFINE o == -world.pose
             Next(pg) == IF pg.par.shape = "topic" /\ GoodParameters(pg.par)
                         THEN [pg EXCEPT !.msg = v, !.verts = v, !.offset = o] ELSE pg
  <2>1. o \in Int /\ v \in Vertex
    BY DEF MonitorTypes, Vertex
  <2>2. polygons' = [i \in DOMAIN polygons |-> Next(polygons[i])]
    BY <1>8 DEF PolygonCallback
  <2> HIDE DEF o
  <2>3. \A pg \in Polygons : Next(pg) \in Polygons
    BY <2>1 DEF Polygons
  <2> HIDE DEF Next
  <2>5. \A i \in DOMAIN polygons : polygons[i] \in Polygons
    BY DEF MonitorTypes
  <2>6. /\ polygons' = [i \in DOMAIN polygons |-> polygons'[i]]
        /\ \A i \in DOMAIN polygons : polygons'[i] \in Polygons
    BY <2>2, <2>3, <2>5
  <2>4. polygons' \in Seq(Polygons)
    BY <2>6, PolygonsReplaced
  <2> QED
    BY <1>8, <2>4 DEF PolygonCallback, MonitorTypes, StopIsDelivered
<1>9. ASSUME NEW v \in ZoneMsgs, FootprintCallback(v) PROVE MonitorInv'
  BY <1>9 DEF FootprintCallback, MonitorTypes, StopIsDelivered
<1>10. CASE Tick
  <2> DEFINE p == IF output.x > 0 THEN world.pose + 1 ELSE world.pose  t == world.now + 1
  <2>1. p \in Int /\ t \in Int
    BY DEF MonitorTypes
  <2>2. world' = [now |-> t, pose |-> p]
    BY <1>10 DEF Tick
  <2> HIDE DEF p, t
  <2>3. world' \in [now : Int, pose : Int]
    BY <2>1, <2>2
  <2> QED
    BY <1>10, <2>3 DEF Tick, MonitorTypes, StopIsDelivered
<1>11. CASE UNCHANGED monitorVars
  BY <1>11 DEF monitorVars, MonitorTypes, StopIsDelivered
<1> QED
  BY <1>1, <1>2, <1>3, <1>4, <1>5, <1>6, <1>7, <1>8, <1>9, <1>10, <1>11 DEF MonitorNext

\* process() keeps the invariant and obeys the polygons.
LEMMA ProcessKeepsMonitor ==
    ASSUME MonitorInv, NEW cmd \in Cmds, NEW tf \in BOOLEAN, Process(cmd, tf)
    PROVE  MonitorInv' /\ Obeys(prev', CollisionPoints(tf), cmd, tf)
<1> DEFINE pts == CollisionPoints(tf)  pass == PolygonPass(pts, cmd, tf)
           emitted == PublishVelocity(pass.act)
<1>2. MonitorTypes
  BY DEF MonitorInv
<1>3. pass \in Passes /\ Obeys(pass.act, pts, cmd, tf)
  BY <1>2, PolygonPassObeys
<1>4. /\ pass.act \in Actions /\ pass.done \in Seq(Polygons)
  BY <1>3 DEF Passes
<1>5. /\ emitted.out \in Velocities /\ emitted.stamp \in Int
      /\ Norm(pass.act.vel) = 0 => emitted.out = Standstill
  BY <1>4, StopsArePublished
<1>6. /\ polygons' = pass.done /\ output' = emitted.out
      /\ prev' = [vel |-> pass.act.vel, type |-> pass.act.type, by |-> pass.act.by,
                  stamp |-> emitted.stamp]
      /\ UNCHANGED <<params, footprint, world>>
  BY DEF Process
<1> HIDE DEF pts, pass, emitted
<1>7. prev'.vel = pass.act.vel
  BY <1>6
<1>8. prev' \in [vel : Velocities, type : ActionTypes, by : Causes, stamp : Int]
  BY <1>4, <1>5, <1>6 DEF Actions
<1>9. MonitorTypes'
  BY <1>2, <1>4, <1>5, <1>6, <1>8 DEF MonitorTypes
<1>10. StopIsDelivered'
  BY <1>5, <1>6, <1>7 DEF StopIsDelivered
<1>11. Obeys(prev', pts, cmd, tf)
  BY <1>3, <1>7 DEF Obeys
<1> QED
  BY <1>9, <1>10, <1>11 DEF MonitorInv, pts

\* The invariant holds of the collision monitor.
LEMMA MonitorInvHolds == MonitorSpec => []MonitorInv
<1>1. MonitorInit => MonitorInv
  <2> SUFFICES ASSUME MonitorInit PROVE MonitorInv
    OBVIOUS
  <2>1. NoAction \in [vel : Velocities, type : ActionTypes, by : Causes, stamp : Int]
        /\ Norm(NoAction.vel) # 0
    BY DEF NoAction, Velocities, ActionTypes, Causes, Norm
  <2>2. polygons \in Seq(Polygons)
    <3>1. polygons = <<>>
      BY DEF MonitorInit
    <3> HIDE DEF MonitorInit
    <3> QED
      BY <3>1
  <2>3. prev = NoAction /\ output = Standstill /\ footprint = NoData /\ world = [now |-> 0, pose |-> 0]
    BY DEF MonitorInit
  <2>5. params = [zones |-> [n \in {} |-> TRUE], sources |-> [s \in {} |-> NoData]]
    BY DEF MonitorInit
  <2>4. MonitorTypes
    BY <2>1, <2>2, <2>3, <2>5, StandstillNorm DEF MonitorTypes
  <2> QED
    BY <2>3, <2>4 DEF MonitorInv, StopIsDelivered
<1>2. MonitorInv /\ [MonitorNext]_monitorVars => MonitorInv'
  BY OtherStepsKeepMonitor, ProcessKeepsMonitor
<1> QED
  BY <1>1, <1>2, PTL DEF MonitorSpec

\* Whenever the node has decided to stop, the motors were given the stop
\* (publishVelocity), across deactivation and reactivation too.
THEOREM StopsReachTheMotors == MonitorSpec => []StopIsDelivered
<1>1. MonitorInv => StopIsDelivered
  BY DEF MonitorInv
<1> QED
  BY <1>1, MonitorInvHolds, PTL

\* Whatever order the polygons are in, process() decides on a velocity no
\* faster than the command or than any enabled polygon with its points inside
\* allows, and on a standstill while a source that must not fall silent is.
THEOREM EveryPolygonIsObeyed ==
    MonitorSpec => [][\A cmd \in Cmds, tf \in BOOLEAN :
                        Process(cmd, tf) => Obeys(prev', CollisionPoints(tf), cmd, tf)]_monitorVars
<1>1. MonitorInv /\ [MonitorNext]_monitorVars
        => [\A cmd \in Cmds, tf \in BOOLEAN :
              Process(cmd, tf) => Obeys(prev', CollisionPoints(tf), cmd, tf)]_monitorVars
  BY ProcessKeepsMonitor
<1> QED
  BY <1>1, MonitorInvHolds, PTL DEF MonitorSpec

-----------------------------------------------------------------------------
(***************************************************************************)
(* The costmap filters.                                                    *)
(***************************************************************************)
Latched == {<<>>} \cup {<<m>> : m \in Masks}
Grids == {<<>>} \cup [0..(Master.size - 1) -> Int]
Subscriptions == [info : BOOLEAN, infoNew : BOOLEAN, topic : MaskTopics \cup {""}, maskNew : BOOLEAN]

FiltersTypes ==
    /\ filter \in FilterKinds
    /\ enabled \in BOOLEAN /\ fresh \in BOOLEAN
    /\ latched.info \in {<<>>} \cup {<<i>> : i \in Infos}
    /\ latched.masks \in [MaskTopics -> Latched]
    /\ latched \in [info : {latched.info}, masks : {latched.masks}]
    /\ sub \in Subscriptions
    /\ conv \in [base : Int, mult : Int, percent : BOOLEAN]
    /\ mask \in Latched
    /\ pose \in Int
    /\ last \in [phase : {"none", "bounds", "costs"}, area : Nat \X Nat,
                 before : Grids, after : Grids, ok : BOOLEAN]

(***************************************************************************)
(* A message that waits is there, a new keepout mask is there; the speed   *)
(* limit and the state last published are those that the filter compares   *)
(* the next one with.                                                      *)
(***************************************************************************)
FiltersInv ==
    /\ FiltersTypes
    /\ sub.infoNew => latched.info # <<>> /\ sub.info
    /\ sub.maskNew => sub.topic \in MaskTopics /\ latched.masks[sub.topic] # <<>>
    /\ sub.topic # "" => sub.info
    /\ fresh => mask # <<>>
    /\ filter = "speed" => speed.prev = Announced
    /\ filter = "binary" /\ (sub.info \/ mask # <<>>) => heard = <<flipped>>

\* The least and the greatest of two numbers.
LEMMA MinMaxOfTwo ==
    ASSUME NEW a \in Int, NEW b \in Int
    PROVE  /\ Min({a, b}) = IF a <= b THEN a ELSE b
           /\ Max({a, b}) = IF a <= b THEN b ELSE a
<1>1. ASSUME NEW x \in Int, NEW S, x \in S, \A y \in S : y \in Int /\ x <= y
      PROVE  Min(S) = x
  <2>1. \E z \in S : \A y \in S : z <= y
    BY <1>1
  <2>2. Min(S) \in S /\ \A y \in S : Min(S) <= y
    BY <2>1 DEF Min
  <2> DEFINE m == Min(S)
  <2> HIDE DEF m
  <2>3. m \in Int /\ m <= x /\ x <= m
    BY <1>1, <2>2 DEF m
  <2>4. m = x
    BY <2>3
  <2> QED
    BY <2>4 DEF m
<1>2. ASSUME NEW x \in Int, NEW S, x \in S, \A y \in S : y \in Int /\ x >= y
      PROVE  Max(S) = x
  <2>1. \E z \in S : \A y \in S : z >= y
    BY <1>2
  <2>2. Max(S) \in S /\ \A y \in S : Max(S) >= y
    BY <2>1 DEF Max
  <2> DEFINE m == Max(S)
  <2> HIDE DEF m
  <2>3. m \in Int /\ m >= x /\ x >= m
    BY <1>2, <2>2 DEF m
  <2>4. m = x
    BY <2>3
  <2> QED
    BY <2>4 DEF m
<1>3. CASE a <= b
  BY <1>1, <1>2, <1>3
<1>4. CASE ~(a <= b)
  BY <1>1, <1>2, <1>4
<1> QED
  BY <1>3, <1>4

\* A cell is at or past an index that is truncated exactly if its end is past the place.
LEMMA TruncReaches ==
    ASSUME NEW x \in Int, NEW d \in Nat \ {0}, NEW g \in Nat
    PROVE  /\ Trunc(x, d) \in Int
           /\ x >= 0 => Trunc(x, d) \in Nat
           /\ g >= Trunc(x, d) <=> d * (g + 1) > x
<1>1. CASE x >= 0
  <2> DEFINE q == x \div d  end == d * (g + 1)
  <2>1. Trunc(x, d) = q
    BY <1>1 DEF Trunc
  <2>2. q \in Int /\ d * q <= x /\ x < d * (q + 1)
    OBVIOUS
  <2> HIDE DEF q
  <2>3. q \in Nat
    <3> SUFFICES ASSUME q < 0 PROVE FALSE
      BY <2>2
    <3> DEFINE k == -(q + 1)
    <3>1. k \in Nat /\ d * (q + 1) = -(d * k)
      BY <2>2
    <3> HIDE DEF k
    <3>2. d * k >= 0
      BY <3>1
    <3> QED
      BY <1>1, <2>2, <3>1, <3>2
  <2>4. end \in Int
    OBVIOUS
  <2>5. CASE g >= q
    <3> DEFINE k == g - q
    <3>1. k \in Nat /\ end = d * (q + 1) + d * k
      BY <2>3, <2>5
    <3> HIDE DEF k, end
    <3>2. d * k \in Int /\ d * k >= 0 /\ d * (q + 1) \in Int
      BY <2>3, <3>1
    <3>3. end > x
      BY <2>2, <3>1, <3>2
    <3> QED
      BY <2>1, <2>3, <2>5, <3>3 DEF end
  <2>6. CASE ~(g >= q)
    <3> DEFINE k == q - (g + 1)
    <3>1. k \in Nat /\ d * q = end + d * k
      BY <2>3, <2>6
    <3> HIDE DEF k, end
    <3>2. d * k \in Int /\ d * k >= 0 /\ d * q \in Int
      BY <2>3, <3>1
    <3>3. ~(end > x)
      BY <2>2, <2>4, <3>1, <3>2
    <3> QED
      BY <2>1, <2>3, <2>6, <3>3 DEF end
  <2> QED
    BY <2>5, <2>6
<1>2. CASE x < 0
  <2> DEFINE y == -x  q == y \div d
  <2>1. y \in Nat /\ Trunc(x, d) = -q
    BY <1>2 DEF Trunc
  <2> HIDE DEF y
  <2>2. q \in Int /\ y < d * (q + 1)
    BY <2>1
  <2> HIDE DEF q
  <2>3. q \in Nat
    <3> SUFFICES ASSUME q < 0 PROVE FALSE
      BY <2>2
    <3> DEFINE k == -(q + 1)
    <3>1. k \in Nat /\ d * (q + 1) = -(d * k)
      BY <2>2
    <3> HIDE DEF k
    <3>2. d * k >= 0
      BY <3>1
    <3> QED
      BY <2>1, <2>2, <3>1, <3>2
  <2>4. g >= -q /\ -q \in Int
    BY <2>3
  <2>5. d * (g + 1) \in Int /\ d * (g + 1) >= 0
    OBVIOUS
  <2> QED
    BY <1>2, <2>1, <2>4, <2>5
<1> QED
  BY <1>1, <1>2

\* The types of the filters' constants that the proofs below need one at a time.
LEMMA FiltersConstants ==
    /\ MaskShift \in Int /\ DefaultState \in BOOLEAN
    /\ Beneath \subseteq [0..(Master.size - 1) -> 0..255]
    /\ \A p \in Places : p \in Int
BY FiltersAssumption

\* Where a place is on the mask: in the one cell that holds it, or off the mask.
LEMMA WorldToMaskIsExact ==
    ASSUME NEW o \in Int, NEW h \in Nat \ {0}, NEW n \in Nat, NEW w \in Int,
           mask[1].origin = o, mask[1].half = h, Len(mask[1].cells) = n
    PROVE  /\ WorldToMask(w) # -1 => WorldToMask(w) \in MaskCells
           /\ \A c \in MaskCells : InCell(w, c) <=> c = WorldToMask(w)
<1> DEFINE d == w - o  e == 2 * h  c0 == Trunc(d, e)
<1>1. WorldToMask(w) = IF w < o \/ c0 >= n THEN -1 ELSE c0
  BY DEF WorldToMask
<1>2. MaskCells = 0..(n - 1) /\ \A c : InCell(w, c) <=> d \in (e * c)..(e * (c + 1) - 1)
  BY DEF MaskCells, InCell
<1>3. d \in Int /\ (d >= 0 <=> ~(w < o)) /\ e \in Nat \ {0}
  OBVIOUS
<1> HIDE DEF d, e
<1>4. ASSUME NEW c \in Nat PROVE InCell(w, c) <=> d >= e * c /\ e * (c + 1) > d
  <2> DEFINE l == e * c  r == e * (c + 1)
  <2>1. l \in Int /\ r \in Int
    BY <1>3
  <2>2. InCell(w, c) <=> d \in l..(r - 1)
    BY <1>2
  <2> HIDE DEF l, r
  <2>3. d \in l..(r - 1) <=> d >= l /\ r > d
    BY <1>3, <2>1
  <2> QED
    BY <2>2, <2>3 DEF l, r
<1>5. CASE d >= 0
  <2>1. c0 \in Nat /\ \A g \in Nat : g >= c0 <=> e * (g + 1) > d
    BY <1>3, <1>5, TruncReaches
  <2> HIDE DEF c0
  <2>2. ASSUME NEW c \in Nat PROVE d >= e * c <=> c0 >= c
    <3>1. CASE c = 0
      BY <1>3, <1>5, <2>1, <3>1
    <3>2. CASE c # 0
      <4> DEFINE g == c - 1
      <4>1. g \in Nat /\ c = g + 1
        BY <3>2
      <4> HIDE DEF g
      <4>2. g >= c0 <=> e * (g + 1) > d
        BY <2>1, <4>1
      <4>3. e * (g + 1) \in Int
        BY <1>3, <4>1
      <4> QED
        BY <1>3, <2>1, <4>1, <4>2, <4>3
    <3> QED
      BY <3>1, <3>2
  <2>3. \A c \in Nat : InCell(w, c) <=> c = c0
    <3> TAKE c \in Nat
    <3>1. InCell(w, c) <=> c0 >= c /\ c >= c0
      BY <1>4, <2>1, <2>2
    <3> QED
      BY <2>1, <3>1
  <2> QED
    BY <1>1, <1>2, <1>3, <1>5, <2>1, <2>3
<1>6. CASE d < 0
  <2>1. WorldToMask(w) = -1
    BY <1>1, <1>3, <1>6
  <2>2. \A c \in 0..(n - 1) : ~InCell(w, c)
    <3> TAKE c \in 0..(n - 1)
    <3>1. c \in Nat /\ e * c >= 0 /\ e * c \in Int
      BY <1>3
    <3> QED
      BY <1>3, <1>4, <1>6, <3>1
  <2> QED
    BY <1>2, <2>1, <2>2
<1> QED
  BY <1>3, <1>5, <1>6

\* The cost that a known value becomes is a known cost.
LEMMA MaskCostKnown ==
    ASSUME NEW d \in -1..100
    PROVE  /\ MaskCost(d) \in 0..255
           /\ MaskCost(d) = NoInfoCost <=> d = Unknown
BY DEF MaskCost, NoInfoCost, Unknown

\* The mask in use is one of the masks.
LEMMA MaskTyped ==
    ASSUME FiltersTypes, mask # <<>>
    PROVE  /\ mask[1].origin \in Int /\ mask[1].frame \in {"global", "mask"}
           /\ mask[1].half \in Nat \ {0}
           /\ mask[1].cells \in Seq(-1..100) /\ Len(mask[1].cells) \in Nat
           /\ \A c \in MaskCells : MaskData(c) \in -1..100
<1>1. PICK m \in Masks : mask = <<m>>
  BY DEF FiltersTypes, Latched
<1>2. mask[1] = m
  BY <1>1
<1>3. /\ m.origin \in Int /\ m.frame \in {"global", "mask"} /\ m.cells \in Seq(-1..100)
      /\ m.half \in Nat \ {0}
  BY FiltersAssumption
<1>4. Len(m.cells) \in Nat /\ \A c \in 0..(Len(m.cells) - 1) : m.cells[c + 1] \in -1..100
  <2> DEFINE s == m.cells  V == -1..100
  <2>1. s \in Seq(V)
    BY <1>3
  <2> HIDE DEF s, V
  <2>2. Len(s) \in Nat /\ \A i \in 1..Len(s) : s[i] \in V
    BY <2>1
  <2>3. \A c \in 0..(Len(s) - 1) : s[c + 1] \in V
    BY <2>2
  <2> QED
    BY <2>2, <2>3 DEF s, V
<1> QED
  BY <1>2, <1>3, <1>4 DEF MaskCells, MaskData

\* The loop in the frame of the costmap visits the cells of the window that it reaches.
LEMMA KeepoutVisits ==
    ASSUME NEW o \in Int, NEW M \in Int, NEW n \in Nat, NEW h \in Nat \ {0}, NEW H \in Nat \ {0},
           NEW a \in Nat, NEW b \in Nat, NEW g \in Nat
    PROVE  LET from == Trunc(o + h - M, 2 * H)
               to == Trunc(o + (2 * n + 1) * h - M, 2 * H)
               along == M + (2 * g + 1) * H - o
           IN  g \in (IF from >= b \/ to <= a THEN {} ELSE Max({a, from})..(Min({b, to}) - 1))
                 <=> /\ g \in a..(b - 1)
                     /\ along > h - H /\ along - 2 * h * n <= h - H
<1> DEFINE d == 2 * H
           y == o + h - M  z == o + (2 * n + 1) * h - M
           from == Trunc(y, d)  to == Trunc(z, d)
           p == (2 * g + 1) * H  q == 2 * h * n
           along == M + p - o
           x == Max({a, from})  e == Min({b, to})
           range == IF from >= b \/ to <= a THEN {} ELSE x..(e - 1)
<1>1. /\ d \in Nat \ {0} /\ y \in Int /\ z \in Int /\ p \in Int /\ q \in Int
      /\ d * (g + 1) = p + H /\ z = o + q + h - M
  OBVIOUS
<1> HIDE DEF d
<1>2. /\ from \in Int /\ (g >= from <=> d * (g + 1) > y)
      /\ to \in Int /\ (g >= to <=> d * (g + 1) > z)
  <2> HIDE DEF y, z
  <2> QED
    BY <1>1, TruncReaches
<1> HIDE DEF z, p, q, from, to
<1>3. /\ g >= from <=> along > h - H
      /\ g < to <=> along - q <= h - H
  BY <1>1, <1>2
<1>4. x = (IF a <= from THEN from ELSE a) /\ e = (IF b <= to THEN b ELSE to)
  <2>1. a \in Int /\ b \in Int
    OBVIOUS
  <2>2. x = (IF a <= from THEN from ELSE a)
    BY ONLY <1>2, <2>1, MinMaxOfTwo
  <2>3. e = (IF b <= to THEN b ELSE to)
    BY ONLY <1>2, <2>1, MinMaxOfTwo
  <2> QED
    BY <2>2, <2>3
<1> HIDE DEF x, e, along
<1>5. g \in range <=> g \in a..(b - 1) /\ g >= from /\ g < to
  <2>1. CASE from >= b \/ to <= a
    BY <1>2, <2>1
  <2>2. CASE ~(from >= b \/ to <= a)
    <3>1. range = x..(e - 1)
      BY <2>2
    <3>2. x \in Int /\ e \in Int
      BY <1>2, <1>4
    <3> HIDE DEF range
    <3> QED
      BY <1>2, <1>4, <3>1, <3>2
  <2> QED
    BY <2>1, <2>2
<1> QED
  BY <1>3, <1>5 DEF x, e, along, from, to, y, z, d, p, q

\* process() of the keepout filter marks the cells of the window.
LEMMA KeepoutIsExact ==
    ASSUME FiltersTypes, mask # <<>>, NEW area \in Nat \X Nat, NEW grid \in Beneath
    PROVE  /\ KeepoutProcess(area, grid, TRUE) \in Grids
           /\ KeepoutMarks(area, grid, KeepoutProcess(area, grid, TRUE))
<1> DEFINE o == mask[1].origin  n == Len(mask[1].cells)  M == Master.origin
           h == mask[1].half  H == Master.half
           from == Trunc(o + h - M, 2 * H)  to == Trunc(o + (2 * n + 1) * h - M, 2 * H)
           same == mask[1].frame = "global"  a == area[1]  b == area[2]
           visited == IF ~same THEN a..(b - 1)
                      ELSE IF from >= b \/ to <= a THEN {}
                      ELSE Max({a, from})..(Min({b, to}) - 1)
           W(g) == TransformPose(M + (2 * g + 1) * H)
           At(g) == WorldToMask(W(g))
           Data(g) == IF At(g) = -1 THEN NoInfoCost ELSE MaskCost(MaskData(At(g)))
           After(g) == IF /\ g \in visited /\ Data(g) # NoInfoCost
                          /\ Data(g) > grid[g] \/ grid[g] = NoInfoCost
                       THEN Data(g) ELSE grid[g]
           after == KeepoutProcess(area, grid, TRUE)
<1>1. after = [g \in DOMAIN grid |-> After(g)]
  BY DEF KeepoutProcess, CellCentre
<1>2. DOMAIN grid = 0..(Master.size - 1) /\ \A g \in DOMAIN grid : grid[g] \in 0..255
  <2> DEFINE D == 0..(Master.size - 1)  R == 0..255
  <2>1. Beneath \subseteq [D -> R]
    BY FiltersAssumption
  <2> HIDE DEF D, R
  <2>2. DOMAIN grid = D /\ \A g \in DOMAIN grid : grid[g] \in R
    BY <2>1
  <2> QED
    BY <2>2 DEF D, R
<1>3. /\ o \in Int /\ n \in Nat /\ M \in Int /\ a \in Nat /\ b \in Nat /\ Master.size \in Nat
      /\ h \in Nat \ {0} /\ H \in Nat \ {0}
      /\ \A c \in MaskCells : MaskData(c) \in -1..100
  BY MaskTyped, FiltersAssumption
<1> HIDE DEF visited, Data, After, At, W, o, n, M, h, H, same, a, b, from, to
<1>4. ASSUME NEW g \in DOMAIN grid
      PROVE  /\ W(g) \in Int
             /\ same => W(g) = M + (2 * g + 1) * H
             /\ At(g) # -1 => At(g) \in MaskCells
             /\ \A c \in MaskCells : InCell(W(g), c) <=> c = At(g)
  <2> DEFINE centre == M + (2 * g + 1) * H
  <2>1. centre \in Int
    BY <1>2, <1>3
  <2> HIDE DEF centre
  <2>2. W(g) \in Int /\ (same => W(g) = centre)
    BY <2>1, FiltersConstants DEF W, TransformPose, same, centre
  <2>3. /\ At(g) # -1 => At(g) \in MaskCells
        /\ \A c \in MaskCells : InCell(W(g), c) <=> c = At(g)
    BY <1>3, <2>2, WorldToMaskIsExact DEF At, o, n, h
  <2> QED
    BY <2>2, <2>3 DEF centre
<1>5. ASSUME NEW g \in DOMAIN grid
      PROVE  /\ Data(g) \in 0..255
             /\ At(g) # -1 => (Data(g) = NoInfoCost <=> MaskData(At(g)) = Unknown)
             /\ At(g) = -1 => Data(g) = NoInfoCost
  <2>1. CASE At(g) = -1
    BY <2>1 DEF Data, NoInfoCost
  <2>2. CASE At(g) # -1
    <3> DEFINE d == MaskData(At(g))
    <3>1. At(g) \in MaskCells
      BY <1>4, <2>2
    <3>2. d \in -1..100
      BY <1>3, <3>1
    <3>3. Data(g) = MaskCost(d)
      BY <2>2 DEF Data
    <3> HIDE DEF d
    <3>4. Data(g) \in 0..255 /\ (Data(g) = NoInfoCost <=> d = Unknown)
      BY ONLY <3>2, <3>3, MaskCostKnown
    <3> QED
      BY <2>2, <3>4 DEF d
  <2> QED
    BY <2>1, <2>2
<1>6. ASSUME NEW g \in DOMAIN grid PROVE After(g) \in 0..255
  BY <1>2, <1>5 DEF After
<1>7. after \in Grids
  <2> DEFINE D == 0..(Master.size - 1)
  <2>1. \A g \in DOMAIN grid : After(g) \in Int
    <3> TAKE g \in DOMAIN grid
    <3>1. After(g) \in 0..255
      BY <1>6
    <3> QED
      BY ONLY <3>1
  <2>2. after = [g \in D |-> After(g)] /\ \A g \in D : After(g) \in Int
    BY <1>1, <1>2, <2>1
  <2> HIDE DEF after, D
  <2>3. after \in [D -> Int]
    BY <2>2
  <2> QED
    BY <2>3 DEF Grids, D
<1>8. ASSUME NEW g \in DOMAIN grid PROVE g \in visited <=> g \in a..(b - 1) /\ Reached(W(g))
  <2>1. g \in Nat
    BY <1>2, <1>3
  <2>2. CASE ~same
    BY <2>2 DEF visited, Reached, same
  <2>3. CASE same
    <3> DEFINE along == M + (2 * g + 1) * H - o
    <3>1. g \in visited <=> /\ g \in a..(b - 1)
                            /\ along > h - H /\ along - 2 * h * n <= h - H
      BY <1>3, <2>1, <2>3, KeepoutVisits DEF visited, from, to
    <3>2. Reached(W(g)) <=> along > h - H /\ along - 2 * h * n <= h - H
      <4>1. Reached(W(g)) <=> W(g) - o > h - H /\ W(g) - o - 2 * h * n <= h - H
        BY <2>3 DEF Reached, same, o, h, H, n
      <4>2. W(g) = M + (2 * g + 1) * H
        BY <1>4, <2>3
      <4> DEFINE x == W(g)  y == M + (2 * g + 1) * H
      <4>3. x = y
        BY <4>2
      <4> HIDE DEF x, y
      <4>4. x - o = y - o
        BY <4>3
      <4> DEFINE u == x - o  v == y - o  q == 2 * h * n  e == h - H
      <4>5. (Reached(x) <=> u > e /\ u - q <= e) /\ u = v
        BY <4>1, <4>4 DEF x
      <4>6. Reached(x) <=> v > e /\ v - q <= e
        <5> HIDE DEF u, v, q, e
        <5> QED
          BY <4>5
      <4>7. v = along
        <5> DEFINE p == (2 * g + 1) * H
        <5>1. p \in Int
          BY <1>3, <2>1
        <5> HIDE DEF p
        <5>2. (M + p) - o = M + p - o
          BY <1>3, <5>1
        <5> QED
          BY <5>2 DEF v, y, p
      <4> HIDE DEF along, v, q, e
      <4>8. Reached(x) <=> along > e /\ along - q <= e
        BY <4>6, <4>7
      <4> QED
        BY <4>8 DEF x, q, e
    <3> QED
      BY <3>1, <3>2
  <2> QED
    BY <2>2, <2>3
<1>10. ASSUME NEW g \in DOMAIN grid
       PROVE  LET over == {c \in MaskCells : /\ InCell(W(g), c) /\ MaskData(c) # Unknown
                                             /\ g \in a..(b - 1) /\ Reached(W(g))}
              IN  IF over = {} THEN After(g) = grid[g]
                  ELSE \A c \in over :
                         After(g) = IF grid[g] = NoInfoCost THEN MaskCost(MaskData(c))
                                    ELSE Max({MaskCost(MaskData(c)), grid[g]})
  <2> DEFINE over == {c \in MaskCells : /\ InCell(W(g), c) /\ MaskData(c) # Unknown
                                        /\ g \in a..(b - 1) /\ Reached(W(g))}
  <2>1. \A c \in over : c = At(g) /\ c \in MaskCells /\ g \in visited /\ MaskData(c) # Unknown
    BY <1>4, <1>8
  <2>2. CASE over = {}
    <3>1. g \in visited /\ At(g) # -1 => MaskData(At(g)) = Unknown
      BY <1>4, <1>8, <2>2
    <3>2. ~(g \in visited /\ Data(g) # NoInfoCost)
      BY <1>5, <3>1
    <3>3. After(g) = grid[g]
      BY <3>2 DEF After
    <3> QED
      BY <2>2, <3>3
  <2>3. ASSUME NEW c \in over
        PROVE  After(g) = IF grid[g] = NoInfoCost THEN MaskCost(MaskData(c))
                          ELSE Max({MaskCost(MaskData(c)), grid[g]})
    <3> DEFINE d == MaskCost(MaskData(c))  e == grid[g]
    <3>1. c = At(g) /\ c \in MaskCells /\ MaskData(c) # Unknown /\ g \in visited
      BY <2>1, <2>3
    <3>2. At(g) # -1
      BY <1>3, <3>1 DEF MaskCells
    <3>3. g \in visited /\ Data(g) = d /\ Data(g) # NoInfoCost
      BY <1>5, <3>1, <3>2 DEF Data
    <3> HIDE DEF d
    <3>4. d \in Int /\ e \in Int
      <4>1. Data(g) \in 0..255
        BY <1>5
      <4>2. e \in 0..255
        BY <1>2
      <4> HIDE DEF e
      <4>3. d \in 0..255
        BY <3>3, <4>1
      <4> QED
        BY <4>2, <4>3
    <3>5. After(g) = IF d > e \/ e = NoInfoCost THEN d ELSE e
      BY <3>3 DEF After
    <3> HIDE DEF e
    <3>6. Max({d, e}) = IF d <= e THEN e ELSE d
      BY ONLY <3>4, MinMaxOfTwo
    <3> QED
      BY <3>4, <3>5, <3>6 DEF d, e
  <2> QED
    BY <2>2, <2>3
<1>11. \A g \in DOMAIN after : after[g] = After(g) /\ g \in DOMAIN grid
  BY <1>1
<1>12. KeepoutMarks(area, grid, after)
  <2> SUFFICES ASSUME NEW g \in DOMAIN after
               PROVE  LET w == TransformPose(CellCentre(g))
                          over == {c \in MaskCells : /\ InCell(w, c) /\ MaskData(c) # Unknown
                                     /\ g \in area[1]..(area[2] - 1) /\ Reached(w)}
                      IN  IF over = {} THEN after[g] = grid[g]
                          ELSE \A c \in over :
                            LET cost == MaskCost(MaskData(c))
                            IN  after[g] = IF grid[g] = NoInfoCost THEN cost
                                           ELSE Max({cost, grid[g]})
    BY DEF KeepoutMarks
  <2> HIDE DEF after
  <2> QED
    BY <1>10, <1>11 DEF W, M, H, a, b, CellCentre
<1> QED
  BY <1>7, <1>12

\* The robot's cell is the one that worldToMask() finds for its pose.
LEMMA RobotCellIsExact ==
    ASSUME FiltersTypes, mask # <<>>
    PROVE  LET c == WorldToMask(TransformPose(pose)) IN
           /\ c # -1 => c \in MaskCells
           /\ \A d : d \in RobotCell <=> d = c /\ c # -1
<1> DEFINE w == TransformPose(pose)  o == mask[1].origin  n == Len(mask[1].cells)
<1>1. o \in Int /\ n \in Nat /\ mask[1].half \in Nat \ {0}
  BY MaskTyped
<1>2. w \in Int
  <2>1. pose \in Int
    BY DEF FiltersTypes
  <2> QED
    BY <2>1, FiltersConstants DEF TransformPose
<1> HIDE DEF w
<1> DEFINE c == WorldToMask(w)
<1>3. /\ c # -1 => c \in MaskCells
      /\ \A d \in MaskCells : InCell(w, d) <=> d = c
  BY <1>1, <1>2, WorldToMaskIsExact
<1>4. RobotCell = {d \in MaskCells : InCell(w, d)}
  BY DEF RobotCell, w
<1>5. -1 \notin MaskCells
  BY <1>1 DEF MaskCells
<1> HIDE DEF c
<1>6. \A d : d \in RobotCell <=> d = c /\ c # -1
  BY <1>3, <1>4, <1>5
<1> QED
  BY <1>3, <1>6 DEF c, w

\* process() of the speed filter publishes the limit of the robot's cell.
LEMMA SpeedIsExact ==
    ASSUME FiltersInv, filter = "speed", mask # <<>>, NEW ok \in BOOLEAN,
           SpeedProcess(WorldToMask(TransformPose(pose)), ok)
    PROVE  /\ ok /\ ~crashed' => SpeedSays
           /\ ~ok => heard' = heard
           /\ speed'.prev = IF heard' = <<>> THEN NoLimit ELSE heard'[1].limit
<1> DEFINE c == WorldToMask(TransformPose(pose))  d == MaskData(c)  v == Limit(d)
           message == [limit |-> v, percent |-> conv.percent]
<1>1. speed.prev = Announced
  BY DEF FiltersInv
<1>2. \A e : e \in RobotCell <=> e = c /\ c # -1
  BY RobotCellIsExact DEF FiltersInv
<1>3. IF ok /\ c # -1 /\ d # Unknown
      THEN /\ speed' = [limit |-> v, prev |-> IF pub THEN v ELSE speed.prev]
           /\ IF v = speed.prev THEN UNCHANGED <<heard, crashed>>
              ELSE IF pub THEN heard' = <<message>> /\ UNCHANGED crashed
              ELSE crashed' = TRUE /\ UNCHANGED heard
      ELSE UNCHANGED <<speed, heard, crashed>>
  BY DEF SpeedProcess
<1>4. message.limit = v
  OBVIOUS
<1> HIDE DEF c, v, message
<1>5. CASE ok /\ c # -1 /\ d # Unknown
  <2>1. /\ speed'.prev = IF pub THEN v ELSE Announced
        /\ IF v = Announced THEN heard' = heard
           ELSE IF pub THEN heard' = <<message>> ELSE crashed' /\ heard' = heard
    BY <1>1, <1>3, <1>5
  <2>2. speed'.prev = IF heard' = <<>> THEN NoLimit ELSE heard'[1].limit
    <3>1. CASE v = Announced \/ ~pub
      BY <2>1, <3>1 DEF Announced
    <3>2. CASE v # Announced /\ pub
      <4>1. speed'.prev = v /\ heard' = <<message>>
        BY <2>1, <3>2
      <4>2. heard' # <<>> /\ heard'[1] = message
        BY <4>1
      <4> QED
        BY <1>4, <4>1, <4>2
    <3> QED
      BY <3>1, <3>2
  <2>3. \A e : e \in RobotCell <=> e = c
    BY <1>2, <1>5
  <2>4. ~crashed' => heard' = IF v = Announced THEN heard ELSE <<message>>
    BY <2>1
  <2>5. ~crashed' => SpeedSays
    BY <1>5, <2>3, <2>4 DEF SpeedSays, v, message
  <2> QED
    BY <1>5, <2>2, <2>5
<1>6. CASE ~(ok /\ c # -1 /\ d # Unknown)
  <2>1. UNCHANGED <<speed, heard>>
    BY <1>3, <1>6
  <2>2. ok => {e \in RobotCell : MaskData(e) # Unknown} = {}
    BY <1>2, <1>6
  <2>3. ok => SpeedSays
    BY <2>1, <2>2 DEF SpeedSays
  <2> QED
    BY <1>1, <2>1, <2>3 DEF Announced
<1> QED
  BY <1>5, <1>6

\* process() of the binary filter publishes the state of the robot's cell.
LEMMA BinaryIsExact ==
    ASSUME FiltersInv, filter = "binary", heard = <<flipped>>, mask # <<>>, NEW ok \in BOOLEAN,
           BinaryProcess(WorldToMask(TransformPose(pose)), ok)
    PROVE  /\ ok /\ ~crashed' => BinarySays
           /\ ~ok => heard' = heard
           /\ heard' = <<flipped'>>
<1> DEFINE c == WorldToMask(TransformPose(pose))  d == MaskData(c)
           over == conv.base + d * conv.mult > FlipThreshold
           now == IF over THEN ~DefaultState ELSE DefaultState
<1>1. c # -1 <=> RobotCell # {}
  BY RobotCellIsExact DEF FiltersInv
<1>2. \A e : e \in RobotCell <=> e = c /\ c # -1
  BY RobotCellIsExact DEF FiltersInv
<1>3. /\ ok /\ c = -1 => ChangeState(DefaultState)
      /\ ok /\ c # -1 /\ d # Unknown /\ now # flipped => ChangeState(now)
      /\ ~ok \/ (c # -1 /\ ~(d # Unknown /\ now # flipped)) => UNCHANGED <<flipped, heard, crashed>>
  BY DEF BinaryProcess
<1> HIDE DEF c, over
<1>4. DefaultState \in BOOLEAN /\ over \in BOOLEAN
  BY FiltersConstants DEF over
<1>5. (now # DefaultState) = over
  BY <1>4
<1> HIDE DEF now
<1>6. \A told : ChangeState(told) =>
                   /\ heard' = <<flipped'>>
                   /\ ~crashed' => heard' = <<told>>
  BY DEF ChangeState
<1>7. CASE ok /\ c = -1
  <2>1. heard' = <<flipped'>> /\ (~crashed' => heard' = <<DefaultState>>)
    BY <1>3, <1>6, <1>7
  <2>2. RobotCell = {}
    BY <1>1, <1>7
  <2> QED
    BY <1>7, <2>1, <2>2 DEF BinarySays
<1>8. CASE ok /\ c # -1 /\ d # Unknown
  <2>1. heard' = <<flipped'>> /\ (~crashed' => heard' = <<now>>)
    <3>1. CASE now # flipped
      BY <1>3, <1>6, <1>8, <3>1
    <3>2. CASE now = flipped
      BY <1>3, <1>8, <3>2
    <3> QED
      BY <3>1, <3>2
  <2>2. RobotCell # {} /\ \A e \in RobotCell : e = c
    BY <1>1, <1>2, <1>8
  <2>3. ~crashed' => heard'[1] = now
    BY <2>1
  <2>4. ~crashed' => (heard'[1] # DefaultState) = over
    BY <1>5, <2>3
  <2>5. ~crashed' => BinarySays
    BY <1>8, <2>2, <2>4 DEF BinarySays, over
  <2> QED
    BY <1>8, <2>1, <2>5
<1>9. CASE ~ok \/ (c # -1 /\ ~(d # Unknown))
  <2>1. UNCHANGED <<flipped, heard>>
    BY <1>3, <1>9
  <2>2. ok => RobotCell # {} /\ \A e \in RobotCell : e = c /\ MaskData(e) = Unknown
    BY <1>1, <1>2, <1>9
  <2>3. ok => BinarySays
    BY <2>1, <2>2 DEF BinarySays
  <2> QED
    BY <2>1, <2>3
<1> QED
  BY <1>7, <1>8, <1>9

\* updateCosts() of the filters does what the mask says and keeps the invariant.
LEMMA UpdateCostsIsExact ==
    ASSUME FiltersInv, NEW layers \in Areas, NEW grid \in Beneath, NEW tf \in BOOLEAN,
           FilterUpdateCosts(layers, grid, tf)
    PROVE  /\ FiltersInv'
           /\ ~crashed' => IF enabled /\ mask # <<>> /\ last'.ok THEN MaskIsApplied
                           ELSE last'.after = last'.before /\ heard' = heard
<1> DEFINE area == <<Min({layers[1], last.area[1]}), Max({layers[2], last.area[2]})>>
           works == enabled /\ mask # <<>>
           ok == tf \/ (mask # <<>> /\ mask[1].frame = "global")
           c == WorldToMask(TransformPose(pose))
           after == IF works /\ filter = "keepout" THEN KeepoutProcess(area, grid, ok) ELSE grid
<1>1. /\ last.phase = "bounds"
      /\ last' = [phase |-> "costs", area |-> area, before |-> grid, ok |-> ok,
                  after |-> after]
      /\ UNCHANGED <<filter, enabled, active, latched, sub, conv, mask, fresh, pose, pub, happened>>
  BY DEF FilterUpdateCosts, wiring
<1>2. /\ works /\ filter = "speed" => SpeedProcess(c, ok)
      /\ works /\ filter = "binary" => BinaryProcess(c, ok)
      /\ ~(works /\ filter \in {"speed", "binary"}) => UNCHANGED <<speed, heard, flipped, crashed>>
  BY DEF FilterUpdateCosts
<1>3. filter \in {"speed", "keepout", "binary"} /\ FiltersTypes /\ enabled \in BOOLEAN
  BY FiltersAssumption DEF FiltersInv, FiltersTypes
<1> HIDE DEF after
<1>4. works \in BOOLEAN /\ ok \in BOOLEAN
  OBVIOUS
<1>5. area \in Nat \X Nat
  <2> DEFINE a == layers[1]  b == layers[2]  x == last.area[1]  y == last.area[2]
  <2>1. a \in Nat /\ b \in Nat
    BY FiltersAssumption
  <2>2. x \in Nat /\ y \in Nat
    BY <1>3 DEF FiltersTypes
  <2> HIDE DEF a, b, x, y
  <2>3. Min({a, x}) = (IF a <= x THEN a ELSE x)
    BY ONLY <2>1, <2>2, MinMaxOfTwo
  <2>4. Max({b, y}) = (IF b <= y THEN y ELSE b)
    BY ONLY <2>1, <2>2, MinMaxOfTwo
  <2> DEFINE p == Min({a, x})  q == Max({b, y})
  <2>5. p \in Nat /\ q \in Nat
    BY <2>1, <2>2, <2>3, <2>4
  <2> HIDE DEF p, q
  <2>6. <<p, q>> \in Nat \X Nat
    BY <2>5
  <2> QED
    BY <2>6 DEF p, q, a, b, x, y
<1> HIDE DEF area, ok
<1>6. grid \in Grids
  <2> DEFINE D == 0..(Master.size - 1)  R == 0..255
  <2>1. Beneath \subseteq [D -> R] /\ R \subseteq Int
    BY FiltersConstants
  <2> HIDE DEF D, R
  <2>2. grid \in [D -> Int]
    BY <2>1
  <2> QED
    BY <2>2 DEF Grids, D
<1>7. after \in Grids /\ (~(works /\ ok) => after = grid)
  <2>1. CASE works /\ filter = "keepout"
    <3>1. CASE ok
      <4>1. ok = TRUE
        BY <1>4, <3>1
      <4> QED
        BY <1>3, <1>5, <2>1, <4>1, KeepoutIsExact DEF after
    <3>2. CASE ~ok
      <4>1. ok = FALSE
        BY <1>4, <3>2
      <4>2. KeepoutProcess(area, grid, FALSE) = [g \in DOMAIN grid |-> grid[g]]
        BY DEF KeepoutProcess
      <4>3. [g \in DOMAIN grid |-> grid[g]] = grid
        <5> DEFINE D == 0..(Master.size - 1)  R == 0..255
        <5>1. Beneath \subseteq [D -> R]
          BY FiltersAssumption
        <5> HIDE DEF D, R
        <5> QED
          BY <5>1
      <4> QED
        BY <1>6, <2>1, <4>1, <4>2, <4>3 DEF after
    <3> QED
      BY <3>1, <3>2
  <2>2. CASE ~(works /\ filter = "keepout")
    BY <1>6, <2>2 DEF after
  <2> QED
    BY <2>1, <2>2
<1>8. FiltersTypes'
  <2>1. last' \in [phase : {"none", "bounds", "costs"}, area : Nat \X Nat,
                   before : Grids, after : Grids, ok : BOOLEAN]
    BY <1>1, <1>4, <1>5, <1>6, <1>7
  <2> QED
    BY <1>1, <1>3, <2>1 DEF FiltersTypes
<1>9. last'.phase = "costs" /\ last'.area = area /\ last'.before = grid /\ last'.after = after
      /\ last'.ok = ok
  BY <1>1
<1> HIDE DEF works
<1>10. CASE filter = "speed"
  <2>1. /\ works /\ ok /\ ~crashed' => SpeedSays
        /\ ~(works /\ ok) => heard' = heard
        /\ speed'.prev = IF heard' = <<>> THEN NoLimit ELSE heard'[1].limit
    <3>1. CASE works
      BY <1>2, <1>4, <1>10, <3>1, SpeedIsExact DEF works
    <3>2. CASE ~works
      <4>1. UNCHANGED <<speed, heard>>
        BY <1>2, <3>2
      <4> QED
        BY <1>10, <3>2, <4>1 DEF FiltersInv, Announced
    <3> QED
      BY <3>1, <3>2
  <2>2. FiltersInv'
    BY <1>1, <1>8, <1>10, <2>1 DEF FiltersInv, Announced
  <2>3. works /\ ok /\ ~crashed' => MaskIsApplied
    BY <1>10, <2>1 DEF MaskIsApplied
  <2> QED
    BY <1>7, <1>9, <2>1, <2>2, <2>3 DEF works
<1>11. CASE filter = "binary"
  <2>1. works => heard = <<flipped>>
    BY <1>11 DEF FiltersInv, works
  <2>2. /\ works /\ ok /\ ~crashed' => BinarySays
        /\ ~(works /\ ok) => heard' = heard
        /\ works => heard' = <<flipped'>>
        /\ ~works => heard' = heard /\ flipped' = flipped
    <3>1. CASE works
      BY <1>2, <1>4, <1>11, <2>1, <3>1, BinaryIsExact DEF works
    <3>2. CASE ~works
      BY <1>2, <3>2
    <3> QED
      BY <3>1, <3>2
  <2>3. FiltersInv'
    <3>1. sub.info \/ mask # <<>> => heard' = <<flipped'>>
      BY <1>11, <2>2 DEF FiltersInv
    <3> QED
      BY <1>1, <1>8, <1>11, <3>1 DEF FiltersInv
  <2>4. works /\ ok /\ ~crashed' => MaskIsApplied
    BY <1>11, <2>2 DEF MaskIsApplied
  <2> QED
    BY <1>7, <1>9, <2>2, <2>3, <2>4 DEF works
<1>12. CASE filter = "keepout"
  <2>1. FiltersInv' /\ heard' = heard
    BY <1>1, <1>2, <1>8, <1>12 DEF FiltersInv
  <2>2. ASSUME works, ok PROVE KeepoutMarks(last'.area, last'.before, last'.after)
    <3>1. after = KeepoutProcess(area, grid, TRUE)
      <4>1. ok = TRUE
        BY <1>4, <2>2
      <4> QED
        BY <1>12, <2>2, <4>1 DEF after
    <3> QED
      BY <1>3, <1>5, <1>9, <2>2, <3>1, KeepoutIsExact DEF works
  <2>3. works /\ ok => MaskIsApplied
    BY <1>12, <2>2 DEF MaskIsApplied
  <2> QED
    BY <1>7, <1>9, <2>1, <2>3 DEF works
<1> QED
  BY <1>3, <1>10, <1>11, <1>12

\* A subscription made field by field.
LEMMA SubscriptionMade ==
    ASSUME NEW t \in MaskTopics \cup {""}, NEW a \in BOOLEAN, NEW b \in BOOLEAN, NEW c \in BOOLEAN
    PROVE  [info |-> a, infoNew |-> b, topic |-> t, maskNew |-> c] \in Subscriptions
BY DEF Subscriptions

\* What the records of the filter are made of.
LEMMA SubscriptionsTyped ==
    ASSUME FiltersInv
    PROVE  /\ Unsubscribed \in Subscriptions /\ Forget \in Subscriptions
           /\ \A s \in Subscriptions : /\ Listening(s) \in Subscriptions
                                       /\ Listening(s).info
                                       /\ Listening(s).infoNew => latched.info # <<>>
                                       /\ Listening(s).topic = s.topic
                                       /\ Listening(s).maskNew = s.maskNew
           /\ \A i \in Infos : Follow(i) \in Subscriptions
           /\ DefaultConv \in [base : Int, mult : Int, percent : BOOLEAN]
           /\ ~Unsubscribed.maskNew /\ ~Forget.maskNew
           /\ ~Unsubscribed.infoNew /\ ~Forget.infoNew
           /\ ~Unsubscribed.info /\ Unsubscribed.topic = ""
<1>1. \A i \in Infos : Follow(i) \in Subscriptions
  <2> TAKE i \in Infos
  <2> DEFINE b == latched.masks[i.topic] # <<>>
  <2>1. i.topic \in MaskTopics /\ b \in BOOLEAN
    BY FiltersAssumption
  <2>2. Follow(i) = [info |-> TRUE, infoNew |-> FALSE, topic |-> i.topic, maskNew |-> b]
    BY DEF Follow
  <2> HIDE DEF b
  <2>3. i.topic \in MaskTopics \cup {""}
    BY <2>1
  <2> QED
    BY <2>1, <2>2, <2>3, SubscriptionMade
<1>2. ASSUME NEW r \in Subscriptions
      PROVE  /\ Listening(r) \in Subscriptions /\ Listening(r).info
             /\ Listening(r).infoNew => latched.info # <<>>
             /\ Listening(r).topic = r.topic /\ Listening(r).maskNew = r.maskNew
  <2> DEFINE b == latched.info # <<>>
  <2>1. Listening(r) = [r EXCEPT !.info = TRUE, !.infoNew = b]
    BY DEF Listening
  <2>2. b \in BOOLEAN /\ (b => latched.info # <<>>)
    OBVIOUS
  <2> HIDE DEF b
  <2> QED
    BY <2>1, <2>2 DEF Subscriptions
<1>3. /\ ~Unsubscribed.maskNew /\ ~Forget.maskNew
      /\ ~Unsubscribed.infoNew /\ ~Forget.infoNew
      /\ ~Unsubscribed.info /\ Unsubscribed.topic = ""
  BY DEF Unsubscribed, Forget
<1>4. /\ Unsubscribed \in Subscriptions /\ Forget \in Subscriptions
      /\ DefaultConv \in [base : Int, mult : Int, percent : BOOLEAN]
  BY DEF Unsubscribed, Forget, Subscriptions, DefaultConv
<1> QED
  BY <1>1, <1>2, <1>3, <1>4

\* Activation, deactivation and reset start with fresh subscriptions, and the
\* binary filter says its default state.
LEMMA LifecycleKeepsFilters ==
    ASSUME FiltersInv, FilterActivate \/ FilterDeactivate \/ ResetLayer
    PROVE  FiltersInv'
<1>1. /\ UNCHANGED <<filter, enabled, latched, mask, fresh, pose, speed, last>>
      /\ \/ InitializeFilter(sub)
         \/ ResetFilter
         \/ InitializeFilter(Unsubscribed)
         \/ UNCHANGED <<sub, conv, flipped, heard>>
  BY DEF FilterActivate, FilterDeactivate, ResetLayer
<1>2. filter \in {"speed", "keepout", "binary"} /\ FiltersTypes /\ sub \in Subscriptions
  BY FiltersAssumption DEF FiltersInv, FiltersTypes
<1>3. CASE InitializeFilter(sub) \/ InitializeFilter(Unsubscribed)
  <2>1. PICK s \in {sub, Unsubscribed} : InitializeFilter(s)
    BY <1>3
  <2>2. /\ sub' = Listening(s)
        /\ conv' = DefaultConv \/ conv' = conv
        /\ filter = "speed" => heard' = heard
        /\ filter = "binary" => heard' = <<flipped'>>
    BY <1>2, <2>1 DEF InitializeFilter, SpeedInitialize, KeepoutInitialize, BinaryInitialize
  <2>3. /\ sub' \in Subscriptions /\ sub'.info
        /\ sub'.infoNew => latched.info # <<>>
        /\ sub'.maskNew => sub'.topic \in MaskTopics /\ latched.masks[sub'.topic] # <<>>
    <3>1. s \in Subscriptions
      BY <1>2, SubscriptionsTyped
    <3>2. s.maskNew => s = sub
      BY SubscriptionsTyped
    <3>3. /\ sub' \in Subscriptions /\ sub'.info /\ (sub'.infoNew => latched.info # <<>>)
          /\ sub'.topic = s.topic /\ sub'.maskNew = s.maskNew
      BY <2>2, <3>1, SubscriptionsTyped
    <3> QED
      BY <3>2, <3>3 DEF FiltersInv
  <2>4. FiltersTypes'
    BY <1>1, <1>2, <2>2, <2>3, SubscriptionsTyped DEF FiltersTypes
  <2> QED
    BY <1>1, <2>2, <2>3, <2>4 DEF FiltersInv, Announced
<1>4. CASE ResetFilter
  <2>1. /\ sub' = Unsubscribed /\ conv' = conv
        /\ filter = "speed" => heard' = heard
        /\ filter = "binary" => heard' = <<flipped'>> \/ UNCHANGED <<heard, flipped>>
    BY <1>2, <1>4 DEF ResetFilter, SpeedReset, KeepoutReset, BinaryReset, ChangeState
  <2>2. FiltersTypes'
    BY <1>1, <1>2, <2>1, SubscriptionsTyped DEF FiltersTypes
  <2>3. ~sub'.maskNew /\ ~sub'.infoNew /\ ~sub'.info /\ sub'.topic = ""
    BY <2>1, SubscriptionsTyped
  <2> QED
    BY <1>1, <2>1, <2>2, <2>3 DEF FiltersInv, Announced
<1>5. CASE UNCHANGED <<sub, conv, flipped, heard>>
  <2>1. FiltersTypes'
    BY <1>1, <1>2, <1>5 DEF FiltersTypes
  <2> QED
    BY <1>1, <1>5, <2>1 DEF FiltersInv, Announced
<1> QED
  BY <1>1, <1>3, <1>4, <1>5

\* New messages on the latched topics.
LEMMA PublishingKeepsFilters ==
    ASSUME FiltersInv,
           \/ \E i \in Infos : PublishInfo(i)
           \/ \E t \in MaskTopics, m \in Masks : PublishMask(t, m)
    PROVE  FiltersInv'
<1>1. /\ FiltersTypes /\ latched \in [info : {latched.info}, masks : {latched.masks}]
      /\ sub \in Subscriptions
  BY DEF FiltersInv, FiltersTypes
<1>2. ASSUME NEW i \in Infos, PublishInfo(i) PROVE FiltersInv'
  <2>1. /\ latched' = [latched EXCEPT !.info = <<i>>]
        /\ sub' = [sub EXCEPT !.infoNew = sub.info]
        /\ UNCHANGED <<filter, enabled, conv, mask, fresh, pose, speed, flipped, pub, heard, last>>
    BY <1>2 DEF PublishInfo, effects
  <2> DEFINE x == <<i>>
  <2>2. x # <<>> /\ x \in {<<j>> : j \in Infos}
    OBVIOUS
  <2>3. latched' = [latched EXCEPT !.info = x]
    BY <2>1
  <2> HIDE DEF x
  <2>4. latched'.info = x /\ latched'.masks = latched.masks
        /\ latched' \in [info : {latched'.info}, masks : {latched'.masks}]
    BY <1>1, <2>3
  <2>5. sub' \in Subscriptions /\ sub'.maskNew = sub.maskNew /\ sub'.topic = sub.topic
        /\ sub'.info = sub.info
    BY <1>1, <2>1 DEF Subscriptions
  <2>6. FiltersTypes'
    BY <1>1, <2>1, <2>2, <2>4, <2>5 DEF FiltersTypes
  <2>7. sub'.infoNew => latched'.info # <<>> /\ sub'.info
    BY <1>1, <2>1, <2>2, <2>4, <2>5 DEF Subscriptions
  <2>8. sub'.maskNew => sub'.topic \in MaskTopics /\ latched'.masks[sub'.topic] # <<>>
    BY <2>4, <2>5 DEF FiltersInv
  <2> QED
    BY <2>1, <2>5, <2>6, <2>7, <2>8 DEF FiltersInv, Announced
<1>3. ASSUME NEW t \in MaskTopics, NEW m \in Masks, PublishMask(t, m) PROVE FiltersInv'
  <2> DEFINE x == <<m>>  masks == [latched.masks EXCEPT ![t] = x]
  <2>1. /\ latched' = [latched EXCEPT !.masks = masks]
        /\ sub' = [sub EXCEPT !.maskNew = sub.maskNew \/ sub.topic = t]
        /\ UNCHANGED <<filter, enabled, conv, mask, fresh, pose, speed, flipped, pub, heard, last>>
    BY <1>3 DEF PublishMask, effects
  <2>2. x # <<>> /\ x \in Latched
    BY DEF Latched
  <2> HIDE DEF x
  <2>3. /\ masks \in [MaskTopics -> Latched] /\ masks[t] = x
        /\ \A u \in MaskTopics : u # t => masks[u] = latched.masks[u]
    BY <1>1, <2>2 DEF FiltersTypes
  <2> HIDE DEF masks
  <2>4. latched'.info = latched.info /\ latched'.masks = masks
        /\ latched' \in [info : {latched'.info}, masks : {latched'.masks}]
    BY <1>1, <2>1
  <2> DEFINE b == sub.maskNew \/ sub.topic = t
  <2>5. b \in BOOLEAN
    BY <1>1 DEF Subscriptions
  <2>6. sub' = [sub EXCEPT !.maskNew = b]
    BY <2>1
  <2>7. b => sub.maskNew \/ sub.topic = t
    OBVIOUS
  <2> HIDE DEF b
  <2>8. sub' \in Subscriptions /\ sub'.maskNew = b /\ sub'.topic = sub.topic
        /\ sub'.info = sub.info /\ sub'.infoNew = sub.infoNew
    BY <1>1, <2>5, <2>6 DEF Subscriptions
  <2>9. FiltersTypes'
    BY <1>1, <2>1, <2>3, <2>4, <2>8 DEF FiltersTypes
  <2>10. sub'.maskNew => sub'.topic \in MaskTopics /\ latched'.masks[sub'.topic] # <<>>
    <3> SUFFICES ASSUME b PROVE sub.topic \in MaskTopics /\ masks[sub.topic] # <<>>
      BY <2>4, <2>8
    <3>1. CASE sub.topic = t
      BY <2>2, <2>3, <3>1
    <3>2. CASE sub.topic # t
      <4>1. sub.maskNew
        BY <2>7, <3>2
      <4> QED
        BY <2>3, <3>2, <4>1 DEF FiltersInv
    <3> QED
      BY <3>1, <3>2
  <2> QED
    BY <2>1, <2>4, <2>8, <2>9, <2>10 DEF FiltersInv, Announced
<1> QED
  BY <1>2, <1>3

\* The callbacks of the two subscriptions.
LEMMA CallbacksKeepFilters ==
    ASSUME FiltersInv, FilterInfoCallback \/ MaskCallback
    PROVE  FiltersInv'
<1>1. /\ FiltersTypes /\ sub \in Subscriptions
      /\ filter \in {"speed", "keepout", "binary"}
  BY FiltersAssumption DEF FiltersInv, FiltersTypes
<1>2. CASE FilterInfoCallback
  <2> DEFINE i == latched.info[1]
  <2>1. i \in Infos
    <3>1. latched.info # <<>>
      BY <1>2 DEF FilterInfoCallback, FiltersInv
    <3>2. latched.info \in {<<>>} \cup {<<j>> : j \in Infos}
      BY <1>1 DEF FiltersTypes
    <3> QED
      BY <3>1, <3>2
  <2>2. i.base \in Int /\ i.mult \in Int /\ i.topic \in MaskTopics
    BY <2>1, FiltersAssumption
  <2>3. /\ UNCHANGED <<filter, enabled, latched, mask, fresh, pose, speed, flipped, pub, heard,
                       last>>
        /\ filter = "speed" => SpeedInfo(i)
        /\ filter = "keepout" => KeepoutInfo(i)
        /\ filter = "binary" => BinaryInfo(i)
    BY <1>2 DEF FilterInfoCallback, effects
  <2> HIDE DEF i
  <2>4. sub' = Follow(i) \/ sub' = Forget
    BY <1>1, <2>3 DEF SpeedInfo, KeepoutInfo, BinaryInfo
  <2>5. /\ sub' \in Subscriptions /\ ~sub'.infoNew /\ sub'.info
        /\ sub'.maskNew => sub'.topic \in MaskTopics /\ latched.masks[sub'.topic] # <<>>
    <3>1. CASE sub' = Forget
      <4>1. Forget.info
        BY DEF Forget
      <4> QED
        BY <3>1, <4>1, SubscriptionsTyped
    <3>2. CASE sub' = Follow(i)
      <4> DEFINE b == latched.masks[i.topic] # <<>>
      <4>1. Follow(i) = [info |-> TRUE, infoNew |-> FALSE, topic |-> i.topic, maskNew |-> b]
        BY DEF Follow
      <4>2. b => latched.masks[i.topic] # <<>>
        OBVIOUS
      <4> HIDE DEF b
      <4>3. sub'.info /\ ~sub'.infoNew /\ sub'.topic = i.topic /\ sub'.maskNew = b
        BY <3>2, <4>1
      <4> QED
        BY <2>1, <2>2, <3>2, <4>2, <4>3, SubscriptionsTyped
    <3> QED
      BY <2>4, <3>1, <3>2
  <2>6. conv' \in [base : Int, mult : Int, percent : BOOLEAN]
    <3> DEFINE b == CASE i.type = "percent" -> TRUE
                      [] i.type = "absolute" -> FALSE
                      [] OTHER -> conv.percent
    <3>1. conv \in [base : Int, mult : Int, percent : BOOLEAN]
      BY <1>1 DEF FiltersTypes
    <3>2. b \in BOOLEAN
      BY <3>1
    <3>3. filter = "speed" => conv' = [base |-> i.base, mult |-> i.mult, percent |-> b]
      BY <2>3 DEF SpeedInfo
    <3> HIDE DEF b
    <3>4. filter # "speed" =>
             conv' = conv \/ conv' = [conv EXCEPT !.base = i.base, !.mult = i.mult]
      BY <1>1, <2>3 DEF KeepoutInfo, BinaryInfo
    <3>5. CASE filter = "speed"
      BY <2>2, <3>2, <3>3, <3>5
    <3>6. CASE filter # "speed"
      BY <2>2, <3>1, <3>4, <3>6
    <3> QED
      BY <3>5, <3>6
  <2>7. FiltersTypes'
    BY <1>1, <2>3, <2>5, <2>6 DEF FiltersTypes
  <2>8. filter = "binary" => heard' = <<flipped'>>
    <3>1. sub.info
      BY <1>2 DEF FiltersInv, FilterInfoCallback
    <3> QED
      BY <2>3, <3>1 DEF FiltersInv
  <2> QED
    BY <2>3, <2>5, <2>7, <2>8 DEF FiltersInv, Announced
<1>3. CASE MaskCallback
  <2> DEFINE m == latched.masks[sub.topic]
  <2>1. m \in Latched /\ m # <<>>
    BY <1>1, <1>3 DEF MaskCallback, FiltersInv, FiltersTypes
  <2>2. /\ sub' = [sub EXCEPT !.maskNew = FALSE]
        /\ UNCHANGED <<filter, enabled, latched, conv, pose, speed, flipped, pub, heard, last>>
        /\ filter = "speed" => SpeedMask(m)
        /\ filter = "keepout" => KeepoutMask(m)
        /\ filter = "binary" => BinaryMask(m)
    BY <1>3 DEF MaskCallback, effects
  <2> HIDE DEF m
  <2>3. mask' = m /\ (fresh' = fresh \/ fresh' = TRUE)
    BY <1>1, <2>2 DEF SpeedMask, KeepoutMask, BinaryMask
  <2>4. sub' \in Subscriptions /\ ~sub'.maskNew /\ sub'.info = sub.info
        /\ sub'.infoNew = sub.infoNew /\ sub'.topic = sub.topic
    BY <1>1, <2>2 DEF Subscriptions
  <2>5. FiltersTypes'
    BY <1>1, <2>1, <2>2, <2>3, <2>4 DEF FiltersTypes
  <2>6. sub.info
    <3>1. sub.maskNew /\ sub.topic \in MaskTopics
      BY <1>3 DEF MaskCallback, FiltersInv
    <3>2. sub.topic # ""
      BY <3>1, FiltersAssumption
    <3> QED
      BY <3>2 DEF FiltersInv
  <2> QED
    BY <2>1, <2>2, <2>3, <2>4, <2>5, <2>6 DEF FiltersInv, Announced
<1> QED
  BY <1>2, <1>3

\* updateBounds() notes the robot's pose and asks for the cells of a new mask.
LEMMA UpdateBoundsKeepsFilters ==
    ASSUME FiltersInv, NEW p \in Places, FilterUpdateBounds(p)
    PROVE  FiltersInv'
<1>1. /\ FiltersTypes /\ enabled \in BOOLEAN /\ fresh \in BOOLEAN /\ pose \in Int
      /\ last \in [phase : {"none", "bounds", "costs"}, area : Nat \X Nat,
                   before : Grids, after : Grids, ok : BOOLEAN]
  BY DEF FiltersInv, FiltersTypes
<1>2. AskedArea \in Nat \X Nat
  <2>1. Master.size \in Nat
    BY FiltersAssumption
  <2>2. CASE fresh /\ enabled
    <3> DEFINE a == Len(mask[1].cells) + 1  b == Master.size  x == Min({a, b})
    <3>1. a \in Int /\ b \in Int /\ a >= 0 /\ b >= 0
      <4>1. mask # <<>>
        BY <2>2 DEF FiltersInv
      <4>2. Len(mask[1].cells) \in Nat
        BY <1>1, <4>1, MaskTyped
      <4> QED
        BY <2>1, <4>2
    <3> HIDE DEF a, b
    <3>2. x = (IF a <= b THEN a ELSE b)
      BY ONLY <3>1, MinMaxOfTwo
    <3>3. x \in Nat
      BY <3>1, <3>2
    <3>4. AskedArea = <<0, x>>
      BY <2>2 DEF AskedArea, a, b
    <3> HIDE DEF x
    <3> QED
      BY <3>3, <3>4
  <2>3. CASE ~(fresh /\ enabled)
    <3>1. AskedArea = <<Master.size, 0>>
      BY <2>3 DEF AskedArea
    <3> QED
      BY <2>1, <3>1
  <2> QED
    BY <2>2, <2>3
<1> DEFINE area == AskedArea
<1>3. /\ pose' = IF enabled THEN p ELSE pose
      /\ fresh' = (fresh /\ ~enabled)
      /\ last' = [last EXCEPT !.phase = "bounds", !.area = area]
      /\ UNCHANGED <<filter, enabled, latched, sub, conv, mask, speed, flipped, pub, heard>>
  BY DEF FilterUpdateBounds, wiring
<1> HIDE DEF area
<1>4. pose' \in Int /\ fresh' \in BOOLEAN /\ (fresh' => fresh)
  BY <1>1, <1>3, FiltersAssumption
<1>5. last' \in [phase : {"none", "bounds", "costs"}, area : Nat \X Nat,
                  before : Grids, after : Grids, ok : BOOLEAN]
  <2>1. area \in Nat \X Nat
    BY <1>2 DEF area
  <2> QED
    BY <1>1, <1>3, <2>1
<1>6. FiltersTypes'
  BY <1>1, <1>3, <1>4, <1>5 DEF FiltersTypes
<1> QED
  BY <1>3, <1>4, <1>6 DEF FiltersInv, Announced

\* A step of the filter keeps the invariant.
LEMMA FiltersStep ==
    ASSUME FiltersInv, [FiltersNext]_filterVars
    PROVE  FiltersInv'
<1>1. CASE Happening
  <2>1. CASE FilterActivate \/ FilterDeactivate \/ ResetLayer
    BY <2>1, LifecycleKeepsFilters
  <2>2. ASSUME NEW e \in BOOLEAN, EnableCallback(e) PROVE FiltersInv'
    <3>1. enabled' = e
          /\ UNCHANGED <<filter, latched, sub, conv, mask, fresh, pose, speed, flipped, pub, heard, last>>
      BY <2>2 DEF EnableCallback, effects
    <3>2. FiltersTypes'
      BY <3>1 DEF FiltersInv, FiltersTypes
    <3> QED
      BY <3>1, <3>2 DEF FiltersInv, Announced
  <2>3. CASE \/ \E i \in Infos : PublishInfo(i)
             \/ \E t \in MaskTopics, m \in Masks : PublishMask(t, m)
    BY <2>3, PublishingKeepsFilters
  <2> QED
    BY <1>1, <2>1, <2>2, <2>3 DEF Happening
<1>2. CASE FilterInfoCallback \/ MaskCallback
  BY <1>2, CallbacksKeepFilters
<1>3. ASSUME NEW p \in Places, FilterUpdateBounds(p) PROVE FiltersInv'
  BY <1>3, UpdateBoundsKeepsFilters
<1>4. ASSUME NEW area \in Areas, NEW grid \in Beneath, NEW tf \in BOOLEAN,
             FilterUpdateCosts(area, grid, tf)
      PROVE  FiltersInv'
  BY <1>4, UpdateCostsIsExact
<1>5. CASE UNCHANGED filterVars
  BY <1>5 DEF filterVars, wiring, effects, FiltersInv, FiltersTypes, Announced
<1> QED
  BY <1>1, <1>2, <1>3, <1>4, <1>5 DEF FiltersNext

\* Only an update of the costs ends the phase of the bounds.
LEMMA CostsFollowBounds ==
    ASSUME [FiltersNext]_filterVars, last.phase = "bounds", last'.phase = "costs"
    PROVE  \E area \in Areas, grid \in Beneath, tf \in BOOLEAN : FilterUpdateCosts(area, grid, tf)
<1>1. last' # last
  OBVIOUS
<1>2. ~Happening
  BY <1>1 DEF Happening, FilterActivate, FilterDeactivate, ResetLayer, EnableCallback,
     PublishInfo, PublishMask, effects
<1>3. ~(FilterInfoCallback \/ MaskCallback)
  BY <1>1 DEF FilterInfoCallback, MaskCallback, effects
<1>4. ~\E p \in Places : FilterUpdateBounds(p)
  BY DEF FilterUpdateBounds
<1> QED
  BY <1>1, <1>2, <1>3, <1>4 DEF FiltersNext, filterVars, effects

\* The invariant holds of the filters.
LEMMA FiltersInvHolds == FiltersSpec => []FiltersInv
<1>1. FiltersInit => FiltersInv
  <2> SUFFICES ASSUME FiltersInit PROVE FiltersInv
    OBVIOUS
  <2>1. /\ filter \in FilterKinds /\ enabled = TRUE /\ sub = Unsubscribed /\ conv = DefaultConv
        /\ mask = <<>> /\ fresh = FALSE /\ pose = 0 /\ heard = <<>>
        /\ speed = [limit |-> NoLimit, prev |-> NoLimit]
        /\ latched = [info |-> <<>>, masks |-> [t \in MaskTopics |-> <<>>]]
        /\ last = [phase |-> "none", area |-> <<0, 0>>, before |-> <<>>, after |-> <<>>,
                   ok |-> FALSE]
    BY DEF FiltersInit
  <2>2. /\ Unsubscribed \in Subscriptions /\ ~Unsubscribed.info
        /\ ~Unsubscribed.infoNew /\ ~Unsubscribed.maskNew /\ Unsubscribed.topic = ""
        /\ DefaultConv \in [base : Int, mult : Int, percent : BOOLEAN]
    BY DEF Unsubscribed, Subscriptions, DefaultConv
  <2>3. last \in [phase : {"none", "bounds", "costs"}, area : Nat \X Nat,
                  before : Grids, after : Grids, ok : BOOLEAN]
    <3> DEFINE none == <<>>  zero == <<0, 0>>
    <3>1. none \in Grids /\ zero \in Nat \X Nat
      BY DEF Grids
    <3>2. last = [phase |-> "none", area |-> zero, before |-> none, after |-> none, ok |-> FALSE]
      BY <2>1
    <3> HIDE DEF none, zero
    <3> QED
      BY <3>1, <3>2
  <2> DEFINE none == <<>>  masks == [t \in MaskTopics |-> none]
  <2>4. none \in Latched /\ masks \in [MaskTopics -> Latched]
    BY DEF Latched
  <2>5. latched = [info |-> none, masks |-> masks]
    BY <2>1
  <2>6. mask = none /\ heard = none
    BY <2>1
  <2> HIDE DEF masks
  <2>7. /\ latched.info = none /\ latched.masks = masks
        /\ latched \in [info : {latched.info}, masks : {latched.masks}]
    BY <2>5
  <2>9. mask \in Latched
    BY <2>4, <2>6
  <2>10. latched.info \in {<<>>} \cup {<<i>> : i \in Infos}
    BY <2>7
  <2>11. sub \in Subscriptions /\ conv \in [base : Int, mult : Int, percent : BOOLEAN]
    BY <2>1, <2>2
  <2>12. /\ latched.masks \in [MaskTopics -> Latched]
         /\ latched \in [info : {latched.info}, masks : {latched.masks}]
    BY <2>4, <2>7
  <2>13. filter \in FilterKinds /\ enabled \in BOOLEAN /\ fresh \in BOOLEAN /\ pose \in Int
    <3>1. filter \in FilterKinds /\ enabled = TRUE /\ fresh = FALSE /\ pose = 0
      BY <2>1
    <3>2. enabled \in BOOLEAN /\ fresh \in BOOLEAN
      BY ONLY <3>1
    <3>3. pose \in Int
      BY ONLY <3>1
    <3> QED
      BY <3>1, <3>2, <3>3
  <2>8. FiltersTypes
    BY ONLY <2>3, <2>9, <2>10, <2>11, <2>12, <2>13 DEF FiltersTypes
  <2> QED
    BY <2>1, <2>2, <2>8 DEF FiltersInv, Announced
<1> QED
  BY <1>1, FiltersStep, PTL DEF FiltersSpec

\* Every update that ends (process() of a filter) does to the robot's speed, state or
\* costmap what the mask in force says of the cells under it, whatever the resolution and
\* the origin of the mask, and nothing without a mask or without the transform to it.
THEOREM FiltersApplyTheMask == FiltersSpec => UpdatesApplyTheMask
<1>1. FiltersInv /\ [FiltersNext]_filterVars
        => [last.phase = "bounds" /\ last'.phase = "costs" /\ ~crashed' =>
              IF enabled /\ mask # <<>> /\ last'.ok THEN MaskIsApplied
              ELSE last'.after = last'.before /\ heard' = heard]_filterVars
  BY CostsFollowBounds, UpdateCostsIsExact
<1> QED
  BY <1>1, FiltersInvHolds, PTL DEF FiltersSpec, UpdatesApplyTheMask

-----------------------------------------------------------------------------
(***************************************************************************)
(* The transform buffer: the caches are sorted and know only what was sent *)
(***************************************************************************)

Motions == [s : {-1, 1}, v : Int]
Entries == [stamp : Nat \ {0}, parent : Frames, s : {-1, 1}, v : Int]
Caches == {NoCache} \cup [kind : {"static", "timed"}, list : Seq(Entries)]
Waits == {r \in Requests : r.target # r.source}
Outcomes == {"failure", "available"}
Threads == [pc : {"idle", "lock", "test", "call"}, i : Nat, pending : Seq(Waits \X Outcomes)]

NewestFirst(list) == \A i, j \in 1..Len(list) : i <= j => list[j].stamp <= list[i].stamp

\* An entry is what a publisher may have sent for its frame.
IsSent(f, e) == \E m \in Messages :
    /\ m.child = f /\ m.child # m.parent
    /\ e.parent = m.parent /\ e.stamp = m.stamp

CacheIsSound(f, c, kn) ==
    /\ c.kind # "none" => f \in kn /\ \A i \in 1..Len(c.list) :
                                     IsSent(f, c.list[i]) /\ c.list[i].parent \in kn
    /\ c.kind = "static" => Len(c.list) = 1
    /\ c.kind = "timed" => NewestFirst(c.list)

CacheInv ==
    /\ caches \in [Frames -> Caches] /\ known \in SUBSET Frames
    /\ \A f \in Frames : CacheIsSound(f, caches[f], known)

RequestType ==
    /\ requests \in Seq(Waits)
    /\ reqLock \in Publishers \cup {Free, "add"}
    /\ thread \in [Publishers -> Threads]
    /\ adding \in {NoCall} \cup [pc : {"check", "push"}, r : Waits]
    /\ answers \in [Requests -> Seq({"now", "never", "cancelled"} \cup Outcomes)]

LockInv ==
    /\ \A p \in Publishers : reqLock = p <=> thread[p].pc = "test"
    /\ reqLock = "add" <=> adding.pc # "idle"
    /\ \A p \in Publishers : thread[p].pc = "test" => thread[p].i # 0

\* A request waits in one place only, and without an answer.
PlacesInv ==
    /\ \A i, j \in 1..Len(requests) : requests[i] = requests[j] => i = j
    /\ \A p, q \in Publishers : \A i \in 1..Len(thread[p].pending), j \in 1..Len(thread[q].pending) :
         thread[p].pending[i][1] = thread[q].pending[j][1] => p = q /\ i = j
    /\ \A i \in 1..Len(requests), p \in Publishers : \A j \in 1..Len(thread[p].pending) :
         requests[i] # thread[p].pending[j][1]
    /\ \A i \in 1..Len(requests) : answers[requests[i]] = <<>>
    /\ \A p \in Publishers : \A j \in 1..Len(thread[p].pending) :
         answers[thread[p].pending[j][1]] = <<>>
    /\ adding.pc # "idle" =>
         /\ answers[adding.r] = <<>>
         /\ \A i \in 1..Len(requests) : requests[i] # adding.r
         /\ \A p \in Publishers : \A j \in 1..Len(thread[p].pending) :
              thread[p].pending[j][1] # adding.r
    /\ \A r \in Requests : Len(answers[r]) <= 1

Ready(r) == CanTransformInternal(r.target, r.source, r.time)
Due(r) == Ready(r) \/ TooOld(r, r.time)

\* Whoever tests the list has still to reach every request that can be answered.
WatchInv ==
    (\A p \in Publishers : thread[p].pc # "lock") =>
      \A r \in Waits :
        /\ Due(r) => \A i \in 1..Len(requests) : requests[i] = r =>
                       \E p \in Publishers : thread[p].pc = "test" /\ thread[p].i <= i
        /\ (adding.pc = "push" /\ adding.r = r) => ~Ready(r)

TfInv == CacheInv /\ RequestType /\ LockInv /\ PlacesInv /\ WatchInv

-----------------------------------------------------------------------------
\* The entries of a list have stamps.
LEMMA StampsOfList ==
    ASSUME NEW list \in Seq(Entries)
    PROVE  /\ Len(list) \in Nat
           /\ \A k \in 1..Len(list) : list[k] \in Entries /\ list[k].stamp \in Nat
                                      /\ list[k].stamp \in Int /\ list[k].stamp # 0
<1>1. Len(list) \in Nat /\ \A k \in 1..Len(list) : list[k] \in Entries
  OBVIOUS
<1>2. \A e \in Entries : e.stamp \in Nat /\ e.stamp \in Int /\ e.stamp # 0
  BY DEF Entries
<1> QED
  BY <1>1, <1>2

\* Entries newer than a time come first in a sorted list.
LEMMA NewerCounts ==
    ASSUME NEW list \in Seq(Entries), NewestFirst(list), NEW t \in Int
    PROVE  /\ Newer(list, t) \in 0..Len(list)
           /\ \A k \in 1..Len(list) : list[k].stamp > t <=> k <= Newer(list, t)
<1> DEFINE n == Len(list)
           T == {k \in 1..n : list[k].stamp > t}
           Counts(c) == \A k \in 1..n : list[k].stamp > t <=> k <= c
<1>1. n \in Nat /\ n \in 0..n /\ \A k \in 1..n : list[k].stamp \in Int
  BY StampsOfList
<1>2. \E c \in 0..n : Counts(c)
  <2>1. CASE T = {}
    <3>1. \A k \in 1..n : ~(list[k].stamp > t) /\ ~(k <= 0)
      BY <2>1
    <3>2. Counts(0) /\ 0 \in 0..n
      BY <1>1, <3>1
    <3> QED
      BY <3>2
  <2>2. CASE T # {}
    <3>1. T \in SUBSET (1..n)
      OBVIOUS
    <3>2. \E x \in T : \A y \in T : y <= x
      <4> HIDE DEF T
      <4> QED
        BY <1>1, <2>2, <3>1, GreatestUpTo
    <3>3. PICK x \in T : \A y \in T : y <= x
      BY <3>2
    <3>4. x \in 1..n /\ list[x].stamp > t
      BY <3>3
    <3>5. ASSUME NEW k \in 1..n PROVE list[k].stamp > t <=> k <= x
      <4>1. CASE k <= x
        <5>1. list[x].stamp <= list[k].stamp
          BY <3>4, <4>1 DEF NewestFirst
        <5> QED
          BY <1>1, <3>4, <4>1, <5>1
      <4>2. CASE ~(k <= x)
        <5>1. k \notin T
          BY <3>3, <4>2
        <5> QED
          BY <4>2, <5>1
      <4> QED
        BY <4>1, <4>2
    <3>6. Counts(x) /\ x \in 0..n
      BY <1>1, <3>4, <3>5
    <3> QED
      BY <3>6
  <2> QED
    BY <2>1, <2>2
<1>3. Newer(list, t) = CHOOSE c \in 0..n : Counts(c)
  BY DEF Newer
<1> HIDE DEF Counts
<1>4. Newer(list, t) \in 0..n /\ Counts(Newer(list, t))
  BY <1>2, <1>3
<1> QED
  BY <1>4 DEF Counts

\* Pruning keeps a part of a list with the newest entry.
LEMMA PruningKeepsNewest ==
    ASSUME NEW list \in Seq(Entries), NewestFirst(list)
    PROVE  \E n \in 0..Len(list) : /\ PruneList(list) = SubSeq(list, 1, n)
                                   /\ (list # <<>> => n # 0)
                                   /\ \A k \in 1..Len(list) : n < k => list[k].stamp < list[n].stamp
<1>1. CASE list = <<>>
  <2>1. PruneList(list) = SubSeq(list, 1, 0) /\ 0 \in 0..Len(list) /\ Len(list) = 0
    BY <1>1 DEF PruneList
  <2> QED
    BY <1>1, <2>1
<1>2. CASE list # <<>>
  <2> DEFINE t == list[1].stamp - CacheTime - 1
             n == Newer(list, t)
  <2>1. /\ 1 \in 1..Len(list) /\ Len(list) \in Nat
        /\ \A k \in 1..Len(list) : list[k].stamp \in Int
    BY <1>2, StampsOfList
  <2>2. CacheTime \in Nat
    BY TfAssumption
  <2>3. t \in Int /\ list[1].stamp > t
    BY <2>1, <2>2
  <2> HIDE DEF t
  <2>4. n \in 0..Len(list) /\ \A k \in 1..Len(list) : list[k].stamp > t <=> k <= n
    BY <2>3, NewerCounts
  <2>5. PruneList(list) = SubSeq(list, 1, n)
    BY <1>2 DEF PruneList, t
  <2> HIDE DEF n
  <2>6. n # 0
    BY <2>1, <2>3, <2>4
  <2>7. ASSUME NEW k \in 1..Len(list), n < k PROVE list[k].stamp < list[n].stamp
    <3>1. n \in 1..Len(list) /\ ~(k <= n)
      BY <2>1, <2>4, <2>6, <2>7
    <3>2. list[n].stamp > t /\ ~(list[k].stamp > t)
      BY <2>4, <3>1
    <3> QED
      BY <2>1, <2>3, <3>1, <3>2
  <2> QED
    BY <2>4, <2>5, <2>6, <2>7
<1> QED
  BY <1>1, <1>2

\* A part of a sorted list from its head is sorted.
LEMMA HeadIsSorted ==
    ASSUME NEW list \in Seq(Entries), NewestFirst(list), NEW n \in 0..Len(list)
    PROVE  /\ SubSeq(list, 1, n) \in Seq(Entries) /\ Len(SubSeq(list, 1, n)) = n
           /\ \A k \in 1..n : SubSeq(list, 1, n)[k] = list[k]
           /\ NewestFirst(SubSeq(list, 1, n))
<1>1. /\ SubSeq(list, 1, n) \in Seq(Entries) /\ Len(SubSeq(list, 1, n)) = n /\ n \in Nat
      /\ \A k \in 1..n : SubSeq(list, 1, n)[k] = list[k] /\ k \in 1..Len(list)
  OBVIOUS
<1> HIDE DEF NewestFirst
<1>2. \A i, j \in 1..n : i <= j => list[j].stamp <= list[i].stamp
  BY <1>1 DEF NewestFirst
<1>3. NewestFirst(SubSeq(list, 1, n))
  BY <1>1, <1>2 DEF NewestFirst
<1> QED
  BY <1>1, <1>3

\* What surrounds a time in a sorted list.
LEMMA ClosestEntries ==
    ASSUME NEW list \in Seq(Entries), NewestFirst(list), NEW t \in Nat
    PROVE  \/ FindClosest(list, t) = <<>>
           \/ \E x \in 1..Len(list) : FindClosest(list, t) = <<list[x]>>
           \/ \E n \in 1..Len(list) : /\ n + 1 \in 1..Len(list)
                                      /\ FindClosest(list, t) = <<list[n + 1], list[n]>>
                                      /\ list[n + 1].stamp <= t /\ t < list[n].stamp
<1> DEFINE c == Len(list)
           oldest == list[c]
           n == Newer(list, t)
<1>1. c \in Nat /\ \A k \in 1..c : list[k].stamp \in Int
  BY StampsOfList
<1>2. CASE list = <<>>
  BY <1>2 DEF FindClosest
<1>3. CASE list # <<>>
  <2>1. 1 \in 1..c /\ c \in 1..c
    BY <1>1, <1>3
  <2>2. CASE t \in {Zero, list[1].stamp}
    BY <1>3, <2>1, <2>2 DEF FindClosest
  <2>3. CASE t \notin {Zero, list[1].stamp} /\ t = oldest.stamp
    BY <1>3, <2>1, <2>3 DEF FindClosest
  <2>4. CASE /\ t \notin {Zero, list[1].stamp} /\ t # oldest.stamp
             /\ Len(list) = 1 \/ t > list[1].stamp \/ t < oldest.stamp
    BY <1>3, <2>4 DEF FindClosest
  <2>5. CASE /\ t \notin {Zero, list[1].stamp} /\ t # oldest.stamp
             /\ ~(Len(list) = 1 \/ t > list[1].stamp \/ t < oldest.stamp)
    <3>1. FindClosest(list, t) = <<list[n + 1], list[n]>>
      BY <1>3, <2>5 DEF FindClosest
    <3>2. n \in 0..c /\ \A k \in 1..c : list[k].stamp > t <=> k <= n
      <4>1. t \in Int
        OBVIOUS
      <4> QED
        BY ONLY list \in Seq(Entries), NewestFirst(list), <4>1, NewerCounts
    <3> HIDE DEF n
    <3>3. list[1].stamp > t /\ ~(oldest.stamp > t)
      BY <1>1, <2>1, <2>5
    <3>4. 1 <= n /\ ~(c <= n)
      BY <2>1, <3>2, <3>3
    <3>5. n \in 1..c /\ n + 1 \in 1..c /\ ~(n + 1 <= n)
      BY <1>1, <3>2, <3>4
    <3>6. list[n + 1].stamp <= t /\ t < list[n].stamp
      BY <1>1, <3>2, <3>5
    <3> QED
      BY <3>1, <3>5, <3>6
  <2> QED
    BY <2>2, <2>3, <2>4, <2>5
<1> QED
  BY <1>2, <1>3

\* Pruning changes no parent, it only loses some: entries with one stamp have one parent.
LEMMA PruningLosesParents ==
    ASSUME NEW list \in Seq(Entries), NewestFirst(list), NEW t \in Nat,
           \A i, j \in 1..Len(list) :
             list[i].stamp = list[j].stamp => list[i].parent = list[j].parent
    PROVE  \/ FindClosest(PruneList(list), t) = <<>>
           \/ /\ FindClosest(list, t) # <<>>
              /\ FindClosest(PruneList(list), t)[1].parent = FindClosest(list, t)[1].parent
<1> DEFINE c == Len(list)
           head == PruneList(list)
           m == Newer(list, t)
           h == Newer(head, t)
<1>1. c \in Nat /\ \A k \in 1..c : list[k].stamp \in Int /\ list[k].stamp # 0
  BY StampsOfList
<1>2. CASE list = <<>>
  BY <1>2 DEF PruneList, FindClosest
<1>3. CASE list # <<>>
  <2>1. PICK n \in 0..c : /\ head = SubSeq(list, 1, n) /\ (list # <<>> => n # 0)
                          /\ \A k \in 1..c : n < k => list[k].stamp < list[n].stamp
    BY PruningKeepsNewest
  <2>2. n \in 1..c /\ 1 \in 1..c /\ c \in 1..c /\ 1 \in 1..n /\ n \in 1..n /\ n \in Nat
    BY ONLY <1>1, <1>3, <2>1
  <2> HIDE DEF m, h, head
  <2>3. /\ head \in Seq(Entries) /\ Len(head) = n /\ NewestFirst(head)
        /\ \A k \in 1..n : head[k] = list[k]
    BY <2>1, HeadIsSorted
  <2>4. head # <<>> /\ head[1] = list[1] /\ head[n] = list[n]
    BY <2>2, <2>3
  <2>5. list[n].stamp <= list[1].stamp /\ list[c].stamp <= list[n].stamp
    BY <1>1, <2>2 DEF NewestFirst
  <2>6. m \in 0..c /\ \A k \in 1..c : list[k].stamp > t <=> k <= m
    <3>1. Newer(list, t) \in 0..Len(list) /\ \A k \in 1..Len(list) : list[k].stamp > t <=> k <= Newer(list, t)
      BY ONLY NewerCounts, list \in Seq(Entries), NewestFirst(list), t \in Int
    <3> QED
      BY ONLY <3>1 DEF m
  <2>7. h \in 0..n /\ \A k \in 1..n : list[k].stamp > t <=> k <= h
    <3>1. Newer(head, t) \in 0..Len(head) /\ \A k \in 1..Len(head) : head[k].stamp > t <=> k <= Newer(head, t)
      BY ONLY <2>3, NewerCounts, t \in Int
    <3>2. \A k \in 1..n : k \in 1..Len(head) /\ head[k] = list[k]
      BY <2>3
    <3> QED
      BY ONLY <2>3, <3>1, <3>2 DEF h
  <2>8. CASE t \in {Zero, list[1].stamp}
    <3>1. FindClosest(head, t) = <<list[1]>> /\ FindClosest(list, t) = <<list[1]>>
      BY <1>3, <2>4, <2>8 DEF FindClosest
    <3> QED
      BY <3>1 DEF head
  <2>9. CASE t \notin {Zero, list[1].stamp} /\ t = list[n].stamp
    <3>1. FindClosest(head, t) = <<list[n]>>
      BY <2>3, <2>4, <2>9 DEF FindClosest
    <3>2. CASE t = list[c].stamp
      <4>1. FindClosest(list, t) = <<list[c]>>
        BY <1>3, <2>9, <3>2 DEF FindClosest
      <4>2. list[n].parent = list[c].parent
        BY <2>2, <2>9, <3>2
      <4> QED
        BY <3>1, <4>1, <4>2 DEF head
    <3>3. CASE t # list[c].stamp
      <4>1. t < list[1].stamp /\ ~(t < list[c].stamp) /\ n # 1 /\ c # 1
        BY <1>1, <2>2, <2>5, <2>9
      <4>2. FindClosest(list, t) = <<list[m + 1], list[m]>>
        <5>1. ~(Len(list) = 1 \/ t > list[1].stamp \/ t < list[c].stamp)
          BY <1>1, <2>2, <4>1
        <5> QED
          BY <1>3, <2>9, <3>3, <5>1 DEF FindClosest, m
      <4>3. ~(list[n].stamp > t)
        BY <1>1, <2>2, <2>9
      <4>4. ~(n <= m)
        BY <2>2, <2>6, <4>3
      <4>5. m + 1 \in 1..c /\ m + 1 <= n /\ ~(m + 1 <= m)
        BY <2>2, <2>6, <4>4
      <4>6. ~(list[m + 1].stamp > t) /\ list[n].stamp <= list[m + 1].stamp
        BY <2>2, <2>6, <4>5 DEF NewestFirst
      <4>7. list[m + 1].stamp = list[n].stamp
        BY <1>1, <2>2, <2>9, <4>5, <4>6
      <4>8. list[m + 1].parent = list[n].parent
        BY <2>2, <4>5, <4>7
      <4> QED
        BY <3>1, <4>2, <4>8 DEF head
    <3> QED
      BY <3>2, <3>3
  <2>10. CASE /\ t \notin {Zero, list[1].stamp} /\ t # list[n].stamp
              /\ n = 1 \/ t > list[1].stamp \/ t < list[n].stamp
    <3>1. FindClosest(head, t) = <<>>
      BY <2>3, <2>4, <2>10 DEF FindClosest
    <3> QED
      BY <3>1 DEF head
  <2>11. CASE /\ t \notin {Zero, list[1].stamp} /\ t # list[n].stamp
              /\ ~(n = 1 \/ t > list[1].stamp \/ t < list[n].stamp)
    <3>1. FindClosest(head, t) = <<head[h + 1], head[h]>>
      BY <2>3, <2>4, <2>11 DEF FindClosest, h
    <3>2. ~(t < list[n].stamp) /\ ~(list[n].stamp > t) /\ list[n].stamp < t /\ t < list[1].stamp
      BY <1>1, <2>2, <2>11
    <3>3. ~(n <= m) /\ ~(n <= h)
      BY <2>2, <2>6, <2>7, <3>2
    <3>4. \A k \in 1..n : k <= m <=> k <= h
      <4> SUFFICES ASSUME NEW k \in 1..n PROVE k <= m <=> k <= h
        OBVIOUS
      <4>1. k \in 1..c
        BY <2>2
      <4> QED
        BY <2>6, <2>7, <4>1
    <3>5. m = h
      BY <2>2, <2>6, <2>7, <3>3, <3>4
    <3>6. /\ t # list[c].stamp /\ c # 1 /\ ~(t > list[1].stamp) /\ ~(t < list[c].stamp)
      BY <1>1, <2>2, <2>5, <2>11, <3>2
    <3>7. FindClosest(list, t) = <<list[m + 1], list[m]>>
      BY <1>3, <2>11, <3>6 DEF FindClosest, m
    <3>8. h + 1 \in 1..n
      BY <2>2, <2>7, <3>3
    <3> QED
      BY <2>3, <3>1, <3>5, <3>7, <3>8 DEF head
  <2> QED
    BY <2>8, <2>9, <2>10, <2>11
<1> QED
  BY <1>2, <1>3

-----------------------------------------------------------------------------
(***************************************************************************)
(* The trees: for every time, a parent per frame.                          *)
(***************************************************************************)

ParentsOf(cs, t) ==
    [f \in Frames |-> IF cs[f].kind = "none" THEN None ELSE GetParent(cs[f], t)]

\* An order in which all transforms lead upwards.
Rank == CHOOSE rank \in [Frames -> 1..MaxDepth] :
    \A m \in Messages : m.child # m.parent => rank[m.child] < rank[m.parent]

IsTree(par) ==
    /\ par \in [Frames -> Frames \cup {None}]
    /\ \A f \in Frames : par[f] # None => Rank[f] < Rank[par[f]]

\* Such an order exists.
LEMMA RankIsAnOrder ==
    /\ MaxDepth \in Nat /\ Rank \in [Frames -> 1..MaxDepth]
    /\ \A m \in Messages : m.child # m.parent => Rank[m.child] < Rank[m.parent]
<1>1. MaxDepth \in Nat
  BY TfAssumption, FS_CardinalityType DEF MaxDepth
<1>2. \E rank \in [Frames -> 1..MaxDepth] :
        \A m \in Messages : m.child # m.parent => rank[m.child] < rank[m.parent]
  BY TreeAssumption DEF MaxDepth
<1> QED
  BY <1>1, <1>2 DEF Rank

\* The parts of a sound cache.
LEMMA PartsOfCache ==
    ASSUME CacheInv, NEW f \in Frames, caches[f].kind # "none"
    PROVE  /\ caches[f].kind \in {"static", "timed"} /\ caches[f].list \in Seq(Entries)
           /\ caches[f] = [kind |-> caches[f].kind, list |-> caches[f].list]
           /\ f \in known
           /\ \A i \in 1..Len(caches[f].list) :
                IsSent(f, caches[f].list[i]) /\ caches[f].list[i].parent \in known
           /\ caches[f].kind = "static" => Len(caches[f].list) = 1
           /\ caches[f].kind = "timed" => NewestFirst(caches[f].list)
<1>1. caches[f] \in Caches /\ CacheIsSound(f, caches[f], known)
  BY DEF CacheInv
<1>2. caches[f] \in [kind : {"static", "timed"}, list : Seq(Entries)]
  BY <1>1 DEF Caches, NoCache
<1>3. /\ caches[f].kind \in {"static", "timed"} /\ caches[f].list \in Seq(Entries)
      /\ caches[f] = [kind |-> caches[f].kind, list |-> caches[f].list]
  BY <1>2
<1> QED
  BY <1>1, <1>3 DEF CacheIsSound

\* An entry of a frame leads to a frame further up.
LEMMA SentLeadsUp ==
    ASSUME NEW f \in Frames, NEW e, IsSent(f, e)
    PROVE  e.parent \in Frames /\ Rank[f] < Rank[e.parent]
<1>1. PICK m \in Messages : m.child = f /\ m.child # m.parent /\ e.parent = m.parent
  BY DEF IsSent
<1>2. m.parent \in Frames
  BY TfAssumption
<1> QED
  BY <1>1, <1>2, RankIsAnOrder

\* What an entry of the cache gives to a walk.
IsStep(st, p) ==
    IF p = None THEN st = <<>>
    ELSE /\ st # <<>> /\ st[1].parent = p
         /\ st[1].s \in {-1, 1} /\ st[1].v \in Int

\* Between two entries the motion is a number.
LEMMA InterpolationIsAMotion ==
    ASSUME NEW older \in Entries, NEW newer \in Entries, NEW t \in Nat,
           older.stamp <= t, t < newer.stamp
    PROVE  /\ Interpolate(older, newer, t).parent = older.parent
           /\ Interpolate(older, newer, t).s \in {-1, 1}
           /\ Interpolate(older, newer, t).v \in Int
<1> DEFINE a == (newer.v - older.v) * (t - older.stamp)
           b == newer.stamp - older.stamp
<1>1. /\ older.stamp \in Int /\ newer.stamp \in Int /\ older.v \in Int /\ newer.v \in Int
      /\ older.s \in {-1, 1}
  BY DEF Entries
<1>2. a \in Int /\ b \in Int /\ b > 0
  BY <1>1
<1>3. a \div b \in Int
  <2> HIDE DEF a, b
  <2> QED
    BY <1>2
<1>4. Interpolate(older, newer, t) = [older EXCEPT !.v = older.v + a \div b]
  BY DEF Interpolate
<1>5. older = [stamp |-> older.stamp, parent |-> older.parent, s |-> older.s, v |-> older.v]
  BY DEF Entries
<1> HIDE DEF a, b
<1>6. Interpolate(older, newer, t) = [stamp |-> older.stamp, parent |-> older.parent,
                                      s |-> older.s, v |-> older.v + a \div b]
  BY ONLY <1>4, <1>5
<1> QED
  BY <1>1, <1>3, <1>6

\* Lookup and canTransform see the same parents: data differs in the motion only.
LEMMA GatherGivesTheStep ==
    ASSUME CacheInv, NEW f \in Frames, caches[f].kind # "none", NEW t \in Nat,
           NEW data \in BOOLEAN
    PROVE  /\ ParentsOf(caches, t)[f] = GetParent(caches[f], t)
           /\ GetParent(caches[f], t) \in known \cup {None}
           /\ GetParent(caches[f], t) # None =>
                /\ GetParent(caches[f], t) \in Frames
                /\ Rank[f] < Rank[GetParent(caches[f], t)]
           /\ IsStep(Gather(f, t, data), GetParent(caches[f], t))
<1> DEFINE c == caches[f]
           p == GetParent(c, t)
           found == FindClosest(c.list, t)
<1>1. /\ c.kind \in {"static", "timed"} /\ c.list \in Seq(Entries)
      /\ \A i \in 1..Len(c.list) : IsSent(f, c.list[i]) /\ c.list[i].parent \in known
      /\ c.kind = "static" => Len(c.list) = 1
      /\ c.kind = "timed" => NewestFirst(c.list)
  BY PartsOfCache
<1>2. ParentsOf(caches, t)[f] = p
  BY DEF ParentsOf
<1>3. /\ Len(c.list) \in Nat
      /\ \A k \in 1..Len(c.list) :
           /\ c.list[k] \in Entries /\ c.list[k].s \in {-1, 1} /\ c.list[k].v \in Int
           /\ c.list[k].parent \in Frames \cap known /\ Rank[f] < Rank[c.list[k].parent]
  <2>1. \A k \in 1..Len(c.list) : c.list[k].parent \in Frames /\ Rank[f] < Rank[c.list[k].parent]
    BY <1>1, SentLeadsUp
  <2>2. Len(c.list) \in Nat /\ \A k \in 1..Len(c.list) : c.list[k] \in Entries
    BY <1>1
  <2>3. \A e \in Entries : e.s \in {-1, 1} /\ e.v \in Int
    BY DEF Entries
  <2> QED
    BY <1>1, <2>1, <2>2, <2>3
<1>4. None \notin Frames
  BY TfAssumption
<1> HIDE DEF c
<1>5. CASE c.kind = "static"
  <2>1. 1 \in 1..Len(c.list) /\ c.list # <<>>
    <3>1. Len(c.list) = 1 /\ c.list \in Seq(Entries)
      BY <1>1, <1>5
    <3> QED
      BY ONLY <3>1
  <2>2. p = c.list[1].parent /\ GetData(c, t) = c.list
    BY <1>5, <2>1 DEF GetParent, GetData
  <2>3. p \in Frames \cap known /\ p # None /\ Rank[f] < Rank[p]
    BY <1>3, <1>4, <2>1, <2>2
  <2>4. Gather(f, t, data) = IF data THEN c.list ELSE <<[parent |-> p, s |-> 1, v |-> 0]>>
    BY <2>2, <2>3 DEF Gather, c
  <2>5. IsStep(Gather(f, t, data), p)
    BY <1>3, <2>1, <2>2, <2>3, <2>4 DEF IsStep
  <2> QED
    BY <1>2, <2>3, <2>5 DEF c
<1>6. CASE c.kind = "timed"
  <2>1. \/ found = <<>>
        \/ \E x \in 1..Len(c.list) : found = <<c.list[x]>>
        \/ \E n \in 1..Len(c.list) : /\ n + 1 \in 1..Len(c.list)
                                     /\ found = <<c.list[n + 1], c.list[n]>>
                                     /\ c.list[n + 1].stamp <= t /\ t < c.list[n].stamp
    <3>1. c.list \in Seq(Entries) /\ NewestFirst(c.list)
      BY <1>1, <1>6
    <3> QED
      BY ONLY <3>1, ClosestEntries, t \in Nat
  <2> HIDE DEF found
  <2>2. p = IF found = <<>> THEN None ELSE found[1].parent
    BY <1>6 DEF GetParent, found
  <2>3. CASE found = <<>>
    <3>1. p = None /\ GetData(c, t) = <<>>
      BY <1>6, <2>2, <2>3 DEF GetData, found
    <3>2. Gather(f, t, data) = <<>>
      BY <3>1 DEF Gather, c
    <3> QED
      BY <1>2, <3>1, <3>2 DEF IsStep, c
  <2>4. CASE \E x \in 1..Len(c.list) : found = <<c.list[x]>>
    <3>1. PICK x \in 1..Len(c.list) : found = <<c.list[x]>>
      BY <2>4
    <3>2. found # <<>> /\ found[1] = c.list[x] /\ Len(found) = 1
      BY <3>1
    <3>3. p = c.list[x].parent /\ GetData(c, t) = <<c.list[x]>>
      BY <1>6, <2>2, <3>2 DEF GetData, found
    <3>4. p \in Frames \cap known /\ p # None /\ Rank[f] < Rank[p]
      BY <1>3, <1>4, <3>3
    <3>5. Gather(f, t, data) = IF data THEN <<c.list[x]>> ELSE <<[parent |-> p, s |-> 1, v |-> 0]>>
      BY <3>3, <3>4 DEF Gather, c
    <3>6. IsStep(Gather(f, t, data), p)
      BY <1>3, <3>3, <3>4, <3>5 DEF IsStep
    <3> QED
      BY <1>2, <3>4, <3>6 DEF c
  <2>5. CASE \E n \in 1..Len(c.list) : /\ n + 1 \in 1..Len(c.list)
                                     /\ found = <<c.list[n + 1], c.list[n]>>
                                     /\ c.list[n + 1].stamp <= t /\ t < c.list[n].stamp
    <3>1. PICK n \in 1..Len(c.list) : /\ n + 1 \in 1..Len(c.list)
                                     /\ found = <<c.list[n + 1], c.list[n]>>
                                     /\ c.list[n + 1].stamp <= t /\ t < c.list[n].stamp
      BY <2>5
    <3> DEFINE old == c.list[n + 1]
               new == c.list[n]
               e == GetData(c, t)[1]
    <3>2. found # <<>> /\ found[1] = old /\ found[2] = new /\ Len(found) = 2
      BY <3>1
    <3>3. p = old.parent
      BY <2>2, <3>2
    <3>4. p \in Frames \cap known /\ p # None /\ Rank[f] < Rank[p]
      BY <1>3, <1>4, <3>1, <3>3
    <3>5. old \in Entries /\ new \in Entries
      BY <1>3, <3>1
    <3>6. GetData(c, t) = <<IF old.parent = new.parent THEN Interpolate(old, new, t) ELSE old>>
      BY <1>6, <3>2 DEF GetData, found
    <3>7. /\ Interpolate(old, new, t).parent = p
          /\ Interpolate(old, new, t).s \in {-1, 1}
          /\ Interpolate(old, new, t).v \in Int
      BY ONLY <3>1, <3>3, <3>5, InterpolationIsAMotion, t \in Nat
    <3>8. old.s \in {-1, 1} /\ old.v \in Int
      BY <1>3, <3>1
    <3> HIDE DEF old, new
    <3>9. GetData(c, t) # <<>> /\ e.parent = p /\ e.s \in {-1, 1} /\ e.v \in Int
      BY <3>3, <3>6, <3>7, <3>8
    <3>10. Gather(f, t, data) = IF data THEN GetData(c, t) ELSE <<[parent |-> p, s |-> 1, v |-> 0]>>
      BY <3>4 DEF Gather, c
    <3>11. IsStep(Gather(f, t, data), p)
      BY <3>4, <3>9, <3>10 DEF IsStep
    <3> QED
      BY <1>2, <3>4, <3>11 DEF c
  <2> QED
    BY <2>1, <2>3, <2>4, <2>5
<1> QED
  BY <1>1, <1>5, <1>6

\* At every time the parents are a tree.
LEMMA ParentsAreATree ==
    ASSUME CacheInv, NEW t \in Nat
    PROVE  IsTree(ParentsOf(caches, t))
<1> DEFINE par == ParentsOf(caches, t)
<1>1. ASSUME NEW f \in Frames
      PROVE  /\ par[f] \in Frames \cup {None}
             /\ par[f] # None => Rank[f] < Rank[par[f]]
  <2>1. CASE caches[f].kind = "none"
    BY <2>1 DEF ParentsOf
  <2>2. CASE caches[f].kind # "none"
    <3>1. TRUE \in BOOLEAN
      OBVIOUS
    <3>2. par[f] = GetParent(caches[f], t) /\ GetParent(caches[f], t) # None =>
                /\ GetParent(caches[f], t) \in Frames
                /\ Rank[f] < Rank[GetParent(caches[f], t)]
      BY <2>2, <3>1, GatherGivesTheStep
    <3> QED
      BY <2>2, <3>2, GatherGivesTheStep
  <2> QED
    BY <2>1, <2>2
<1>2. par = [f \in Frames |-> par[f]]
  BY DEF ParentsOf
<1> HIDE DEF par
<1> QED
  BY <1>1, <1>2 DEF IsTree, par

-----------------------------------------------------------------------------
(***************************************************************************)
(* Motions form a group.                                                   *)
(***************************************************************************)

\* A motion is made of its turn and its shift.
LEMMA PartsOfMotion ==
    ASSUME NEW m \in Motions
    PROVE  m.s \in {-1, 1} /\ m.s \in Int /\ m.v \in Int /\ m = [s |-> m.s, v |-> m.v]
BY DEF Motions

\* Composing and inverting gives motions.
LEMMA MotionsCompose ==
    ASSUME NEW a \in Motions, NEW b \in Motions
    PROVE  /\ Compose(a, b) \in Motions /\ Inverted(a) \in Motions /\ Identity \in Motions
           /\ Compose(Identity, a) = a /\ Compose(a, Identity) = a
           /\ Compose(Inverted(a), a) = Identity
<1>1. a.s \in {-1, 1} /\ b.s \in {-1, 1} /\ a.v \in Int /\ b.v \in Int /\ a = [s |-> a.s, v |-> a.v]
  BY PartsOfMotion
<1> DEFINE p == a.s  q == b.s  x == a.v  y == b.v
<1>2. /\ p * q \in {-1, 1} /\ p * y + x \in Int /\ -(p * x) \in Int
      /\ 1 * p = p /\ 1 * x + 0 = x /\ p * 1 = p /\ p * 0 + x = x
      /\ p * p = 1 /\ p * x + (-(p * x)) = 0
  <2>1. p \in {-1, 1} /\ q \in {-1, 1} /\ x \in Int /\ y \in Int
    BY <1>1
  <2> HIDE DEF p, q, x, y
  <2>2. CASE p = 1
    BY <2>1, <2>2
  <2>3. CASE p = -1
    BY <2>1, <2>3
  <2> QED
    BY <2>1, <2>2, <2>3
<1>3. /\ Compose(a, b) = [s |-> p * q, v |-> p * y + x]
      /\ Inverted(a) = [s |-> p, v |-> -(p * x)] /\ Identity = [s |-> 1, v |-> 0]
  BY DEF Compose, Inverted, Identity
<1>4. Compose(a, b) \in Motions /\ Inverted(a) \in Motions /\ Identity \in Motions
  BY <1>1, <1>2, <1>3 DEF Motions
<1>5. Compose(Identity, a) = [s |-> 1 * p, v |-> 1 * x + 0]
  BY DEF Compose, Identity
<1>6. Compose(a, Identity) = [s |-> p * 1, v |-> p * 0 + x]
  BY DEF Compose, Identity
<1>7. Compose(Inverted(a), a) = [s |-> p * p, v |-> p * x + (-(p * x))]
  BY <1>3 DEF Compose
<1> HIDE DEF p, q, x, y
<1>8. Compose(Identity, a) = [s |-> p, v |-> x] /\ Compose(a, Identity) = [s |-> p, v |-> x]
  BY <1>2, <1>5, <1>6
<1>9. Compose(Inverted(a), a) = Identity
  BY <1>2, <1>3, <1>7
<1> QED
  BY <1>1, <1>4, <1>8, <1>9 DEF p, x

\* Three motions: the order of composing does not matter.
LEMMA ComposeIsAssociative ==
    ASSUME NEW a \in Motions, NEW b \in Motions, NEW c \in Motions
    PROVE  Compose(a, Compose(b, c)) = Compose(Compose(a, b), c)
<1> DEFINE p == a.s  q == b.s  r == c.s  x == a.v  y == b.v  z == c.v
<1>1. /\ p \in {-1, 1} /\ q \in {-1, 1} /\ r \in {-1, 1}
      /\ x \in Int /\ y \in Int /\ z \in Int
  BY PartsOfMotion
<1>2. Compose(a, Compose(b, c)) = [s |-> p * (q * r), v |-> p * (q * z + y) + x]
  BY DEF Compose
<1>3. Compose(Compose(a, b), c) = [s |-> (p * q) * r, v |-> (p * q) * z + (p * y + x)]
  BY DEF Compose
<1> HIDE DEF p, q, r, x, y, z
<1>4. p * (q * r) = (p * q) * r /\ p * (q * z + y) + x = (p * q) * z + (p * y + x)
  <2>1. CASE p = 1 /\ q = 1
    BY <1>1, <2>1
  <2>2. CASE p = 1 /\ q = -1
    BY <1>1, <2>2
  <2>3. CASE p = -1 /\ q = 1
    BY <1>1, <2>3
  <2>4. CASE p = -1 /\ q = -1
    BY <1>1, <2>4
  <2> QED
    BY <1>1, <2>1, <2>2, <2>3, <2>4
<1> QED
  BY <1>2, <1>3, <1>4

\* Two frames under a third: where that one lies does not matter.
LEMMA CommonPartCancels ==
    ASSUME NEW x \in Motions, NEW d \in Motions, NEW u \in Motions
    PROVE  Compose(Inverted(Compose(x, d)), Compose(x, u)) = Compose(Inverted(d), u)
<1> DEFINE p == x.s  q == d.s  r == u.s  f == x.v  g == d.v  h == u.v
<1>1. /\ p \in {-1, 1} /\ q \in {-1, 1} /\ r \in {-1, 1}
      /\ f \in Int /\ g \in Int /\ h \in Int
  BY PartsOfMotion
<1>2. Compose(Inverted(Compose(x, d)), Compose(x, u))
        = [s |-> (p * q) * (p * r), v |-> (p * q) * (p * h + f) + (-((p * q) * (p * g + f)))]
  BY DEF Compose, Inverted
<1>3. Compose(Inverted(d), u) = [s |-> q * r, v |-> q * h + (-(q * g))]
  BY DEF Compose, Inverted
<1> HIDE DEF p, q, r, f, g, h
<1>4. /\ (p * q) * (p * r) = q * r
      /\ (p * q) * (p * h + f) + (-((p * q) * (p * g + f))) = q * h + (-(q * g))
  <2>1. CASE p = 1 /\ q = 1
    BY <1>1, <2>1
  <2>2. CASE p = 1 /\ q = -1
    BY <1>1, <2>2
  <2>3. CASE p = -1 /\ q = 1
    BY <1>1, <2>3
  <2>4. CASE p = -1 /\ q = -1
    BY <1>1, <2>4
  <2> QED
    BY <1>1, <2>1, <2>2, <2>3, <2>4
<1> QED
  BY <1>2, <1>3, <1>4

\* Going over a third frame.
LEMMA MiddleCancels ==
    ASSUME NEW a \in Motions, NEW b \in Motions, NEW c \in Motions
    PROVE  Compose(Compose(Inverted(a), b), Compose(Inverted(b), c)) = Compose(Inverted(a), c)
<1> DEFINE p == a.s  q == b.s  r == c.s  f == a.v  g == b.v  h == c.v
<1>1. /\ p \in {-1, 1} /\ q \in {-1, 1} /\ r \in {-1, 1}
      /\ f \in Int /\ g \in Int /\ h \in Int
  BY PartsOfMotion
<1>2. Compose(Compose(Inverted(a), b), Compose(Inverted(b), c))
        = [s |-> (p * q) * (q * r),
           v |-> (p * q) * (q * h + (-(q * g))) + (p * g + (-(p * f)))]
  BY DEF Compose, Inverted
<1>3. Compose(Inverted(a), c) = [s |-> p * r, v |-> p * h + (-(p * f))]
  BY DEF Compose, Inverted
<1> HIDE DEF p, q, r, f, g, h
<1>4. /\ (p * q) * (q * r) = p * r
      /\ (p * q) * (q * h + (-(q * g))) + (p * g + (-(p * f))) = p * h + (-(p * f))
  <2>1. CASE p = 1 /\ q = 1
    BY <1>1, <2>1
  <2>2. CASE p = 1 /\ q = -1
    BY <1>1, <2>2
  <2>3. CASE p = -1 /\ q = 1
    BY <1>1, <2>3
  <2>4. CASE p = -1 /\ q = -1
    BY <1>1, <2>4
  <2> QED
    BY <1>1, <2>1, <2>2, <2>3, <2>4
<1> QED
  BY <1>2, <1>3, <1>4

-----------------------------------------------------------------------------
(***************************************************************************)
(* Recursion up a tree, the tops of its parts, and the climbs.             *)
(***************************************************************************)

Closed(S, par) == \A f \in Frames : par[f] # None => (f \in S <=> par[f] \in S)

\* Two frames are in one part of the forest when nothing closed tells them apart.
Connected(par, a, b) == \A S \in SUBSET Frames : Closed(S, par) => (a \in S <=> b \in S)

\* What is defined from the parent downwards.
Descends(P, par, base, step) ==
    \A f \in Frames : P[f] = IF par[f] = None THEN base[f] ELSE step[f][P[par[f]]]

IsTop(top, par) ==
    /\ top \in [Frames -> Frames]
    /\ \A f \in Frames : top[f] = IF par[f] = None THEN f ELSE top[par[f]]

\* Such a definition has a solution.
LEMMA DescentExists ==
    ASSUME NEW par, IsTree(par), NEW V, NEW base \in [Frames -> V],
           NEW step \in [Frames -> [V -> V]]
    PROVE  \E P \in [Frames -> V] : Descends(P, par, base, step)
<1> DEFINE n == MaxDepth
           Rule(P, f) == P[f] = IF par[f] = None THEN base[f] ELSE step[f][P[par[f]]]
           Works(P, m) == \A f \in Frames : Rank[f] > n - m => Rule(P, f)
           S == {m \in 0..n : \E P \in [Frames -> V] : Works(P, m)}
<1>1. n \in Nat /\ \A f \in Frames : Rank[f] \in 1..n /\ par[f] \in Frames \cup {None}
  BY RankIsAnOrder DEF IsTree
<1>2. \A f \in Frames : par[f] # None => par[f] \in Frames /\ Rank[f] < Rank[par[f]]
  BY <1>1 DEF IsTree
<1>3. 0 \in S
  <2>1. Works(base, 0)
    <3>1. \A f \in Frames : ~(Rank[f] > n - 0)
      BY <1>1
    <3> QED
      BY <3>1
  <2> QED
    BY <1>1, <2>1
<1>4. ASSUME NEW m \in 0..(n - 1), m \in S PROVE m + 1 \in S
  <2>1. PICK P \in [Frames -> V] : Works(P, m)
    BY <1>4
  <2> DEFINE Q == [f \in Frames |-> IF Rank[f] > n - m THEN P[f]
                                    ELSE IF par[f] = None THEN base[f]
                                    ELSE step[f][P[par[f]]]]
  <2>2. \A f \in Frames : P[f] \in V /\ base[f] \in V
                          /\ (par[f] # None => step[f][P[par[f]]] \in V)
    BY <1>2
  <2>3. Q \in [Frames -> V]
    BY <2>2
  <2>4. ASSUME NEW f \in Frames, Rank[f] > n - (m + 1) PROVE Rule(Q, f)
    <3>1. par[f] # None => par[f] \in Frames /\ Rank[par[f]] > n - m
      BY <1>1, <1>2, <2>4
    <3>2. par[f] # None => Q[par[f]] = P[par[f]]
      BY <3>1
    <3>3. CASE Rank[f] > n - m
      <4>1. Q[f] = P[f] /\ Rule(P, f)
        BY <2>1, <3>3
      <4> QED
        BY <3>2, <4>1
    <3>4. CASE ~(Rank[f] > n - m)
      <4>1. Q[f] = IF par[f] = None THEN base[f] ELSE step[f][P[par[f]]]
        BY <3>4
      <4> QED
        BY <3>2, <4>1
    <3> QED
      BY <3>3, <3>4
  <2> HIDE DEF Q, Rule
  <2>5. Works(Q, m + 1)
    BY <2>4
  <2>6. m + 1 \in 0..n
    BY <1>1
  <2> QED
    BY <2>3, <2>5, <2>6
<1>5. \A m \in 0..n : m \in S
  <2> HIDE DEF S
  <2> QED
    BY <1>1, <1>3, <1>4, InductionUpTo
<1>6. PICK P \in [Frames -> V] : Works(P, n)
  <2>1. n \in 0..n
    BY <1>1
  <2>2. n \in S
    <3> HIDE DEF S
    <3> QED
      BY <1>5, <2>1
  <2> HIDE DEF Works
  <2> QED
    BY <2>2
<1>7. \A f \in Frames : Rank[f] > n - n
  BY <1>1
<1>8. \A f \in Frames : Rule(P, f)
  <2> HIDE DEF Rule
  <2> QED
    BY <1>6, <1>7
<1> QED
  BY <1>8 DEF Descends

\* Every frame has a top.
LEMMA TopExists ==
    ASSUME NEW par, IsTree(par)
    PROVE  \E top : IsTop(top, par)
<1> DEFINE base == [f \in Frames |-> f]
           step == [f \in Frames |-> [g \in Frames |-> g]]
<1>1. base \in [Frames -> Frames] /\ step \in [Frames -> [Frames -> Frames]]
  OBVIOUS
<1>2. \A f \in Frames, g \in Frames : base[f] = f /\ step[f][g] = g
  OBVIOUS
<1>3. \A f \in Frames : par[f] # None => par[f] \in Frames
  BY DEF IsTree
<1> HIDE DEF base, step
<1>4. PICK P \in [Frames -> Frames] : Descends(P, par, base, step)
  BY <1>1, DescentExists
<1>5. IsTop(P, par)
  BY <1>2, <1>3, <1>4 DEF IsTop, Descends
<1> QED
  BY <1>5

\* Frames with different tops are not connected.
LEMMA TopsSeparate ==
    ASSUME NEW par, IsTree(par), NEW top, IsTop(top, par),
           NEW a \in Frames, NEW b \in Frames, Connected(par, a, b)
    PROVE  top[a] = top[b]
<1> DEFINE S == {f \in Frames : top[f] = top[a]}
<1>1. \A f \in Frames : par[f] # None => par[f] \in Frames /\ top[f] = top[par[f]]
  BY DEF IsTree, IsTop
<1>2. Closed(S, par) /\ S \in SUBSET Frames
  BY <1>1 DEF Closed
<1>3. a \in S <=> b \in S
  <2> HIDE DEF S
  <2> QED
    BY <1>2 DEF Connected
<1> QED
  BY <1>3

-----------------------------------------------------------------------------
Walks == [at : Frames, tf : Motions, end : {"loop", "met", "root", "gap"}]
Edge(st) == [s |-> st[1].s, v |-> st[1].v]
Frontier(start) == [at |-> start, tf |-> Identity, end |-> "loop"]

\* Where a frame lies below its top.
IsPlaced(P, t, data) ==
    /\ P \in [Frames -> Motions]
    /\ \A f \in Frames : P[f] = IF ParentsOf(caches, t)[f] = None THEN Identity
                                ELSE Compose(P[ParentsOf(caches, t)[f]], Edge(Gather(f, t, data)))

\* A frame with a parent gives a motion.
LEMMA EdgeIsAMotion ==
    ASSUME CacheInv, NEW f \in Frames, NEW t \in Nat, NEW data \in BOOLEAN,
           ParentsOf(caches, t)[f] # None
    PROVE  /\ caches[f].kind # "none" /\ Gather(f, t, data) # <<>>
           /\ Gather(f, t, data)[1].parent = ParentsOf(caches, t)[f]
           /\ Edge(Gather(f, t, data)) \in Motions
           /\ ParentsOf(caches, t)[f] \in Frames
           /\ Rank[f] < Rank[ParentsOf(caches, t)[f]]
<1>1. caches[f].kind # "none"
  BY DEF ParentsOf
<1>2. IsStep(Gather(f, t, data), ParentsOf(caches, t)[f])
  BY <1>1, GatherGivesTheStep
<1>3. /\ Gather(f, t, data) # <<>> /\ Gather(f, t, data)[1].parent = ParentsOf(caches, t)[f]
      /\ Gather(f, t, data)[1].s \in {-1, 1} /\ Gather(f, t, data)[1].v \in Int
  BY <1>2 DEF IsStep
<1>4. ParentsOf(caches, t)[f] \in Frames /\ Rank[f] < Rank[ParentsOf(caches, t)[f]]
  BY ParentsAreATree DEF IsTree
<1> QED
  BY <1>1, <1>3, <1>4 DEF Edge, Motions

\* Every frame has a place.
LEMMA PlacesExist ==
    ASSUME CacheInv, NEW t \in Nat, NEW data \in BOOLEAN
    PROVE  \E P : IsPlaced(P, t, data)
<1> DEFINE par == ParentsOf(caches, t)
           up(f, m) == IF par[f] = None THEN m ELSE Compose(m, Edge(Gather(f, t, data)))
           base == [f \in Frames |-> Identity]
           step == [f \in Frames |-> [m \in Motions |-> up(f, m)]]
<1>1. IsTree(par) /\ Identity \in Motions
  BY ParentsAreATree DEF Motions, Identity
<1>2. ASSUME NEW f \in Frames, NEW m \in Motions PROVE up(f, m) \in Motions
  <2>1. par[f] # None => Edge(Gather(f, t, data)) \in Motions
    BY EdgeIsAMotion
  <2> QED
    BY <2>1, MotionsCompose
<1>3. base \in [Frames -> Motions] /\ step \in [Frames -> [Motions -> Motions]]
  <2> HIDE DEF up
  <2> QED
    BY <1>1, <1>2
<1>4. \A f \in Frames, m \in Motions : base[f] = Identity /\ step[f][m] = up(f, m)
  <2> HIDE DEF up
  <2> QED
    OBVIOUS
<1> HIDE DEF base, step, par
<1>5. PICK P \in [Frames -> Motions] : Descends(P, par, base, step)
  BY <1>1, <1>3, DescentExists
<1>6. \A f \in Frames : par[f] # None => par[f] \in Frames
  BY <1>1 DEF IsTree
<1>7. \A f \in Frames : P[f] = IF par[f] = None THEN Identity
                               ELSE Compose(P[par[f]], Edge(Gather(f, t, data)))
  BY <1>4, <1>5, <1>6 DEF Descends
<1>8. IsPlaced(P, t, data)
  BY <1>7 DEF IsPlaced, par
<1> QED
  BY <1>8

\* One frame further up a walk: the cases of the loop of walkToTopParent.
LEMMA AscendCases ==
    ASSUME CacheInv, NEW w \in Walks, NEW stop \in SUBSET Frames, NEW t \in Nat, NEW data \in BOOLEAN
    PROVE  \E v \in Walks :
             /\ v = Ascend(w, Gather(w.at, t, data), stop)
             /\ \/ w.end # "loop" /\ v = w
                \/ w.end = "loop" /\ w.at \in stop /\ v.end = "met" /\ v.at = w.at /\ v.tf = w.tf
                \/ /\ w.end = "loop" /\ w.at \notin stop /\ ParentsOf(caches, t)[w.at] = None
                   /\ v.end \in {"root", "gap"} /\ v.at = w.at /\ v.tf = w.tf
                \/ /\ w.end = "loop" /\ w.at \notin stop /\ ParentsOf(caches, t)[w.at] # None
                   /\ v.end = "loop" /\ v.at = ParentsOf(caches, t)[w.at]
                   /\ v.tf = Compose(Edge(Gather(w.at, t, data)), w.tf)
<1> DEFINE v == Ascend(w, Gather(w.at, t, data), stop)
           f == w.at
           p == ParentsOf(caches, t)[f]
           st == Gather(f, t, data)
<1>1. f \in Frames /\ w.tf \in Motions /\ w = [at |-> f, tf |-> w.tf, end |-> w.end]
  BY DEF Walks
<1>2. caches[f].kind = "none" => p = None
  BY <1>1 DEF ParentsOf
<1>3. caches[f].kind # "none" => IsStep(st, p)
  BY <1>1, GatherGivesTheStep
<1>4. p # None => p \in Frames /\ Edge(st) \in Motions /\ st # <<>> /\ st[1].parent = p
                  /\ caches[f].kind # "none"
  BY <1>1, EdgeIsAMotion
<1>5. v = IF w.end # "loop" THEN w
          ELSE IF f \in stop THEN [w EXCEPT !.end = "met"]
          ELSE IF caches[f].kind = "none" THEN [w EXCEPT !.end = "root"]
          ELSE IF st = <<>> THEN [w EXCEPT !.end = "gap"]
          ELSE [w EXCEPT !.at = st[1].parent, !.tf = Compose(Edge(st), w.tf)]
  BY DEF Ascend, Edge
<1>0. v = Ascend(w, Gather(w.at, t, data), stop)
  OBVIOUS
<1> HIDE DEF f, p, st, v
<1>6. CASE w.end # "loop"
  BY <1>0, <1>5, <1>6
<1>7. CASE w.end = "loop" /\ f \in stop
  <2>1. v = [w EXCEPT !.end = "met"]
    BY <1>5, <1>7
  <2>2. v = [at |-> f, tf |-> w.tf, end |-> "met"]
    BY ONLY <1>1, <2>1
  <2> QED
    BY <1>0, <1>1, <1>7, <2>2 DEF Walks, f
<1>8. CASE w.end = "loop" /\ f \notin stop /\ p = None
  <2>1. v = [w EXCEPT !.end = "root"] \/ v = [w EXCEPT !.end = "gap"]
    BY <1>3, <1>5, <1>8 DEF IsStep
  <2>2. \E e \in {"root", "gap"} : v = [at |-> f, tf |-> w.tf, end |-> e]
    BY ONLY <1>1, <2>1
  <2>3. v.at = f /\ v.tf = w.tf /\ v.end \in {"root", "gap"} /\ v \in Walks
    BY <1>1, <2>2 DEF Walks
  <2> QED
    BY <1>0, <1>8, <2>3 DEF f, p
<1>9. CASE w.end = "loop" /\ f \notin stop /\ p # None
  <2> DEFINE tf == Compose(Edge(st), w.tf)
  <2>1. v = [w EXCEPT !.at = st[1].parent, !.tf = tf]
    BY <1>4, <1>5, <1>9
  <2>2. tf \in Motions /\ p \in Frames /\ st[1].parent = p
    BY <1>1, <1>4, <1>9, MotionsCompose
  <2> HIDE DEF tf
  <2>3. v = [at |-> p, tf |-> tf, end |-> "loop"]
    BY ONLY <1>1, <1>9, <2>1, <2>2
  <2>4. v.at = p /\ v.tf = tf /\ v.end = "loop" /\ v \in Walks
    BY <2>2, <2>3 DEF Walks
  <2> QED
    BY <1>0, <1>9, <2>4 DEF f, p, st, tf
<1> QED
  BY <1>6, <1>7, <1>8, <1>9 DEF f, p

\* A walk goes on as a walk.
LEMMA AscendGivesAWalk ==
    ASSUME CacheInv, NEW u \in Walks, NEW stop \in SUBSET Frames, NEW t \in Nat, NEW data \in BOOLEAN
    PROVE  Ascend(u, Gather(u.at, t, data), stop) \in Walks
BY AscendCases

\* A climb after k steps.
ClimbInv(w, start, stop, k, t, top, P) ==
    /\ w \in Walks
    /\ \A S \in SUBSET Frames : Closed(S, ParentsOf(caches, t)) => (w.at \in S <=> start \in S)
    /\ top[w.at] = top[start]
    /\ P[start] = Compose(P[w.at], w.tf)
    /\ w.end = "met" => w.at \in stop
    /\ w.end \in {"root", "gap"} => ParentsOf(caches, t)[w.at] = None
    /\ w.end = "loop" => k < Rank[w.at]
    /\ k = 0 => w.end = "loop"
    /\ start \in stop => w.at = start /\ (k # 0 => w.end = "met")

\* The first step of a climb.
LEMMA ClimbStarts ==
    ASSUME CacheInv, NEW start \in Frames, NEW stop \in SUBSET Frames, NEW t \in Nat, NEW data \in BOOLEAN,
           NEW top, IsTop(top, ParentsOf(caches, t)), NEW P, IsPlaced(P, t, data)
    PROVE  ClimbInv(Frontier(start), start, stop, 0, t, top, P)
<1> DEFINE w == Frontier(start)
<1>1. w.at = start /\ w.tf = Identity /\ w.end = "loop"
  BY DEF Frontier
<1>2. P[start] \in Motions
  BY DEF IsPlaced
<1>3. Identity \in Motions /\ P[start] = Compose(P[start], Identity)
  BY <1>2, MotionsCompose
<1>4. w \in Walks
  BY <1>3 DEF Walks, Frontier
<1>5. 0 < Rank[start]
  BY RankIsAnOrder
<1> HIDE DEF w
<1> QED
  BY <1>1, <1>3, <1>4, <1>5 DEF ClimbInv, w

\* Another step of a climb.
LEMMA ClimbGoesOn ==
    ASSUME CacheInv, NEW start \in Frames, NEW stop \in SUBSET Frames, NEW t \in Nat, NEW data \in BOOLEAN,
           NEW top, IsTop(top, ParentsOf(caches, t)), NEW P, IsPlaced(P, t, data),
           NEW k \in Nat, NEW w, ClimbInv(w, start, stop, k, t, top, P)
    PROVE  ClimbInv(Ascend(w, Gather(w.at, t, data), stop), start, stop, k + 1, t, top, P)
<1> DEFINE v == Ascend(w, Gather(w.at, t, data), stop)
           par == ParentsOf(caches, t)
           e == Edge(Gather(w.at, t, data))
<1>1. w \in Walks /\ w.at \in Frames /\ w.tf \in Motions
  BY DEF ClimbInv, Walks
<1>2. /\ v \in Walks
      /\ \/ w.end # "loop" /\ v = w
         \/ w.end = "loop" /\ w.at \in stop /\ v.end = "met" /\ v.at = w.at /\ v.tf = w.tf
         \/ /\ w.end = "loop" /\ w.at \notin stop /\ par[w.at] = None
            /\ v.end \in {"root", "gap"} /\ v.at = w.at /\ v.tf = w.tf
         \/ /\ w.end = "loop" /\ w.at \notin stop /\ par[w.at] # None
            /\ v.end = "loop" /\ v.at = par[w.at] /\ v.tf = Compose(e, w.tf)
  BY <1>1, AscendCases
<1> HIDE DEF v
<1>3. CASE w.end # "loop" /\ v = w
  <2>1. k # 0 /\ k + 1 # 0
    BY <1>3 DEF ClimbInv
  <2> QED
    BY <1>3, <2>1 DEF ClimbInv, v
<1>4. CASE w.end = "loop" /\ w.at \in stop /\ v.end = "met" /\ v.at = w.at /\ v.tf = w.tf
  BY <1>2, <1>4 DEF ClimbInv, v
<1>5. CASE /\ w.end = "loop" /\ w.at \notin stop /\ par[w.at] = None
           /\ v.end \in {"root", "gap"} /\ v.at = w.at /\ v.tf = w.tf
  <2>1. start \notin stop
    BY <1>5 DEF ClimbInv
  <2>2. v.end # "met" /\ v.end # "loop"
    BY <1>5
  <2> QED
    BY <1>2, <1>5, <2>1, <2>2 DEF ClimbInv, v
<1>6. CASE /\ w.end = "loop" /\ w.at \notin stop /\ par[w.at] # None
           /\ v.end = "loop" /\ v.at = par[w.at] /\ v.tf = Compose(e, w.tf)
  <2>1. start \notin stop
    BY <1>6 DEF ClimbInv
  <2>2. e \in Motions /\ v.at \in Frames /\ Rank[w.at] < Rank[v.at]
    BY <1>1, <1>6, EdgeIsAMotion
  <2>3. k + 1 < Rank[v.at]
    <3>1. k < Rank[w.at]
      BY <1>6 DEF ClimbInv
    <3>2. Rank[w.at] \in Int /\ Rank[v.at] \in Int
      BY <1>1, <2>2, RankIsAnOrder
    <3> QED
      BY <2>2, <3>1, <3>2
  <2>4. top[v.at] = top[start]
    <3>1. top[w.at] = top[par[w.at]]
      BY <1>1, <1>6 DEF IsTop
    <3> QED
      BY <1>6, <3>1 DEF ClimbInv
  <2>5. P[start] = Compose(P[v.at], v.tf)
    <3>1. P[w.at] = Compose(P[v.at], e) /\ P[v.at] \in Motions
      BY <1>1, <1>6, <2>2 DEF IsPlaced
    <3>2. P[start] = Compose(Compose(P[v.at], e), w.tf)
      BY <3>1 DEF ClimbInv
    <3>3. Compose(P[v.at], Compose(e, w.tf)) = Compose(Compose(P[v.at], e), w.tf)
      <4> HIDE DEF e
      <4> QED
        BY <1>1, <2>2, <3>1, ComposeIsAssociative
    <3> QED
      BY <1>6, <3>2, <3>3
  <2>6. \A S \in SUBSET Frames : Closed(S, par) => (v.at \in S <=> start \in S)
    <3> SUFFICES ASSUME NEW S \in SUBSET Frames, Closed(S, par)
                 PROVE  v.at \in S <=> start \in S
      OBVIOUS
    <3>1. w.at \in S <=> start \in S
      BY DEF ClimbInv
    <3>2. w.at \in S <=> par[w.at] \in S
      BY <1>1, <1>6 DEF Closed
    <3> QED
      BY <1>6, <3>1, <3>2
  <2> QED
    BY <1>2, <1>6, <2>1, <2>3, <2>4, <2>5, <2>6 DEF ClimbInv, v
<1> QED
  BY <1>2, <1>3, <1>4, <1>5, <1>6 DEF v

\* A climb ends at a frame of stop or at the top.
LEMMA ClimbEnds ==
    ASSUME CacheInv, NEW start \in Frames, NEW stop \in SUBSET Frames, NEW t \in Nat, NEW data \in BOOLEAN,
           NEW top, IsTop(top, ParentsOf(caches, t)), NEW P, IsPlaced(P, t, data),
           NEW w, w = Climb(start, stop, t, data)
    PROVE  /\ ClimbInv(w, start, stop, MaxDepth + 1, t, top, P) /\ w.end # "loop"
<1> DEFINE n == MaxDepth + 1
           next == [v \in Walks |-> Ascend(v, Gather(v.at, t, data), stop)]
           G == [k \in 1..n |-> next]
           Rule(up) == up = [k \in 0..n |->
                         IF k = 0 THEN Frontier(start)
                         ELSE Ascend(up[k - 1], Gather(up[k - 1].at, t, data), stop)]
           up0 == CHOOSE up : Rule(up)
<1>1. n \in Nat /\ MaxDepth \in Nat
  BY RankIsAnOrder
<1>2. Frontier(start) \in Walks
  BY MotionsCompose DEF Walks, Frontier, Identity, Motions
<1>3. \A v \in Walks : Ascend(v, Gather(v.at, t, data), stop) \in Walks
  <2> SUFFICES ASSUME NEW u \in Walks
               PROVE  Ascend(u, Gather(u.at, t, data), stop) \in Walks
    OBVIOUS
  <2> QED
    BY AscendGivesAWalk
<1>4. next \in [Walks -> Walks] /\ G \in FoldStepsOn(n, Walks)
  BY <1>3 DEF FoldStepsOn
<1>5. \E up : Rule(up)
  <2>1. PICK f \in [0..n -> Walks] : FoldsAlong(f, n, Frontier(start), G)
    <3> HIDE DEF n, G
    <3> QED
      BY <1>1, <1>2, <1>4, FoldExists
  <2>2. \A k \in 1..n : k - 1 \in 0..n /\ f[k - 1] \in Walks /\ k # 0
    BY <1>1
  <2>3. \A k \in 1..n : f[k] = Ascend(f[k - 1], Gather(f[k - 1].at, t, data), stop)
    BY <2>1, <2>2 DEF FoldsAlong
  <2>4. \A k \in 0..n : f[k] = IF k = 0 THEN Frontier(start)
                         ELSE Ascend(f[k - 1], Gather(f[k - 1].at, t, data), stop)
    <3>1. \A k \in 0..n : k = 0 \/ k \in 1..n
      BY <1>1
    <3> QED
      BY <2>1, <2>3, <3>1 DEF FoldsAlong
  <2>5. Rule(f)
    BY <2>4
  <2> HIDE DEF Rule
  <2> QED
    BY <2>5
<1>6. Rule(up0)
  <2> HIDE DEF Rule
  <2> QED
    BY <1>5
<1>7. w = up0[n]
  BY DEF Climb, Frontier
<1> HIDE DEF up0
<1>8. up0[0] = Frontier(start)
  BY <1>1, <1>6
<1>9. \A k \in 1..n : up0[k] = Ascend(up0[k - 1], Gather(up0[k - 1].at, t, data), stop)
  BY <1>1, <1>6
<1> HIDE DEF Rule
<1> DEFINE S == {k \in 0..n : ClimbInv(up0[k], start, stop, k, t, top, P)}
<1>10. 0 \in S
  BY <1>1, <1>8, ClimbStarts
<1>11. ASSUME NEW k \in 0..(n - 1), k \in S PROVE k + 1 \in S
  <2>1. k \in Nat /\ k + 1 \in 1..n /\ k + 1 \in 0..n /\ (k + 1) - 1 = k
    BY <1>1
  <2>2. ClimbInv(up0[k], start, stop, k, t, top, P)
    BY <1>11
  <2>3. up0[k + 1] = Ascend(up0[k], Gather(up0[k].at, t, data), stop)
    BY <1>9, <2>1
  <2>4. ClimbInv(up0[k + 1], start, stop, k + 1, t, top, P)
    BY <2>1, <2>2, <2>3, ClimbGoesOn
  <2> QED
    BY <2>1, <2>4
<1>12. n \in S
  <2> HIDE DEF S, n
  <2> QED
    BY <1>1, <1>10, <1>11, InductionUpTo
<1>13. ClimbInv(w, start, stop, n, t, top, P)
  BY <1>7, <1>12
<1>14. w.end # "loop"
  <2>1. w.at \in Frames
    BY <1>13 DEF ClimbInv, Walks
  <2>2. Rank[w.at] \in 1..MaxDepth
    BY <2>1, RankIsAnOrder
  <2>3. ~(n < Rank[w.at])
    BY <1>1, <2>2
  <2> QED
    BY <1>13, <2>3 DEF ClimbInv
<1> QED
  BY <1>13, <1>14

\* Two climbs that end together: what the walk gives.
LEMMA ClimbsJoin ==
    ASSUME NEW source \in Frames, NEW t \in Nat, NEW up \in Walks, NEW down \in Walks,
           up.end # "loop", down.end # "loop"
    PROVE  /\ Joined(source, t, up, down).error = "none"
                <=> down.end = "met" \/ down.at = up.at
           /\ Joined(source, t, up, down).error = "none" =>
                Joined(source, t, up, down).tf =
                  IF down.at = source THEN Inverted(down.tf)
                  ELSE Compose(Inverted(down.tf), up.tf)
<1> DEFINE tf == IF down.at = source THEN Inverted(down.tf)
                 ELSE Compose(Inverted(down.tf), up.tf)
           r == Joined(source, t, up, down)
<1>1. r = IF down.end = "met" \/ down.at = up.at
          THEN [error |-> "none", time |-> t, tf |-> tf]
          ELSE IF "gap" \in {up.end, down.end} THEN Failure("extrapolation")
          ELSE Failure("connectivity")
  BY DEF Joined
<1>2. Failure("extrapolation").error # "none" /\ Failure("connectivity").error # "none"
  BY DEF Failure
<1> HIDE DEF tf, r
<1>3. r.error = "none" <=> down.end = "met" \/ down.at = up.at
  BY <1>1, <1>2
<1>4. r.error = "none" => r.tf = tf
  BY <1>1, <1>3
<1> QED
  BY <1>3, <1>4 DEF r, tf

\* A walk succeeds exactly within one part of the forest, and gives the motion
\* between the places of the two frames.
LEMMA WalkIsTheWay ==
    ASSUME CacheInv, NEW target \in Frames, NEW source \in Frames, NEW t \in Nat,
           NEW data \in BOOLEAN, NEW P \in [Frames -> Motions], IsPlaced(P, t, data)
    PROVE  /\ WalkAt(target, source, t, data).error = "none"
                <=> Connected(ParentsOf(caches, t), target, source)
           /\ WalkAt(target, source, t, data).error = "none" =>
                WalkAt(target, source, t, data).tf = Compose(Inverted(P[target]), P[source])
<1> DEFINE par == ParentsOf(caches, t)
           up == Climb(source, {target}, t, data)
           down == Climb(target, {up.at, source}, t, data)
           r == WalkAt(target, source, t, data)
           n == MaxDepth + 1
<1>1. PICK top : IsTop(top, par)
  BY ParentsAreATree, TopExists
<1>2. ClimbInv(up, source, {target}, n, t, top, P) /\ up.end # "loop"
  <2>1. {target} \in SUBSET Frames
    OBVIOUS
  <2> QED
    BY <1>1, <2>1, ClimbEnds
<1> HIDE DEF up
<1>3. up \in Walks /\ up.at \in Frames /\ up.tf \in Motions
  BY <1>2 DEF ClimbInv, Walks
<1>4. ClimbInv(down, target, {up.at, source}, n, t, top, P) /\ down.end # "loop"
  <2>1. {up.at, source} \in SUBSET Frames
    BY <1>3
  <2> QED
    BY <1>1, <2>1, ClimbEnds
<1>5. r = Joined(source, t, up, down)
  BY DEF WalkAt, FromTop, up
<1> HIDE DEF down, r
<1>6. down \in Walks /\ down.at \in Frames /\ down.tf \in Motions
  BY <1>4 DEF ClimbInv, Walks
<1>7. /\ r.error = "none" <=> down.end = "met" \/ down.at = up.at
      /\ r.error = "none" => r.tf = IF down.at = source THEN Inverted(down.tf)
                                    ELSE Compose(Inverted(down.tf), up.tf)
  BY <1>2, <1>3, <1>4, <1>5, <1>6, ClimbsJoin
<1>8. ASSUME r.error = "none" PROVE down.at \in {up.at, source}
  BY <1>4, <1>7, <1>8 DEF ClimbInv
<1>9. ASSUME r.error = "none" PROVE Connected(par, target, source)
  <2>1. ASSUME NEW S \in SUBSET Frames, Closed(S, par) PROVE target \in S <=> source \in S
    <3>1. (up.at \in S <=> source \in S) /\ (down.at \in S <=> target \in S)
      BY <1>2, <1>4, <2>1 DEF ClimbInv
    <3> QED
      BY <1>8, <1>9, <3>1
  <2> QED
    BY <2>1 DEF Connected
<1>10. ASSUME r.error # "none" PROVE top[target] # top[source]
  <2>1. down.end \in {"root", "gap"} /\ down.at # up.at
    BY <1>4, <1>6, <1>7, <1>10 DEF Walks
  <2>2. par[down.at] = None /\ top[down.at] = top[target]
    BY <1>4, <2>1 DEF ClimbInv
  <2>3. down.at = top[target]
    BY <1>1, <1>6, <2>2 DEF IsTop
  <2>4. CASE up.end = "met"
    <3>1. up.at = target
      BY <1>2, <2>4 DEF ClimbInv
    <3>2. target \in {up.at, source} /\ n # 0
      BY <3>1, RankIsAnOrder
    <3>3. down.end = "met"
      BY <1>4, <3>2 DEF ClimbInv
    <3> QED
      BY <2>1, <3>3
  <2>5. CASE up.end # "met"
    <3>1. up.end \in {"root", "gap"}
      BY <1>2, <1>3, <2>5 DEF Walks
    <3>2. par[up.at] = None /\ top[up.at] = top[source]
      BY <1>2, <3>1 DEF ClimbInv
    <3>3. up.at = top[source]
      BY <1>1, <1>3, <3>2 DEF IsTop
    <3> QED
      BY <2>1, <2>3, <3>3
  <2> QED
    BY <2>4, <2>5
<1>11. r.error = "none" <=> Connected(par, target, source)
  <2>1. IsTree(par)
    BY ParentsAreATree
  <2> HIDE DEF par
  <2> QED
    BY <1>1, <1>9, <1>10, <2>1, TopsSeparate
<1>12. ASSUME r.error = "none" PROVE r.tf = Compose(Inverted(P[target]), P[source])
  <2>1. /\ P[source] = Compose(P[up.at], up.tf) /\ P[target] = Compose(P[down.at], down.tf)
        /\ P[up.at] \in Motions /\ P[down.at] \in Motions /\ P[source] \in Motions
    BY <1>2, <1>3, <1>4, <1>6 DEF ClimbInv, IsPlaced
  <2>2. CASE down.at = source
    <3>1. P[source] = Compose(P[source], Identity) /\ Identity \in Motions
      BY <2>1, MotionsCompose
    <3>2. Compose(Inverted(Compose(P[source], down.tf)), Compose(P[source], Identity))
            = Compose(Inverted(down.tf), Identity)
      BY <1>6, <2>1, <3>1, CommonPartCancels
    <3>3. Inverted(down.tf) \in Motions
      BY <1>6, MotionsCompose
    <3>4. Compose(Inverted(down.tf), Identity) = Inverted(down.tf)
      BY <3>3, MotionsCompose
    <3>5. r.tf = Inverted(down.tf)
      BY <1>7, <1>12, <2>2
    <3>6. P[target] = Compose(P[source], down.tf)
      BY <2>1, <2>2
    <3> QED
      BY ONLY <3>1, <3>2, <3>4, <3>5, <3>6
  <2>3. CASE down.at # source
    <3>1. down.at = up.at
      BY <1>8, <1>12, <2>3
    <3>2. Compose(Inverted(Compose(P[up.at], down.tf)), Compose(P[up.at], up.tf))
            = Compose(Inverted(down.tf), up.tf)
      BY <1>3, <1>6, <2>1, CommonPartCancels
    <3>3. r.tf = Compose(Inverted(down.tf), up.tf)
      BY <1>7, <1>12, <2>3
    <3> QED
      BY ONLY <2>1, <3>1, <3>2, <3>3
  <2> QED
    BY <2>2, <2>3
<1> QED
  BY <1>11, <1>12 DEF r

-----------------------------------------------------------------------------
(***************************************************************************)
(* The chains of newest parents and the latest common time.                *)
(***************************************************************************)

IsLineage(s, f, par) ==
    /\ s \in Seq(Frames) /\ s # <<>> /\ s[1] = f
    /\ \A i \in 1..(Len(s) - 1) : par[s[i]] = s[i + 1]
    /\ par[s[Len(s)]] = None

\* A lineage is found at most once.
LEMMA LineageIsUnique ==
    ASSUME NEW par, NEW f \in Frames, NEW s, IsLineage(s, f, par), NEW u, IsLineage(u, f, par)
    PROVE  s = u
<1> DEFINE m == Len(s)
           n == Len(u)
           S == {k \in 0..m : k <= n /\ \A i \in 1..k : s[i] = u[i]}
<1>1. /\ m \in Nat /\ n \in Nat /\ m # 0 /\ n # 0
      /\ \A i \in 1..m : s[i] \in Frames /\ s[i] # None
      /\ \A i \in 1..n : u[i] \in Frames /\ u[i] # None
      /\ s = [i \in 1..m |-> s[i]] /\ u = [i \in 1..n |-> u[i]]
  BY TfAssumption DEF IsLineage
<1>2. /\ s[1] = f /\ u[1] = f /\ par[s[m]] = None /\ par[u[n]] = None
      /\ \A i \in 1..(m - 1) : par[s[i]] = s[i + 1]
      /\ \A i \in 1..(n - 1) : par[u[i]] = u[i + 1]
  BY DEF IsLineage
<1> HIDE DEF m, n
<1>3. 0 \in S
  BY <1>1
<1>4. ASSUME NEW k \in 0..(m - 1), k \in S PROVE k + 1 \in S
  <2>1. k \in Nat /\ k + 1 \in 0..m /\ k + 1 \in 1..m /\ k <= n /\ \A i \in 1..k : s[i] = u[i]
    <3>1. k <= n /\ \A i \in 1..k : s[i] = u[i]
      BY <1>4
    <3>2. k \in Nat /\ k + 1 \in 0..m /\ k + 1 \in 1..m
      BY ONLY <1>1, k \in 0..(m - 1)
    <3> QED
      BY ONLY <3>1, <3>2
  <2>2. k + 1 <= n /\ s[k + 1] = u[k + 1]
    <3>1. CASE k = 0
      BY <1>1, <1>2, <3>1
    <3>2. CASE k # 0
      <4>0. k \in 1..(m - 1) /\ k \in 1..k
        BY ONLY <1>1, <3>2, k \in 0..(m - 1)
      <4>1. k \in 1..(m - 1) /\ k \in 1..k /\ s[k] = u[k]
        BY ONLY <2>1, <4>0
      <4>2. par[u[k]] = s[k + 1] /\ s[k + 1] # None
        BY <1>1, <1>2, <2>1, <4>1
      <4>3. k # n
        BY <1>2, <4>2
      <4>4. k \in 1..(n - 1) /\ k + 1 <= n
        BY <1>1, <2>1, <4>1, <4>3
      <4> QED
        BY <1>2, <4>2, <4>4
    <3> QED
      BY <3>1, <3>2
  <2>3. \A i \in 1..(k + 1) : i \in 1..k \/ i = k + 1
    BY <2>1
  <2> QED
    BY <2>1, <2>2, <2>3
<1>5. m \in S
  <2>1. \A k \in 0..m : k \in S
    <3> HIDE DEF S
    <3> QED
      BY <1>1, <1>3, <1>4, InductionUpTo
  <2>2. m \in 0..m
    BY <1>1
  <2> HIDE DEF S
  <2> QED
    BY <2>1, <2>2
<1>6. m <= n /\ \A i \in 1..m : s[i] = u[i]
  BY <1>5
<1>7. m = n
  <2>0. m \in 1..m
    BY ONLY <1>1
  <2>1. m \in 1..m /\ par[u[m]] = None
    BY ONLY <1>2, <1>6, <2>0
  <2>2. m \in 1..(n - 1) => par[u[m]] = u[m + 1] /\ m + 1 \in 1..n
    <3>1. m \in 1..(n - 1) => m + 1 \in 1..n
      BY ONLY <1>1
    <3>2. \A i \in 1..(n - 1) : par[u[i]] = u[i + 1]
      BY ONLY <1>2
    <3> QED
      BY ONLY <3>1, <3>2
  <2>3. m \notin 1..(n - 1)
    BY <1>1, <2>1, <2>2
  <2> QED
    BY <1>1, <1>6, <2>3
<1> QED
  BY <1>1, <1>6, <1>7

\* A lineage stays within its part of the forest.
LEMMA LineageIsConnected ==
    ASSUME NEW par, NEW f \in Frames, NEW s, IsLineage(s, f, par), NEW i \in 1..Len(s)
    PROVE  s[i] \in Frames /\ Connected(par, f, s[i])
<1> DEFINE m == Len(s)
<1>1. /\ m \in Nat /\ \A k \in 1..m : s[k] \in Frames /\ s[k] # None
  BY TfAssumption DEF IsLineage
<1>2. s[1] = f /\ \A k \in 1..(m - 1) : par[s[k]] = s[k + 1]
  BY DEF IsLineage
<1> HIDE DEF m
<1>3. i \in 1..m
  BY DEF m
<1>4. ASSUME NEW T \in SUBSET Frames, Closed(T, par) PROVE f \in T <=> s[i] \in T
  <2> DEFINE S == {k \in 0..m : k # 0 => (f \in T <=> s[k] \in T)}
  <2>1. 0 \in S
    BY <1>1
  <2>2. ASSUME NEW k \in 0..(m - 1), k \in S PROVE k + 1 \in S
    <3>1. k \in Nat /\ k + 1 \in 0..m /\ (k # 0 => k \in 1..(m - 1) /\ k \in 1..m)
      BY <1>1
    <3>2. CASE k = 0
      BY <1>2, <3>1, <3>2
    <3>3. CASE k # 0
      <4>1. f \in T <=> s[k] \in T
        BY <2>2, <3>3
      <4>2. par[s[k]] = s[k + 1] /\ s[k] \in Frames /\ s[k + 1] # None
        BY <1>1, <1>2, <3>1, <3>3
      <4>3. s[k] \in T <=> s[k + 1] \in T
        BY <1>4, <4>2 DEF Closed
      <4> QED
        BY <3>1, <4>1, <4>3
    <3> QED
      BY <3>2, <3>3
  <2>3. \A k \in 0..m : k \in S
    <3> HIDE DEF S
    <3> QED
      BY <1>1, <2>1, <2>2, InductionUpTo
  <2>4. i \in 0..m /\ i # 0
    BY <1>1, <1>3
  <2> QED
    BY <2>3, <2>4
<1> QED
  BY <1>1, <1>3, <1>4 DEF Connected

\* Two lineages meet exactly within one part of the forest.
LEMMA LineagesMeet ==
    ASSUME NEW par, IsTree(par), NEW a \in Frames, NEW b \in Frames,
           NEW s, IsLineage(s, a, par), NEW u, IsLineage(u, b, par)
    PROVE  (\E i \in 1..Len(s) : \E j \in 1..Len(u) : u[j] = s[i]) <=> Connected(par, a, b)
<1>1. PICK top : IsTop(top, par)
  BY TopExists
<1>2. ASSUME NEW i \in 1..Len(s), NEW j \in 1..Len(u), u[j] = s[i]
      PROVE  Connected(par, a, b)
  <2>1. Connected(par, a, s[i]) /\ Connected(par, b, u[j])
    BY LineageIsConnected
  <2> QED
    BY <1>2, <2>1 DEF Connected
<1>3. ASSUME Connected(par, a, b)
      PROVE  \E i \in 1..Len(s) : \E j \in 1..Len(u) : u[j] = s[i]
  <2> DEFINE i == Len(s)
             j == Len(u)
  <2>1. i \in 1..Len(s) /\ j \in 1..Len(u)
    BY DEF IsLineage
  <2>2. s[i] \in Frames /\ u[j] \in Frames /\ Connected(par, a, s[i]) /\ Connected(par, b, u[j])
    BY <2>1, LineageIsConnected
  <2>3. par[s[i]] = None /\ par[u[j]] = None
    BY DEF IsLineage
  <2> HIDE DEF i, j
  <2>4. top[a] = top[s[i]] /\ top[b] = top[u[j]] /\ top[a] = top[b]
    BY <1>1, <1>3, <2>2, TopsSeparate
  <2>5. s[i] = top[s[i]] /\ u[j] = top[u[j]]
    BY <1>1, <2>2, <2>3 DEF IsTop
  <2> QED
    BY <2>1, <2>4, <2>5
<1> QED
  BY <1>2, <1>3

\* The newest parents are those found for time zero.
LEMMA NewestParents ==
    ASSUME CacheInv, NEW f \in Frames
    PROVE  ParentsOf(caches, Zero)[f] = LatestParent(f)
<1> DEFINE c == caches[f]
<1>1. CASE c.kind = "none"
  BY <1>1 DEF ParentsOf, LatestParent
<1>2. CASE c.kind # "none"
  <2>1. /\ c.kind \in {"static", "timed"} /\ c.list \in Seq(Entries)
        /\ c.kind = "static" => Len(c.list) = 1
    BY <1>2, PartsOfCache
  <2>2. ParentsOf(caches, Zero)[f] = GetParent(c, Zero)
    BY <1>2 DEF ParentsOf
  <2>3. LatestParent(f) = IF c.list = <<>> THEN None ELSE c.list[1].parent
    BY <1>2 DEF LatestParent
  <2>4. FindClosest(c.list, Zero) = IF c.list = <<>> THEN <<>> ELSE <<c.list[1]>>
    BY DEF FindClosest
  <2> HIDE DEF c
  <2>5. CASE c.kind = "static"
    <3>1. c.list # <<>>
      BY <2>1, <2>5
    <3> QED
      BY <2>2, <2>3, <2>5, <3>1 DEF GetParent
  <2>6. CASE c.kind = "timed"
    BY <2>2, <2>3, <2>4, <2>6 DEF GetParent
  <2> QED
    BY <2>1, <2>5, <2>6
<1> QED
  BY <1>1, <1>2

\* What getLatestCommonTime has after climbing k frames.
LineageInv(s, f, k) ==
    /\ s \in Seq(Frames) /\ s # <<>> /\ s[1] = f
    /\ \A i \in 1..(Len(s) - 1) : ParentsOf(caches, Zero)[s[i]] = s[i + 1]
    /\ Len(s) <= k + 1
    /\ Len(s) <= k => ParentsOf(caches, Zero)[s[Len(s)]] = None
    /\ Len(s) <= Rank[s[Len(s)]]

\* The chain grows by one frame.
LEMMA LineageGrows ==
    ASSUME CacheInv, NEW f \in Frames, NEW k \in Nat, k # 0, NEW s, LineageInv(s, f, k - 1),
           NEW p, p = ParentsOf(caches, Zero)[s[Len(s)]]
    PROVE  LineageInv(IF Len(s) < k \/ p = None THEN s ELSE Append(s, p), f, k)
<1> DEFINE par == ParentsOf(caches, Zero)
           n == Len(s)
           u == Append(s, p)
<1>1. /\ s \in Seq(Frames) /\ s # <<>> /\ s[1] = f /\ n \in Nat /\ n # 0 /\ n \in 1..n
      /\ \A i \in 1..(n - 1) : par[s[i]] = s[i + 1]
      /\ n <= (k - 1) + 1 /\ (n <= k - 1 => par[s[n]] = None) /\ n <= Rank[s[n]]
      /\ s[n] \in Frames
  BY DEF LineageInv
<1>2. n <= k /\ n <= k + 1 /\ (n < k <=> n <= k - 1) /\ k + 1 \in Nat
  BY <1>1
<1>3. IsTree(par)
  BY ParentsAreATree DEF Zero
<1>4. CASE n < k \/ p = None
  <2>1. par[s[n]] = None
    BY <1>1, <1>2, <1>4
  <2> QED
    BY <1>1, <1>2, <1>4, <2>1 DEF LineageInv
<1>5. CASE ~(n < k \/ p = None)
  <2>1. n = k /\ p # None
    BY <1>1, <1>2, <1>5
  <2>2. p \in Frames /\ Rank[s[n]] < Rank[p]
    BY <1>1, <1>3, <2>1 DEF IsTree
  <2>3. u \in Seq(Frames) /\ u # <<>> /\ Len(u) = n + 1 /\ u[n + 1] = p
        /\ \A i \in 1..n : u[i] = s[i]
    BY <1>1, <2>2
  <2>4. u[1] = f
    BY <1>1, <2>3
  <2>5. ASSUME NEW i \in 1..(Len(u) - 1) PROVE par[u[i]] = u[i + 1]
    <3>1. i \in 1..n /\ (i # n => i \in 1..(n - 1) /\ i + 1 \in 1..n)
      BY <1>1, <2>3
    <3>2. CASE i = n
      BY <2>3, <3>1, <3>2
    <3>3. CASE i # n
      BY <1>1, <2>3, <3>1, <3>3
    <3> QED
      BY <3>2, <3>3
  <2>6. Rank[s[n]] \in Int /\ Rank[p] \in Int
    BY <1>1, <2>2, RankIsAnOrder
  <2>7. n + 1 <= Rank[p]
    BY <1>1, <2>2, <2>6
  <2>8. Len(u) <= k + 1 /\ ~(Len(u) <= k)
    BY <1>1, <2>1, <2>3
  <2> HIDE DEF u
  <2>9. LineageInv(u, f, k)
    BY <2>3, <2>4, <2>5, <2>7, <2>8 DEF LineageInv
  <2> QED
    BY <1>5, <2>9 DEF u
<1> QED
  BY <1>4, <1>5

\* The chain of newest parents goes up to a frame without one.
LEMMA LineageIs ==
    ASSUME CacheInv, NEW f \in Frames
    PROVE  IsLineage(Lineage(f), f, ParentsOf(caches, Zero))
<1> DEFINE n == MaxDepth
           V == Seq(Frames) \ {<<>>}
           next(k, s) == LET p == LatestParent(s[Len(s)])
                         IN  IF Len(s) < k \/ p = None THEN s ELSE Append(s, p)
           G == [k \in 1..n |-> [s \in V |-> next(k, s)]]
           Rule(up) == up = [k \in 0..n |-> IF k = 0 THEN <<f>> ELSE next(k, up[k - 1])]
           up0 == CHOOSE up : Rule(up)
           par == ParentsOf(caches, Zero)
<1>1. n \in Nat
  BY RankIsAnOrder
<1>2. \A s \in V : Len(s) \in 1..Len(s) /\ s[Len(s)] \in Frames
  OBVIOUS
<1>3. ASSUME NEW k, NEW s \in V PROVE next(k, s) \in V
  <2> DEFINE p == LatestParent(s[Len(s)])
  <2>1. p = par[s[Len(s)]] /\ p \in Frames \cup {None}
    <3>1. IsTree(par)
      BY ParentsAreATree DEF Zero
    <3>2. par[s[Len(s)]] \in Frames \cup {None}
      BY <1>2, <3>1 DEF IsTree
    <3> QED
      BY <1>2, <3>2, NewestParents
  <2> HIDE DEF p
  <2>2. p # None => Append(s, p) \in V
    BY <2>1
  <2> QED
    BY <2>2 DEF p
<1>4. G \in FoldStepsOn(n, V)
  <2> HIDE DEF next, V
  <2> QED
    BY <1>3 DEF FoldStepsOn
<1>5. \E up : Rule(up)
  <2>1. <<f>> \in V
    OBVIOUS
  <2>2. PICK g \in [0..n -> V] : FoldsAlong(g, n, <<f>>, G)
    <3> HIDE DEF n, G, V
    <3> QED
      BY <1>1, <1>4, <2>1, FoldExists
  <2> HIDE DEF next, V
  <2>3. \A k \in 1..n : k - 1 \in 0..n /\ g[k - 1] \in V /\ k # 0
    BY <1>1
  <2>4. \A k \in 1..n : g[k] = next(k, g[k - 1])
    BY <2>2, <2>3 DEF FoldsAlong
  <2>5. \A k \in 0..n : g[k] = IF k = 0 THEN <<f>> ELSE next(k, g[k - 1])
    <3>1. \A k \in 0..n : k = 0 \/ k \in 1..n
      BY <1>1
    <3> QED
      BY <2>2, <2>4, <3>1 DEF FoldsAlong
  <2>6. Rule(g)
    BY <2>5
  <2> HIDE DEF Rule
  <2> QED
    BY <2>6
<1>6. Rule(up0)
  <2> HIDE DEF Rule
  <2> QED
    BY <1>5
<1>7. Lineage(f) = up0[n]
  BY DEF Lineage
<1> HIDE DEF up0
<1>8. up0[0] = <<f>> /\ \A k \in 1..n : up0[k] = next(k, up0[k - 1])
  <2> HIDE DEF next
  <2> QED
    BY <1>1, <1>6
<1> HIDE DEF Rule
<1> DEFINE S == {k \in 0..n : LineageInv(up0[k], f, k)}
<1>9. 0 \in S
  <2> DEFINE s == <<f>>
  <2>1. s \in Seq(Frames) /\ s # <<>> /\ s[1] = f /\ Len(s) = 1
    OBVIOUS
  <2>2. 1 <= Rank[f] /\ ~(1 <= 0) /\ 1 <= 0 + 1
    BY RankIsAnOrder
  <2> HIDE DEF s
  <2>3. LineageInv(s, f, 0)
    BY <2>1, <2>2 DEF LineageInv
  <2> QED
    BY <1>1, <1>8, <2>3 DEF s
<1>10. ASSUME NEW k \in 0..(n - 1), k \in S PROVE k + 1 \in S
  <2> DEFINE s == up0[k]
             p == par[s[Len(s)]]
  <2>1. k \in Nat /\ k + 1 \in 1..n /\ k + 1 \in 0..n /\ (k + 1) - 1 = k /\ k + 1 # 0 /\ k + 1 \in Nat
    BY <1>1
  <2>2. LineageInv(s, f, k) /\ s \in V
    BY <1>10 DEF LineageInv
  <2>3. p = LatestParent(s[Len(s)])
    BY <1>2, <2>2, NewestParents
  <2>4. up0[k + 1] = next(k + 1, s)
    <3> HIDE DEF next
    <3> QED
      BY <1>8, <2>1
  <2> HIDE DEF s, p
  <2>5. up0[k + 1] = IF Len(s) < k + 1 \/ p = None THEN s ELSE Append(s, p)
    BY <2>3, <2>4
  <2>6. LineageInv(up0[k + 1], f, k + 1)
    BY <2>1, <2>2, <2>5, LineageGrows DEF p
  <2> QED
    BY <2>1, <2>6
<1>11. n \in S
  <2> HIDE DEF S, n
  <2> QED
    BY <1>1, <1>9, <1>10, InductionUpTo
<1> DEFINE s == Lineage(f)
<1>12. LineageInv(s, f, n)
  BY <1>7, <1>11
<1> HIDE DEF s
<1>13. Len(s) <= n
  <2>1. Len(s) \in Nat /\ s[Len(s)] \in Frames /\ Len(s) <= Rank[s[Len(s)]]
    BY <1>12 DEF LineageInv
  <2>2. Rank[s[Len(s)]] \in 1..n
    BY <2>1, RankIsAnOrder
  <2> QED
    BY <1>1, <2>1, <2>2
<1> QED
  BY <1>12, <1>13 DEF LineageInv, IsLineage, s

\* The newest stamp of every frame.
StampsOf(cs) == [f \in Frames |-> LatestTimestamp(cs[f])]

\* OldestUpToMeeting as a function of the stamps.
Meets(lt, ls) ==
    {i \in 1..Len(lt) : /\ \E j \in 1..Len(ls) : ls[j] = lt[i]
                        /\ \A h \in 1..(i - 1) : ~\E j \in 1..Len(ls) : ls[j] = lt[h]}

PathTo(i, lt, ls) ==
    LET j == CHOOSE y \in 1..Len(ls) : ls[y] = lt[i]
    IN  {lt[x] : x \in 1..(i - 1)} \cup {ls[y] : y \in 1..(j - 1)}

OldestOf(st, lt, ls) ==
    LET meet == Meets(lt, ls)
        i == CHOOSE x \in meet : TRUE
        stamps == {st[f] : f \in PathTo(i, lt, ls)} \ {Zero}
    IN  IF meet = {} THEN [ok |-> FALSE, time |-> Zero]
        ELSE [ok |-> TRUE, time |-> IF stamps = {} THEN Zero
                                    ELSE CHOOSE x \in stamps : \A y \in stamps : x <= y]

\* The frames up to a meeting are frames.
LEMMA PathIsOfFrames ==
    ASSUME NEW lt \in Seq(Frames), NEW ls \in Seq(Frames), NEW i \in Meets(lt, ls)
    PROVE  PathTo(i, lt, ls) \in SUBSET Frames
<1> DEFINE j == CHOOSE y \in 1..Len(ls) : ls[y] = lt[i]
<1>1. i \in 1..Len(lt) /\ \E y \in 1..Len(ls) : ls[y] = lt[i]
  BY DEF Meets
<1>2. j \in 1..Len(ls)
  BY <1>1
<1>3. PathTo(i, lt, ls) = {lt[x] : x \in 1..(i - 1)} \cup {ls[y] : y \in 1..(j - 1)}
  BY DEF PathTo
<1> HIDE DEF j
<1>4. (\A x \in 1..(i - 1) : lt[x] \in Frames) /\ \A y \in 1..(j - 1) : ls[y] \in Frames
  <2>1. /\ \A x \in 1..(i - 1) : x \in 1..Len(lt)
        /\ \A y \in 1..(j - 1) : y \in 1..Len(ls)
    BY <1>1, <1>2
  <2> QED
    BY <2>1
<1> QED
  BY <1>3, <1>4

\* The latest common time depends on the chains and on the newest stamps only.
LEMMA OldestFollowsStamps ==
    ASSUME NEW lt \in Seq(Frames), NEW ls \in Seq(Frames)
    PROVE  OldestUpToMeeting(lt, ls) = OldestOf(StampsOf(caches), lt, ls)
<1> DEFINE st == StampsOf(caches)
           i == CHOOSE x \in Meets(lt, ls) : TRUE
           direct == {LatestTimestamp(caches[f]) : f \in PathTo(i, lt, ls)} \ {Zero}
           stamps == {st[f] : f \in PathTo(i, lt, ls)} \ {Zero}
           Answer(set) == [ok |-> TRUE, time |-> IF set = {} THEN Zero
                                        ELSE CHOOSE x \in set : \A y \in set : x <= y]
<1>1. OldestUpToMeeting(lt, ls) = IF Meets(lt, ls) = {} THEN [ok |-> FALSE, time |-> Zero]
                                  ELSE Answer(direct)
  BY DEF OldestUpToMeeting, Meets, PathTo
<1>2. OldestOf(st, lt, ls) = IF Meets(lt, ls) = {} THEN [ok |-> FALSE, time |-> Zero]
                             ELSE Answer(stamps)
  BY DEF OldestOf
<1>3. Meets(lt, ls) # {} => direct = stamps
  <2> SUFFICES ASSUME Meets(lt, ls) # {} PROVE direct = stamps
    OBVIOUS
  <2>1. i \in Meets(lt, ls)
    OBVIOUS
  <2>2. PathTo(i, lt, ls) \in SUBSET Frames
    <3> HIDE DEF i
    <3> QED
      BY <2>1, PathIsOfFrames
  <2>3. \A f \in Frames : st[f] = LatestTimestamp(caches[f])
    BY DEF StampsOf
  <2> HIDE DEF i, st
  <2> QED
    BY <2>2, <2>3
<1> HIDE DEF st, direct, stamps, Answer
<1> QED
  BY <1>1, <1>2, <1>3 DEF st

\* Chains that meet have a latest common time.
LEMMA MeetingHasATime ==
    ASSUME NEW lt \in Seq(Frames), NEW ls \in Seq(Frames), NEW st \in [Frames -> Nat]
    PROVE  /\ OldestOf(st, lt, ls).ok
                <=> \E i \in 1..Len(lt) : \E j \in 1..Len(ls) : ls[j] = lt[i]
           /\ OldestOf(st, lt, ls).time \in Nat
           /\ ~OldestOf(st, lt, ls).ok => OldestOf(st, lt, ls).time = Zero
           /\ (\A f \in Frames : st[f] = Zero) => OldestOf(st, lt, ls).time = Zero
<1> DEFINE meet == Meets(lt, ls)
           i == CHOOSE x \in meet : TRUE
           stamps == {st[f] : f \in PathTo(i, lt, ls)} \ {Zero}
           time == IF stamps = {} THEN Zero ELSE CHOOSE x \in stamps : \A y \in stamps : x <= y
           T == {h \in 1..Len(lt) : \E j \in 1..Len(ls) : ls[j] = lt[h]}
<1>1. OldestOf(st, lt, ls) = IF meet = {} THEN [ok |-> FALSE, time |-> Zero]
                             ELSE [ok |-> TRUE, time |-> time]
  BY DEF OldestOf
<1>2. meet \subseteq T
  BY DEF Meets
<1>3. T # {} => meet # {}
  <2> SUFFICES ASSUME T # {} PROVE meet # {}
    OBVIOUS
  <2>1. T \in SUBSET Nat
    OBVIOUS
  <2>2. \E x \in T : \A y \in T : x <= y
    <3> HIDE DEF T
    <3> QED
      BY <2>1, LeastNatural
  <2>3. PICK x \in T : \A y \in T : x <= y
    BY <2>2
  <2>4. \A h \in 1..(x - 1) : h \notin T
    <3>1. \A h \in 1..(x - 1) : ~(x <= h)
      BY <2>1, <2>3
    <3> QED
      BY <2>3, <3>1
  <2>5. \A h \in 1..(x - 1) : h \in 1..Len(lt)
    BY <2>3
  <2>6. x \in meet
    BY <2>3, <2>4, <2>5 DEF Meets
  <2> QED
    BY <2>6
<1>4. meet # {} => PathTo(i, lt, ls) \in SUBSET Frames
  <2> SUFFICES ASSUME meet # {} PROVE PathTo(i, lt, ls) \in SUBSET Frames
    OBVIOUS
  <2>1. i \in Meets(lt, ls)
    OBVIOUS
  <2> HIDE DEF i
  <2> QED
    BY <2>1, PathIsOfFrames
<1> HIDE DEF meet, i
<1>5. meet # {} => stamps \in SUBSET Nat
  BY <1>4
<1>6. meet # {} => time \in Nat
  <2> SUFFICES ASSUME meet # {} PROVE time \in Nat
    OBVIOUS
  <2> HIDE DEF stamps
  <2>1. CASE stamps = {}
    BY <2>1 DEF Zero
  <2>2. CASE stamps # {}
    <3>1. \E x \in stamps : \A y \in stamps : x <= y
      BY <1>5, <2>2, LeastNatural
    <3> QED
      BY <1>5, <2>2, <3>1
  <2> QED
    BY <2>1, <2>2
<1>7. meet # {} /\ (\A f \in Frames : st[f] = Zero) => time = Zero
  <2> SUFFICES ASSUME meet # {}, \A f \in Frames : st[f] = Zero PROVE time = Zero
    OBVIOUS
  <2>1. stamps = {}
    BY <1>4
  <2> QED
    BY <2>1
<1> HIDE DEF time
<1>8. OldestOf(st, lt, ls).ok <=> meet # {}
  BY <1>1
<1>9. OldestOf(st, lt, ls).time = IF meet = {} THEN Zero ELSE time
  BY <1>1
<1>10. Zero \in Nat
  BY DEF Zero
<1>11. meet # {} <=> T # {}
  <2> HIDE DEF T
  <2> QED
    BY <1>2, <1>3
<1>12. T # {} <=> \E h \in 1..Len(lt) : \E j \in 1..Len(ls) : ls[j] = lt[h]
  OBVIOUS
<1> HIDE DEF T
<1> QED
  BY <1>6, <1>7, <1>8, <1>9, <1>10, <1>11, <1>12

\* The stamps are numbers.
LEMMA StampsAreNatural ==
    ASSUME CacheInv
    PROVE  StampsOf(caches) \in [Frames -> Nat]
<1>1. ASSUME NEW f \in Frames PROVE LatestTimestamp(caches[f]) \in Nat
  <2>1. CASE caches[f].kind = "timed" /\ caches[f].list # <<>>
    <3>1. caches[f].list \in Seq(Entries)
      BY <2>1, PartsOfCache
    <3>2. 1 \in 1..Len(caches[f].list)
      BY <2>1, <3>1
    <3>3. caches[f].list[1].stamp \in Nat
      BY <3>1, <3>2, StampsOfList
    <3> QED
      BY <2>1, <3>3 DEF LatestTimestamp
  <2>2. CASE ~(caches[f].kind = "timed" /\ caches[f].list # <<>>)
    BY <2>2 DEF LatestTimestamp, Zero
  <2> QED
    BY <2>1, <2>2
<1> QED
  BY <1>1 DEF StampsOf

\* The latest common time of two frames.
LEMMA CommonTimeIs ==
    ASSUME CacheInv, NEW a \in Frames, NEW b \in Frames, a # b
    PROVE  /\ GetLatestCommonTime(a, b).ok <=> Connected(ParentsOf(caches, Zero), a, b)
           /\ GetLatestCommonTime(a, b).time \in Nat
           /\ ~GetLatestCommonTime(a, b).ok => GetLatestCommonTime(a, b).time = Zero
           /\ (\A f \in Frames : StampsOf(caches)[f] = Zero) => GetLatestCommonTime(a, b).time = Zero
           /\ \A lt, ls : IsLineage(lt, a, ParentsOf(caches, Zero))
                          /\ IsLineage(ls, b, ParentsOf(caches, Zero))
                => GetLatestCommonTime(a, b) = OldestOf(StampsOf(caches), lt, ls)
<1> DEFINE lt0 == Lineage(a)
           ls0 == Lineage(b)
           r == GetLatestCommonTime(a, b)
           par == ParentsOf(caches, Zero)
           st == StampsOf(caches)
<1>1. IsLineage(lt0, a, par) /\ IsLineage(ls0, b, par)
  BY LineageIs
<1>2. lt0 \in Seq(Frames) /\ ls0 \in Seq(Frames)
  BY <1>1 DEF IsLineage
<1>3. r = OldestUpToMeeting(lt0, ls0)
  BY DEF GetLatestCommonTime
<1> HIDE DEF lt0, ls0, r
<1>4. r = OldestOf(st, lt0, ls0)
  BY <1>2, <1>3, OldestFollowsStamps
<1>5. st \in [Frames -> Nat]
  BY StampsAreNatural
<1>6. IsTree(par)
  BY ParentsAreATree DEF Zero
<1> HIDE DEF st, par
<1>7. (\E i \in 1..Len(lt0) : \E j \in 1..Len(ls0) : ls0[j] = lt0[i]) <=> Connected(par, a, b)
  BY <1>1, <1>6, LineagesMeet
<1>8. /\ r.ok <=> Connected(par, a, b)
      /\ r.time \in Nat
      /\ ~r.ok => r.time = Zero
      /\ (\A f \in Frames : st[f] = Zero) => r.time = Zero
  BY <1>2, <1>4, <1>5, <1>7, MeetingHasATime
<1>9. ASSUME NEW lt, NEW ls, IsLineage(lt, a, par), IsLineage(ls, b, par)
      PROVE  r = OldestOf(st, lt, ls)
  <2>1. lt = lt0 /\ ls = ls0
    BY <1>1, <1>9, LineageIsUnique
  <2> QED
    BY <1>4, <2>1
<1> QED
  BY <1>8, <1>9 DEF r, st, par

-----------------------------------------------------------------------------
(***************************************************************************)
(* What canTransform and lookupTransform say of the forest.                *)
(***************************************************************************)

\* Frames that are connected have a number: a frame without one is nobody's parent.
LEMMA ConnectedAreKnown ==
    ASSUME CacheInv, NEW t \in Nat, NEW a \in Frames, NEW b \in Frames, a # b,
           Connected(ParentsOf(caches, t), a, b)
    PROVE  {a, b} \subseteq known
<1> DEFINE par == ParentsOf(caches, t)
<1>1. ASSUME NEW x \in Frames, x \notin known PROVE Closed({x}, par)
  <2> SUFFICES ASSUME NEW f \in Frames, par[f] # None PROVE f # x /\ par[f] # x
    BY DEF Closed
  <2>1. caches[f].kind # "none" /\ par[f] = GetParent(caches[f], t)
    BY DEF ParentsOf
  <2>2. f \in known
    BY <2>1, PartsOfCache
  <2>3. GetParent(caches[f], t) \in known
    BY <2>1, GatherGivesTheStep
  <2> QED
    BY <1>1, <2>1, <2>2, <2>3
<1> HIDE DEF par
<1>2. Connected(par, a, b)
  BY DEF par
<1>3. a \in known
  <2> SUFFICES ASSUME a \notin known PROVE FALSE
    OBVIOUS
  <2>1. Closed({a}, par)
    BY <1>1
  <2>2. a \in {a} <=> b \in {a}
    BY <1>2, <2>1 DEF Connected
  <2> QED
    BY <2>2
<1>4. b \in known
  <2> SUFFICES ASSUME b \notin known PROVE FALSE
    OBVIOUS
  <2>1. Closed({b}, par)
    BY <1>1
  <2>2. a \in {b} <=> b \in {b}
    BY <1>2, <2>1 DEF Connected
  <2> QED
    BY <2>2
<1> QED
  BY <1>3, <1>4

\* With fewer parents, less is connected.
LEMMA FewerEdges ==
    ASSUME NEW par, NEW fewer, NEW a, NEW b, Connected(fewer, a, b),
           \A f \in Frames : fewer[f] # None => fewer[f] = par[f]
    PROVE  Connected(par, a, b)
BY DEF Connected, Closed

\* A walk of canTransform or lookupTransform, for the time it settles on.
WalkEnds(a, b, t) ==
    IF t # Zero THEN Connected(ParentsOf(caches, t), a, b)
    ELSE /\ Connected(ParentsOf(caches, Zero), a, b)
         /\ Connected(ParentsOf(caches, GetLatestCommonTime(a, b).time), a, b)

\* The walk succeeds within one part of the forest.
LEMMA WalkEndsWithin ==
    ASSUME CacheInv, NEW a \in Frames, NEW b \in Frames, a # b, NEW t \in Nat,
           NEW data \in BOOLEAN
    PROVE  WalkToTopParent(a, b, t, data).error = "none" <=> WalkEnds(a, b, t)
<1> DEFINE common == GetLatestCommonTime(a, b)
<1>1. ASSUME NEW u \in Nat
      PROVE  WalkAt(a, b, u, data).error = "none" <=> Connected(ParentsOf(caches, u), a, b)
  <2>1. PICK P \in [Frames -> Motions] : IsPlaced(P, u, data)
    BY PlacesExist DEF IsPlaced
  <2> QED
    BY <2>1, WalkIsTheWay
<1>2. common.time \in Nat /\ (common.ok <=> Connected(ParentsOf(caches, Zero), a, b))
  BY CommonTimeIs
<1>3. CASE t # Zero
  <2>1. WalkToTopParent(a, b, t, data) = WalkAt(a, b, t, data)
    BY <1>3 DEF WalkToTopParent
  <2> QED
    BY <1>1, <1>3, <2>1 DEF WalkEnds
<1>4. CASE t = Zero /\ common.ok
  <2>1. WalkToTopParent(a, b, t, data) = WalkAt(a, b, common.time, data)
    BY <1>4 DEF WalkToTopParent
  <2> HIDE DEF common
  <2>2. WalkAt(a, b, common.time, data).error = "none"
          <=> Connected(ParentsOf(caches, common.time), a, b)
    BY <1>1, <1>2
  <2> QED
    BY <1>2, <1>4, <2>1, <2>2 DEF WalkEnds, common
<1>5. CASE t = Zero /\ ~common.ok
  <2>1. WalkToTopParent(a, b, t, data) = Failure("connectivity")
    BY <1>5 DEF WalkToTopParent
  <2> QED
    BY <1>2, <1>5, <2>1 DEF WalkEnds, Failure
<1> QED
  BY <1>3, <1>4, <1>5

\* What canTransform says.
LEMMA CanTransformIs ==
    ASSUME CacheInv, NEW a \in Frames, NEW b \in Frames, a # b, NEW t \in Nat
    PROVE  CanTransformInternal(a, b, t) <=> WalkEnds(a, b, t)
<1>1. WalkToTopParent(a, b, t, FALSE).error = "none" <=> WalkEnds(a, b, t)
  BY WalkEndsWithin
<1>2. WalkEnds(a, b, t) => {a, b} \subseteq known
  BY ConnectedAreKnown DEF WalkEnds, Zero
<1> QED
  BY <1>1, <1>2 DEF CanTransformInternal

\* When a request is given up.
LEMMA TooOldIs ==
    ASSUME CacheInv, NEW r \in Waits
    PROVE  TooOld(r, r.time) <=>
             /\ GetLatestCommonTime(r.target, r.source).time # Zero
             /\ r.time + CacheTime < GetLatestCommonTime(r.target, r.source).time
<1> DEFINE latest == GetLatestCommonTime(r.target, r.source)
<1>1. r.target \in Frames /\ r.source \in Frames /\ r.target # r.source
  BY TfAssumption DEF Waits
<1>2. (latest.ok <=> Connected(ParentsOf(caches, Zero), r.target, r.source))
      /\ (~latest.ok => latest.time = Zero)
  BY <1>1, CommonTimeIs
<1>3. Connected(ParentsOf(caches, Zero), r.target, r.source) => {r.target, r.source} \subseteq known
  BY <1>1, ConnectedAreKnown DEF Zero
<1> QED
  BY <1>2, <1>3 DEF TooOld

\* What lookupTransform gives: the way between the places of the two frames.
LEMMA LookupIs ==
    ASSUME CacheInv, NEW a \in Frames, NEW b \in Frames, NEW t \in Nat, t # Zero,
           NEW P \in [Frames -> Motions], IsPlaced(P, t, TRUE)
    PROVE  /\ LookupTransform(a, b, t).error = "none" <=> Connected(ParentsOf(caches, t), a, b)
           /\ LookupTransform(a, b, t).error = "none" =>
                LookupTransform(a, b, t).tf = Compose(Inverted(P[a]), P[b])
<1>1. P[a] \in Motions /\ P[b] \in Motions
  BY DEF IsPlaced
<1>2. CASE a = b
  <2>1. LookupTransform(a, b, t) = [error |-> "none", tf |-> Identity, time |-> t]
    BY <1>2 DEF LookupTransform, WalkToTopParent
  <2>2. Compose(Inverted(P[a]), P[b]) = Identity
    BY <1>1, <1>2, MotionsCompose
  <2>3. Connected(ParentsOf(caches, t), a, b)
    BY <1>2 DEF Connected
  <2> QED
    BY <2>1, <2>2, <2>3
<1>3. CASE a # b /\ {a, b} \subseteq known
  <2>1. LookupTransform(a, b, t) = WalkAt(a, b, t, TRUE)
    BY <1>3 DEF LookupTransform, WalkToTopParent
  <2>2. /\ WalkAt(a, b, t, TRUE).error = "none" <=> Connected(ParentsOf(caches, t), a, b)
        /\ WalkAt(a, b, t, TRUE).error = "none" =>
             WalkAt(a, b, t, TRUE).tf = Compose(Inverted(P[a]), P[b])
    <3>1. TRUE \in BOOLEAN /\ IsPlaced(P, t, TRUE) /\ t \in Nat
      OBVIOUS
    <3> QED
      BY ONLY CacheInv, a \in Frames, b \in Frames, <3>1, WalkIsTheWay
  <2> QED
    BY <2>1, <2>2
<1>4. CASE a # b /\ ~({a, b} \subseteq known)
  <2>1. LookupTransform(a, b, t) = Failure("lookup")
    BY <1>4 DEF LookupTransform
  <2>2. ~Connected(ParentsOf(caches, t), a, b)
    BY <1>4, ConnectedAreKnown
  <2> QED
    BY <2>1, <2>2 DEF Failure
<1> QED
  BY <1>2, <1>3, <1>4

\* A lookup among frames with numbers succeeds when canTransform says so.
LEMMA LookupsAreAnnounced ==
    ASSUME CacheInv, NEW a \in known, NEW b \in known, NEW t \in Nat
    PROVE  (LookupTransform(a, b, t).error = "none") = CanTransformInternal(a, b, t)
<1>1. a \in Frames /\ b \in Frames
  BY DEF CacheInv
<1>2. LookupTransform(a, b, t) = WalkToTopParent(a, b, t, TRUE)
  BY DEF LookupTransform
<1>3. CanTransformInternal(a, b, t) <=> WalkToTopParent(a, b, t, FALSE).error = "none"
  BY DEF CanTransformInternal
<1>4. CASE a = b
  <2>1. WalkToTopParent(a, b, t, TRUE) = [error |-> "none", tf |-> Identity, time |-> t]
        /\ WalkToTopParent(a, b, t, FALSE) = [error |-> "none", tf |-> Identity, time |-> t]
    BY <1>4 DEF WalkToTopParent
  <2>2. CanTransformInternal(a, b, t) \in BOOLEAN
    BY DEF CanTransformInternal
  <2> QED
    BY <1>2, <1>3, <2>1, <2>2
<1>5. CASE a # b
  <2>1. WalkToTopParent(a, b, t, TRUE).error = "none" <=> WalkToTopParent(a, b, t, FALSE).error = "none"
    BY <1>1, <1>5, WalkEndsWithin
  <2>2. CanTransformInternal(a, b, t) \in BOOLEAN
    BY DEF CanTransformInternal
  <2> QED
    BY <1>2, <1>3, <2>1, <2>2
<1> QED
  BY <1>4, <1>5

\* Lookups agree with each other and with canTransform.
LEMMA LookupsAgree ==
    CacheInv => LookupsCompose
<1> SUFFICES ASSUME CacheInv, Unasked,
                    NEW found \in {[q \in Frames \X Frames \X Times |->
                                      LookupTransform(q[1], q[2], q[3])]}
             PROVE  LET Ok(a, b, t) == found[<<a, b, t>>].error = "none"
                    IN  /\ \A a, b \in known, t \in Times : Ok(a, b, t) = CanTransformInternal(a, b, t)
                        /\ \A a, b, c \in Frames, t \in Times \ {Zero} :
                             (Ok(a, b, t) /\ Ok(b, c, t)) =>
                               /\ Ok(a, c, t)
                               /\ found[<<a, c, t>>].tf
                                    = Compose(found[<<a, b, t>>].tf, found[<<b, c, t>>].tf)
  BY DEF LookupsCompose
<1>1. ASSUME NEW a \in Frames, NEW b \in Frames, NEW t \in Times
      PROVE  found[<<a, b, t>>] = LookupTransform(a, b, t)
  OBVIOUS
<1> HIDE DEF Unasked
<1>2. ASSUME NEW a \in known, NEW b \in known, NEW t \in Times
      PROVE  (found[<<a, b, t>>].error = "none") = CanTransformInternal(a, b, t)
  <2>1. a \in Frames /\ b \in Frames /\ t \in Nat
    BY TfAssumption DEF CacheInv
  <2>2. found[<<a, b, t>>] = LookupTransform(a, b, t)
    BY <1>1, <2>1
  <2> QED
    BY <2>1, <2>2, LookupsAreAnnounced
<1>3. ASSUME NEW a \in Frames, NEW b \in Frames, NEW c \in Frames, NEW t \in Times \ {Zero},
             found[<<a, b, t>>].error = "none", found[<<b, c, t>>].error = "none"
      PROVE  /\ found[<<a, c, t>>].error = "none"
             /\ found[<<a, c, t>>].tf = Compose(found[<<a, b, t>>].tf, found[<<b, c, t>>].tf)
  <2>1. t \in Nat /\ t # Zero
    BY TfAssumption
  <2>2. PICK P \in [Frames -> Motions] : IsPlaced(P, t, TRUE)
    BY <2>1, PlacesExist DEF IsPlaced
  <2>3. P[a] \in Motions /\ P[b] \in Motions /\ P[c] \in Motions
    BY <2>2 DEF IsPlaced
  <2>4. LookupTransform(a, b, t).error = "none" /\ LookupTransform(b, c, t).error = "none"
    BY <1>1, <1>3
  <2>5. Connected(ParentsOf(caches, t), a, b) /\ Connected(ParentsOf(caches, t), b, c)
    BY <2>1, <2>2, <2>4, LookupIs
  <2>6. Connected(ParentsOf(caches, t), a, c)
    BY <2>5 DEF Connected
  <2>7. LookupTransform(a, c, t).error = "none"
    BY <2>1, <2>2, <2>6, LookupIs
  <2>8. /\ LookupTransform(a, b, t).tf = Compose(Inverted(P[a]), P[b])
        /\ LookupTransform(b, c, t).tf = Compose(Inverted(P[b]), P[c])
        /\ LookupTransform(a, c, t).tf = Compose(Inverted(P[a]), P[c])
    <3>1. LookupTransform(a, b, t).tf = Compose(Inverted(P[a]), P[b])
      BY <2>1, <2>2, <2>4, LookupIs
    <3>2. LookupTransform(b, c, t).tf = Compose(Inverted(P[b]), P[c])
      BY <2>1, <2>2, <2>4, LookupIs
    <3>3. LookupTransform(a, c, t).tf = Compose(Inverted(P[a]), P[c])
      BY <2>1, <2>2, <2>7, LookupIs
    <3> QED
      BY <3>1, <3>2, <3>3
  <2>9. Compose(Compose(Inverted(P[a]), P[b]), Compose(Inverted(P[b]), P[c]))
          = Compose(Inverted(P[a]), P[c])
    BY <2>3, MiddleCancels
  <2> QED
    BY <1>1, <2>7, <2>8, <2>9
<1> HIDE DEF Zero
<1> QED
  BY <1>2, <1>3

-----------------------------------------------------------------------------
(***************************************************************************)
(* A step after which nobody tests the requests makes none of them due.    *)
(***************************************************************************)

\* What canTransform says, when requests are given up, and the latest common time.
WalksTell == \A c, d \in Frames : \A t \in Nat :
    c # d => (CanTransformInternal(c, d, t) <=> WalkEnds(c, d, t))

AgesTell == \A q \in Waits : TooOld(q, q.time) <=>
    /\ GetLatestCommonTime(q.target, q.source).time # Zero
    /\ q.time + CacheTime < GetLatestCommonTime(q.target, q.source).time

LineagesTell == \A c, d \in Frames : c # d =>
    /\ GetLatestCommonTime(c, d).time \in Nat
    /\ (\A f \in Frames : StampsOf(caches)[f] = Zero) => GetLatestCommonTime(c, d).time = Zero
    /\ \A s, u : IsLineage(s, c, ParentsOf(caches, Zero))
                 /\ IsLineage(u, d, ParentsOf(caches, Zero))
         => GetLatestCommonTime(c, d) = OldestOf(StampsOf(caches), s, u)

\* They do in every sound state.
LEMMA CachesTell ==
    CacheInv => WalksTell /\ AgesTell /\ LineagesTell
<1>1. CacheInv => WalksTell
  BY CanTransformIs DEF WalksTell
<1>2. CacheInv => AgesTell
  BY TooOldIs DEF AgesTell
<1>3. CacheInv => LineagesTell
  BY CommonTimeIs DEF LineagesTell
<1> QED
  BY <1>1, <1>2, <1>3

\* A request waits for the way between two frames.
LEMMA WaitsAreForWays ==
    ASSUME NEW r \in Waits
    PROVE  r \in Requests /\ r.target \in Frames /\ r.source \in Frames /\ r.target # r.source
           /\ r.time \in Nat
BY TfAssumption DEF Waits

\* Caches that lose parents for some times, but no newest entry, make no request due.
LEMMA LosingParents ==
    ASSUME CacheInv, CacheInv',
           \A f \in Frames, t \in Nat :
             ParentsOf(caches', t)[f] # None => ParentsOf(caches', t)[f] = ParentsOf(caches, t)[f],
           ParentsOf(caches', Zero) = ParentsOf(caches, Zero),
           StampsOf(caches') = StampsOf(caches)
    PROVE  \A r \in Waits : (Ready(r)' => Ready(r)) /\ (Due(r)' => Due(r))
<1> SUFFICES ASSUME NEW r \in Waits PROVE (Ready(r)' => Ready(r)) /\ (Due(r)' => Due(r))
  OBVIOUS
<1> DEFINE a == r.target
           b == r.source
<1>1. a \in Frames /\ b \in Frames /\ a # b /\ r.time \in Nat
  BY WaitsAreForWays
<1>0. /\ WalksTell /\ AgesTell /\ LineagesTell
      /\ WalksTell' /\ AgesTell' /\ LineagesTell'
  <2>1. (CacheInv => WalksTell /\ AgesTell /\ LineagesTell)'
    BY CachesTell, PTL
  <2> QED
    BY <2>1, CachesTell
<1>2. GetLatestCommonTime(a, b)' = GetLatestCommonTime(a, b)
  <2> DEFINE lt == Lineage(a)
             ls == Lineage(b)
  <2>1. IsLineage(lt, a, ParentsOf(caches, Zero)) /\ IsLineage(ls, b, ParentsOf(caches, Zero))
    BY <1>1, LineageIs
  <2> HIDE DEF lt, ls
  <2>2. GetLatestCommonTime(a, b) = OldestOf(StampsOf(caches), lt, ls)
    BY <1>0, <1>1, <2>1 DEF LineagesTell
  <2>3. PICK lt0, ls0 : lt0 = lt /\ ls0 = ls
    OBVIOUS
  <2>4. IsLineage(lt0, a, ParentsOf(caches', Zero)) /\ IsLineage(ls0, b, ParentsOf(caches', Zero))
    BY <2>1, <2>3
  <2>6. GetLatestCommonTime(a, b)' = OldestOf(StampsOf(caches'), lt0, ls0)
    BY <1>0, <1>1, <2>4 DEF LineagesTell
  <2> QED
    BY <2>2, <2>3, <2>6
<1>3. ASSUME NEW t \in Nat, Connected(ParentsOf(caches', t), a, b)
      PROVE  Connected(ParentsOf(caches, t), a, b)
  BY <1>1, <1>3, FewerEdges
<1>4. GetLatestCommonTime(a, b).time \in Nat
  BY <1>0, <1>1 DEF LineagesTell
<1>5. WalkEnds(a, b, r.time)' => WalkEnds(a, b, r.time)
  BY <1>1, <1>2, <1>3, <1>4 DEF WalkEnds, Zero
<1>6. Ready(r)' => Ready(r)
  <2>2. CanTransformInternal(a, b, r.time)' <=> WalkEnds(a, b, r.time)'
    BY <1>0, <1>1 DEF WalksTell
  <2>3. CanTransformInternal(a, b, r.time) <=> WalkEnds(a, b, r.time)
    BY <1>0, <1>1 DEF WalksTell
  <2> QED
    BY <1>5, <2>2, <2>3 DEF Ready
<1>7. TooOld(r, r.time)' => TooOld(r, r.time)
  <2>2. TooOld(r, r.time)' <=>
             /\ GetLatestCommonTime(a, b)'.time # Zero
             /\ r.time + CacheTime < GetLatestCommonTime(a, b)'.time
    BY <1>0 DEF AgesTell
  <2>3. TooOld(r, r.time) <=>
             /\ GetLatestCommonTime(a, b).time # Zero
             /\ r.time + CacheTime < GetLatestCommonTime(a, b).time
    BY <1>0 DEF AgesTell
  <2> QED
    BY <1>2, <2>2, <2>3
<1> QED
  BY <1>6, <1>7 DEF Due

\* Caches left with what holds at every time make no request due.
LEMMA LosingTimes ==
    ASSUME CacheInv, CacheInv',
           \A f \in Frames, t, u \in Nat :
             ParentsOf(caches', t)[f] # None => ParentsOf(caches', t)[f] = ParentsOf(caches, u)[f],
           \A f \in Frames : StampsOf(caches')[f] = Zero
    PROVE  \A r \in Waits : (Ready(r)' => Ready(r)) /\ (Due(r)' => Due(r))
<1> SUFFICES ASSUME NEW r \in Waits PROVE (Ready(r)' => Ready(r)) /\ (Due(r)' => Due(r))
  OBVIOUS
<1> DEFINE a == r.target
           b == r.source
<1>1. a \in Frames /\ b \in Frames /\ a # b /\ r.time \in Nat
  BY WaitsAreForWays
<1>2. /\ WalksTell /\ AgesTell /\ LineagesTell
      /\ WalksTell' /\ AgesTell' /\ LineagesTell'
  <2>1. (CacheInv => WalksTell /\ AgesTell /\ LineagesTell)'
    BY CachesTell, PTL
  <2> QED
    BY <2>1, CachesTell
<1>3. ASSUME NEW t \in Nat, Connected(ParentsOf(caches', t), a, b), NEW u \in Nat
      PROVE  Connected(ParentsOf(caches, u), a, b)
  BY <1>1, <1>3, FewerEdges
<1>4. GetLatestCommonTime(a, b).time \in Nat
  BY <1>1, <1>2 DEF LineagesTell
<1>5. WalkEnds(a, b, r.time)' => WalkEnds(a, b, r.time)
  BY <1>1, <1>3, <1>4 DEF WalkEnds, Zero
<1>6. Ready(r)' => Ready(r)
  <2>1. CanTransformInternal(a, b, r.time)' <=> WalkEnds(a, b, r.time)'
    BY <1>1, <1>2 DEF WalksTell
  <2>2. CanTransformInternal(a, b, r.time) <=> WalkEnds(a, b, r.time)
    BY <1>1, <1>2 DEF WalksTell
  <2> QED
    BY <1>5, <2>1, <2>2 DEF Ready
<1>7. ~TooOld(r, r.time)'
  <2>1. GetLatestCommonTime(a, b)'.time = Zero
    BY <1>1, <1>2 DEF LineagesTell
  <2>2. TooOld(r, r.time)' => GetLatestCommonTime(a, b)'.time # Zero
    BY <1>2 DEF AgesTell
  <2> QED
    BY <2>1, <2>2
<1> QED
  BY <1>6, <1>7 DEF Due

\* A static transform holds at every time.
LEMMA StaticIsTimeless ==
    ASSUME NEW c, c.kind = "static", NEW t, NEW u
    PROVE  GetParent(c, t) = GetParent(c, u)
BY DEF GetParent

\* clear leaves what holds at every time.
LEMMA ClearIsQuiet ==
    ASSUME CacheInv, Clear
    PROVE  CacheInv' /\ \A r \in Waits : (Ready(r)' => Ready(r)) /\ (Due(r)' => Due(r))
<1>1. caches' = [f \in Frames |->
                  IF caches[f].kind = "timed" THEN [caches[f] EXCEPT !.list = <<>>]
                  ELSE caches[f]] /\ known' = known
  BY DEF Clear
<1>2. ASSUME NEW f \in Frames, caches[f].kind = "timed"
      PROVE  caches'[f] = [kind |-> "timed", list |-> <<>>]
  <2>1. caches[f] = [kind |-> "timed", list |-> caches[f].list]
    BY <1>2, PartsOfCache
  <2>2. caches'[f] = [caches[f] EXCEPT !.list = <<>>]
    BY <1>1, <1>2
  <2> QED
    BY <2>1, <2>2
<1>3. ASSUME NEW f \in Frames, caches[f].kind # "timed" PROVE caches'[f] = caches[f]
  BY <1>1, <1>3
<1>4. CacheInv'
  <2>1. ASSUME NEW f \in Frames PROVE caches'[f] \in Caches /\ CacheIsSound(f, caches'[f], known)
    <3>1. CASE caches[f].kind = "timed"
      <4>1. caches'[f] = [kind |-> "timed", list |-> <<>>]
        BY <1>2, <3>1
      <4>2. f \in known
        BY <3>1, PartsOfCache
      <4> QED
        BY <4>1, <4>2 DEF Caches, CacheIsSound, NewestFirst
    <3>2. CASE caches[f].kind # "timed"
      BY <1>3, <3>2 DEF CacheInv
    <3> QED
      BY <3>1, <3>2
  <2> QED
    BY <1>1, <2>1 DEF CacheInv
<1>5. ASSUME NEW f \in Frames, NEW t \in Nat, NEW u \in Nat, ParentsOf(caches', t)[f] # None
      PROVE  ParentsOf(caches', t)[f] = ParentsOf(caches, u)[f]
  <2>1. /\ ParentsOf(caches', t)[f] = IF caches'[f].kind = "none" THEN None ELSE GetParent(caches'[f], t)
        /\ ParentsOf(caches, u)[f] = IF caches[f].kind = "none" THEN None ELSE GetParent(caches[f], u)
    BY DEF ParentsOf
  <2>2. caches[f].kind # "timed"
    <3> SUFFICES ASSUME caches[f].kind = "timed" PROVE FALSE
      OBVIOUS
    <3>1. caches'[f] = [kind |-> "timed", list |-> <<>>]
      BY <1>2
    <3>2. GetParent(caches'[f], t) = None
      BY <3>1 DEF GetParent, FindClosest
    <3> QED
      BY <1>5, <2>1, <3>1, <3>2
  <2>3. caches'[f] = caches[f]
    BY <1>3, <2>2
  <2>4. caches[f].kind # "none"
    BY <1>5, <2>1, <2>3
  <2>5. caches[f].kind = "static"
    BY <2>2, <2>4, PartsOfCache
  <2>6. GetParent(caches[f], t) = GetParent(caches[f], u)
    BY <2>5, StaticIsTimeless
  <2> QED
    BY <2>1, <2>3, <2>4, <2>6
<1>6. ASSUME NEW f \in Frames PROVE StampsOf(caches')[f] = Zero
  <2>1. StampsOf(caches')[f] = LatestTimestamp(caches'[f])
    BY DEF StampsOf
  <2>2. CASE caches[f].kind = "timed"
    BY <1>2, <2>1, <2>2 DEF LatestTimestamp
  <2>3. CASE caches[f].kind # "timed"
    BY <1>3, <2>1, <2>3 DEF LatestTimestamp
  <2> QED
    BY <2>2, <2>3
<1> QED
  BY <1>4, <1>5, <1>6, LosingTimes

-----------------------------------------------------------------------------
(***************************************************************************)
(* setTransform keeps the caches sound.                                    *)
(***************************************************************************)

\* An entry put between the newer and the older ones keeps the order.
LEMMA InsertedInOrder ==
    ASSUME NEW list \in Seq(Entries), NewestFirst(list), NEW e \in Entries,
           NEW n \in 0..Len(list),
           \A k \in 1..Len(list) : list[k].stamp > e.stamp <=> k <= n
    PROVE  \E new \in Seq(Entries) :
             /\ new = SubSeq(list, 1, n) \o <<e>> \o SubSeq(list, n + 1, Len(list))
             /\ NewestFirst(new)
             /\ \A i \in 1..Len(new) : new[i] = e \/ \E j \in 1..Len(list) : new[i] = list[j]
<1> DEFINE new == SubSeq(list, 1, n) \o <<e>> \o SubSeq(list, n + 1, Len(list))
<1>1. /\ Len(list) \in Nat /\ n \in Nat /\ n <= Len(list)
      /\ \A k \in 1..Len(list) : list[k] \in Entries /\ list[k].stamp \in Nat
  BY StampsOfList
<1>2. e.stamp \in Nat
  BY DEF Entries
<1>3. /\ SubSeq(list, 1, n) \in Seq(Entries) /\ Len(SubSeq(list, 1, n)) = n
      /\ \A k \in 1..n : SubSeq(list, 1, n)[k] = list[k]
  BY HeadIsSorted
<1> DEFINE rest == SubSeq(list, n + 1, Len(list))
<1>4. /\ rest \in Seq(Entries) /\ Len(rest) = Len(list) - n
      /\ \A k \in 1..(Len(list) - n) : rest[k] = list[n + k]
  BY ONLY list \in Seq(Entries), <1>1
<1> DEFINE front == SubSeq(list, 1, n)
<1>50. new = front \o <<e>> \o rest
  OBVIOUS
<1> HIDE DEF rest, front, new
<1>5. /\ front \in Seq(Entries) /\ Len(front) = n /\ \A k \in 1..n : front[k] = list[k]
      /\ new = front \o <<e>> \o rest
  BY <1>3, <1>50 DEF front
<1>6. /\ new \in Seq(Entries) /\ Len(new) = Len(list) + 1
      /\ \A i \in 1..Len(new) : new[i] = IF i <= n THEN list[i]
                                         ELSE IF i = n + 1 THEN e ELSE list[i - 1]
  <2>1. /\ front \o <<e>> \in Seq(Entries) /\ Len(front \o <<e>>) = n + 1
        /\ \A i \in 1..(n + 1) : (front \o <<e>>)[i] = IF i <= n THEN list[i] ELSE e
    BY ONLY <1>1, <1>5, e \in Entries
  <2> DEFINE head == front \o <<e>>
  <2> HIDE DEF head
  <2>2. /\ head \in Seq(Entries) /\ Len(head) = n + 1 /\ new = head \o rest
        /\ \A i \in 1..(n + 1) : head[i] = IF i <= n THEN list[i] ELSE e
    BY <1>5, <2>1 DEF head
  <2>3. /\ new \in Seq(Entries) /\ Len(new) = Len(list) + 1
        /\ \A i \in 1..Len(new) : new[i] = IF i <= n + 1 THEN head[i] ELSE rest[i - (n + 1)]
    <3>1. head \in Seq(Entries) /\ rest \in Seq(Entries)
      BY <1>4, <2>2
    <3>2. /\ head \o rest \in Seq(Entries) /\ Len(head \o rest) = Len(head) + Len(rest)
          /\ \A i \in 1..(Len(head) + Len(rest)) :
               (head \o rest)[i] = IF i <= Len(head) THEN head[i] ELSE rest[i - Len(head)]
      BY ONLY <3>1
    <3>3. Len(head) = n + 1 /\ Len(rest) = Len(list) - n /\ new = head \o rest
      BY <1>4, <2>2
    <3>4. Len(head) + Len(rest) = Len(list) + 1
      BY ONLY <1>1, <3>3
    <3> QED
      BY ONLY <3>2, <3>3, <3>4
  <2>4. ASSUME NEW i \in 1..Len(new)
        PROVE  new[i] = IF i <= n THEN list[i] ELSE IF i = n + 1 THEN e ELSE list[i - 1]
    <3>1. CASE i <= n + 1
      BY ONLY <3>1, <2>2, <2>3, <1>1, i \in 1..Len(new)
    <3>2. CASE ~(i <= n + 1)
      <4>1. i - (n + 1) \in 1..(Len(list) - n) /\ n + (i - (n + 1)) = i - 1
        BY ONLY <3>2, <2>3, <1>1, i \in 1..Len(new)
      <4> DEFINE k == i - (n + 1)
      <4>2. rest[k] = list[n + k]
        BY <1>4, <4>1
      <4>3. new[i] = rest[k]
        BY ONLY <3>2, <2>3, i \in 1..Len(new)
      <4>4. ~(i <= n) /\ i # n + 1
        BY ONLY <3>2, <2>3, <1>1, i \in 1..Len(new)
      <4>5. new[i] = list[i - 1]
        BY <4>1, <4>2, <4>3
      <4> QED
        BY ONLY <4>4, <4>5
    <3> QED
      BY <3>1, <3>2
  <2> QED
    BY <2>3, <2>4
<1>7. \A i \in 1..Len(new) : new[i] = e \/ \E j \in 1..Len(list) : new[i] = list[j]
  <2> SUFFICES ASSUME NEW i \in 1..Len(new), i # n + 1
               PROVE  \E j \in 1..Len(list) : new[i] = list[j]
    BY ONLY <1>6, <1>1
  <2>1. CASE i <= n
    <3>1. i \in 1..Len(list) /\ new[i] = list[i]
      BY ONLY <1>6, <1>1, <2>1, i \in 1..Len(new)
    <3> QED
      BY <3>1
  <2>2. CASE ~(i <= n)
    <3>1. i - 1 \in 1..Len(list) /\ new[i] = list[i - 1]
      BY ONLY <1>6, <1>1, <2>2, i \in 1..Len(new), i # n + 1
    <3> QED
      BY <3>1
  <2> QED
    BY <2>1, <2>2
<1>8. NewestFirst(new)
  <2> SUFFICES ASSUME NEW i \in 1..Len(new), NEW j \in 1..Len(new), i <= j
               PROVE  new[j].stamp <= new[i].stamp
    BY DEF NewestFirst
  <2>1. ASSUME NEW x \in 1..Len(list), NEW y \in 1..Len(list), x <= y
        PROVE  list[y].stamp <= list[x].stamp
    BY <2>1 DEF NewestFirst
  <2>2. CASE i <= n /\ j <= n
    <3>1. i \in 1..Len(list) /\ j \in 1..Len(list) /\ new[i] = list[i] /\ new[j] = list[j]
      BY ONLY <2>2, <1>6, <1>1, i \in 1..Len(new), j \in 1..Len(new), i <= j
    <3> QED
      BY <2>1, <3>1
  <2>3. CASE i <= n /\ j = n + 1
    <3>1. i \in 1..Len(list) /\ list[i].stamp > e.stamp /\ new[i] = list[i] /\ new[j] = e
      BY ONLY <2>3, <1>6, <1>1, i \in 1..Len(new), j \in 1..Len(new),
              \A k \in 1..Len(list) : list[k].stamp > e.stamp <=> k <= n
    <3> QED
      BY ONLY <3>1, <1>1, <1>2
  <2>4. CASE i <= n /\ j > n + 1
    <3>1. i \in 1..Len(list) /\ j - 1 \in 1..Len(list) /\ i <= j - 1
          /\ new[i] = list[i] /\ new[j] = list[j - 1]
      BY ONLY <2>4, <1>6, <1>1, i \in 1..Len(new), j \in 1..Len(new)
    <3> QED
      BY <2>1, <3>1
  <2>5. CASE i = n + 1 /\ j = n + 1
    <3>1. new[i] = e /\ new[j] = e
      BY ONLY <2>5, <1>6, <1>1, i \in 1..Len(new), j \in 1..Len(new)
    <3> QED
      BY ONLY <3>1, <1>2
  <2>6. CASE i = n + 1 /\ j > n + 1
    <3>1. new[i] = e /\ new[j] = list[j - 1] /\ j - 1 \in 1..Len(list) /\ ~(j - 1 <= n)
      BY ONLY <2>6, <1>6, <1>1, i \in 1..Len(new), j \in 1..Len(new)
    <3>2. ~(list[j - 1].stamp > e.stamp)
      BY <3>1
    <3> QED
      BY ONLY <3>1, <3>2, <1>1, <1>2
  <2>7. CASE i > n + 1
    <3>1. /\ i - 1 \in 1..Len(list) /\ j - 1 \in 1..Len(list) /\ i - 1 <= j - 1
          /\ new[i] = list[i - 1] /\ new[j] = list[j - 1]
      BY ONLY <2>7, <1>6, <1>1, i \in 1..Len(new), j \in 1..Len(new), i <= j
    <3> QED
      BY <2>1, <3>1
  <2>8. \/ i <= n /\ j <= n
        \/ i <= n /\ j = n + 1
        \/ i <= n /\ j > n + 1
        \/ i = n + 1 /\ j = n + 1
        \/ i = n + 1 /\ j > n + 1
        \/ i > n + 1
    BY ONLY <1>1, <1>6, i \in 1..Len(new), j \in 1..Len(new), i <= j
  <2> QED
    BY <2>2, <2>3, <2>4, <2>5, <2>6, <2>7, <2>8
<1> QED
  BY <1>6, <1>7, <1>8 DEF new

\* What insertData makes of a timed cache.
LEMMA InsertDataIs ==
    ASSUME NEW list \in Seq(Entries), NewestFirst(list), NEW e \in Entries,
           NEW cache, cache = [kind |-> "timed", list |-> list]
    PROVE  \E new \in Seq(Entries) :
             /\ InsertData(cache, e) = [kind |-> "timed", list |-> new]
             /\ NewestFirst(new)
             /\ \A i \in 1..Len(new) : new[i] = e \/ \E j \in 1..Len(list) : new[i] = list[j]
             /\ Refused(cache, e) => new = PruneList(list)
<1> DEFINE kept == PruneList(list)
           n == Newer(kept, e.stamp)
           rest == SubSeq(kept, n + 1, Len(kept))
           longer == SubSeq(kept, 1, n) \o <<e>> \o rest
           same == \E i \in 1..Len(rest) : rest[i] = e
<1>1. InsertData(cache, e) =
        [kind |-> "timed", list |-> IF Refused(cache, e) \/ same THEN kept ELSE longer]
  <2>1. cache.kind = "timed" /\ cache.list = list
    OBVIOUS
  <2>2. InsertData(cache, e) = [cache EXCEPT !.list = IF Refused(cache, e) \/ same THEN kept ELSE longer]
    BY <2>1 DEF InsertData
  <2> HIDE DEF same, kept, longer
  <2> QED
    BY <2>2
<1>2. /\ kept \in Seq(Entries) /\ NewestFirst(kept)
      /\ \A i \in 1..Len(kept) : \E j \in 1..Len(list) : kept[i] = list[j]
  <2>1. PICK m \in 0..Len(list) : kept = SubSeq(list, 1, m)
    BY PruningKeepsNewest
  <2>2. /\ SubSeq(list, 1, m) \in Seq(Entries) /\ Len(SubSeq(list, 1, m)) = m
        /\ \A k \in 1..m : SubSeq(list, 1, m)[k] = list[k]
        /\ NewestFirst(SubSeq(list, 1, m))
    BY HeadIsSorted
  <2>3. Len(list) \in Nat /\ \A i \in 1..m : i \in 1..Len(list)
    BY StampsOfList
  <2> HIDE DEF kept
  <2> QED
    BY <2>1, <2>2, <2>3
<1> HIDE DEF kept
<1>3. e.stamp \in Int /\ e.stamp \in Nat
  BY DEF Entries
<1>4. /\ n \in 0..Len(kept)
      /\ \A k \in 1..Len(kept) : kept[k].stamp > e.stamp <=> k <= n
  BY <1>2, <1>3, NewerCounts
<1> HIDE DEF n
<1>5. PICK new \in Seq(Entries) :
        /\ new = SubSeq(kept, 1, n) \o <<e>> \o SubSeq(kept, n + 1, Len(kept))
        /\ NewestFirst(new)
        /\ \A i \in 1..Len(new) : new[i] = e \/ \E j \in 1..Len(kept) : new[i] = kept[j]
  BY <1>2, <1>4, InsertedInOrder
<1>50. longer = new
  BY <1>5
<1> HIDE DEF longer
<1>6. /\ longer \in Seq(Entries) /\ NewestFirst(longer)
      /\ \A i \in 1..Len(longer) : longer[i] = e \/ \E j \in 1..Len(kept) : longer[i] = kept[j]
  BY <1>5, <1>50
<1> HIDE DEF same
<1>7. CASE Refused(cache, e) \/ same
  <2>1. InsertData(cache, e) = [kind |-> "timed", list |-> kept]
    BY <1>1, <1>7
  <2> QED
    BY <1>2, <2>1 DEF kept
<1>8. CASE ~(Refused(cache, e) \/ same)
  <2>1. InsertData(cache, e) = [kind |-> "timed", list |-> longer]
    BY <1>1, <1>8
  <2>2. \A i \in 1..Len(longer) : longer[i] = e \/ \E j \in 1..Len(list) : longer[i] = list[j]
    BY <1>2, <1>6
  <2> QED
    BY <1>6, <1>8, <2>1, <2>2
<1> QED
  BY <1>7, <1>8

\* What a transform is stored as.
LEMMA StoredEntry ==
    ASSUME NEW m \in Messages, m.child # m.parent,
           NEW e, e = [stamp |-> m.stamp, parent |-> m.parent, s |-> m.s, v |-> m.v]
    PROVE  /\ m.child \in Frames /\ m.parent \in Frames /\ e \in Entries
           /\ e.parent = m.parent /\ IsSent(m.child, e)
<1>1. m.child \in Frames /\ m.parent \in Frames /\ m.stamp \in Nat \ {0} /\ m.s \in {-1, 1} /\ m.v \in Int
  BY TfAssumption
<1> QED
  BY <1>1 DEF Entries, IsSent

\* What allocateFrame and insertData make of a sound cache.
LEMMA StoringIsSound ==
    ASSUME CacheInv, NEW f \in Frames, NEW static \in BOOLEAN, NEW e \in Entries,
           NEW kn \in SUBSET Frames, IsSent(f, e), known \subseteq kn, f \in kn, e.parent \in kn,
           NEW cache, cache = AllocateFrame(caches[f], static)
    PROVE  /\ InsertData(cache, e) \in Caches /\ CacheIsSound(f, InsertData(cache, e), kn)
           /\ Refused(cache, e) =>
                /\ caches[f].kind = "timed" /\ caches[f].list \in Seq(Entries) /\ caches[f].list # <<>>
                /\ NewestFirst(caches[f].list)
                /\ InsertData(cache, e) = [kind |-> "timed", list |-> PruneList(caches[f].list)]
<1>1. CASE static
  <2>1. /\ cache.kind = "static"
        /\ cache = [kind |-> "static", list |-> cache.list]
    <3>1. CASE caches[f].kind # "static"
      BY <1>1, <3>1 DEF AllocateFrame
    <3>2. CASE caches[f].kind = "static"
      <4>1. cache = caches[f]
        BY <1>1, <3>2 DEF AllocateFrame
      <4>2. caches[f] = [kind |-> "static", list |-> caches[f].list]
        BY <3>2, PartsOfCache
      <4> QED
        BY <4>1, <4>2
    <3> QED
      BY <3>1, <3>2
  <2>2. InsertData(cache, e) = [cache EXCEPT !.list = <<e>>]
    BY <2>1 DEF InsertData
  <2>3. InsertData(cache, e) = [kind |-> "static", list |-> <<e>>]
    BY ONLY <2>1, <2>2
  <2>4. InsertData(cache, e) \in Caches
    BY <2>3 DEF Caches
  <2>5. CacheIsSound(f, InsertData(cache, e), kn)
    BY <2>3 DEF CacheIsSound
  <2>6. ~Refused(cache, e)
    BY <2>1 DEF Refused
  <2> QED
    BY <2>4, <2>5, <2>6
<1>2. CASE ~static
  <2>1. \E list \in Seq(Entries) :
          /\ cache = [kind |-> "timed", list |-> list] /\ NewestFirst(list)
          /\ \A j \in 1..Len(list) : IsSent(f, list[j]) /\ list[j].parent \in known
          /\ list # <<>> => caches[f].kind = "timed" /\ list = caches[f].list
    <3>1. CASE caches[f].kind # "timed"
      <4>1. cache = [kind |-> "timed", list |-> <<>>]
        BY <1>2, <3>1 DEF AllocateFrame
      <4> WITNESS <<>> \in Seq(Entries)
      <4> QED
        BY <4>1 DEF NewestFirst
    <3>2. CASE caches[f].kind = "timed"
      <4>1. cache = caches[f]
        BY <1>2, <3>2 DEF AllocateFrame
      <4>2. /\ caches[f].list \in Seq(Entries) /\ NewestFirst(caches[f].list)
            /\ caches[f] = [kind |-> "timed", list |-> caches[f].list]
            /\ \A i \in 1..Len(caches[f].list) :
                 IsSent(f, caches[f].list[i]) /\ caches[f].list[i].parent \in known
        BY <3>2, PartsOfCache
      <4> QED
        BY <3>2, <4>1, <4>2
    <3> QED
      BY <3>1, <3>2
  <2>2. PICK list \in Seq(Entries) :
          /\ cache = [kind |-> "timed", list |-> list] /\ NewestFirst(list)
          /\ \A j \in 1..Len(list) : IsSent(f, list[j]) /\ list[j].parent \in known
          /\ list # <<>> => caches[f].kind = "timed" /\ list = caches[f].list
    BY <2>1
  <2>3. PICK new \in Seq(Entries) :
             /\ InsertData(cache, e) = [kind |-> "timed", list |-> new]
             /\ NewestFirst(new)
             /\ \A i \in 1..Len(new) : new[i] = e \/ \E j \in 1..Len(list) : new[i] = list[j]
             /\ Refused(cache, e) => new = PruneList(list)
    BY <2>2, InsertDataIs
  <2>4. InsertData(cache, e) \in Caches
    BY <2>3 DEF Caches
  <2>5. \A i \in 1..Len(new) : IsSent(f, new[i]) /\ new[i].parent \in kn
    BY <2>2, <2>3
  <2>6. CacheIsSound(f, InsertData(cache, e), kn)
    BY <2>3, <2>5 DEF CacheIsSound
  <2>7. Refused(cache, e) => list # <<>>
    BY <2>2 DEF Refused
  <2> QED
    BY <2>2, <2>3, <2>4, <2>6, <2>7
<1> QED
  BY <1>1, <1>2

\* setTransform keeps the caches sound.
LEMMA SetTransformIsSound ==
    ASSUME CacheInv, NEW p \in Publishers, NEW m \in Messages, SetTransform(p, m)
    PROVE  CacheInv'
<1> DEFINE c == m.child
           e == [stamp |-> m.stamp, parent |-> m.parent, s |-> m.s, v |-> m.v]
           cache == AllocateFrame(caches[c], m.static)
           new == InsertData(cache, e)
<1>1. /\ m.child # m.parent /\ known' = known \cup {m.child, m.parent}
      /\ caches' = [caches EXCEPT ![c] = new]
  BY DEF SetTransform
<1>2. c \in Frames /\ m.parent \in Frames /\ e \in Entries /\ e.parent = m.parent /\ IsSent(c, e)
  BY <1>1, StoredEntry
<1>3. m.static \in BOOLEAN
  BY TfAssumption
<1>4. known \in SUBSET Frames /\ known' \in SUBSET Frames /\ known \subseteq known'
      /\ c \in known' /\ m.parent \in known'
  BY <1>1, <1>2 DEF CacheInv
<1> HIDE DEF e
<1>5. new \in Caches /\ CacheIsSound(c, new, known')
  <2>1. PICK kn \in SUBSET Frames : kn = known'
    BY <1>4
  <2> HIDE DEF c
  <2>2. InsertData(cache, e) \in Caches /\ CacheIsSound(c, InsertData(cache, e), kn)
    BY <1>2, <1>3, <1>4, <2>1, StoringIsSound
  <2> QED
    BY <2>1, <2>2
<1> HIDE DEF new
<1>6. ASSUME NEW f \in Frames PROVE caches'[f] \in Caches /\ CacheIsSound(f, caches'[f], known')
  <2>1. CASE f = c
    <3>1. caches'[f] = new
      BY <1>1, <1>2, <2>1 DEF CacheInv
    <3> QED
      BY <1>5, <2>1, <3>1
  <2>2. CASE f # c
    <3>1. caches'[f] = caches[f]
      BY <1>1, <2>2 DEF CacheInv
    <3>2. caches[f] \in Caches /\ CacheIsSound(f, caches[f], known)
      BY DEF CacheInv
    <3>3. CacheIsSound(f, caches[f], known')
      BY <1>4, <3>2 DEF CacheIsSound
    <3> QED
      BY <3>1, <3>2, <3>3
  <2> QED
    BY <2>1, <2>2
<1>7. caches' \in [Frames -> Caches]
  BY <1>1, <1>5 DEF CacheInv
<1> QED
  BY <1>4, <1>6, <1>7 DEF CacheInv

\* Transforms of one frame that have one stamp have one parent.
LEMMA OneParentPerStamp ==
    ASSUME NEW f \in Frames, NEW d, NEW e, IsSent(f, d), IsSent(f, e), d.stamp = e.stamp
    PROVE  d.parent = e.parent
BY TreeAssumption DEF IsSent

\* A refused transform only prunes: it makes no request due.
LEMMA RefusedIsQuiet ==
    ASSUME CacheInv, CacheInv', NEW p \in Publishers, NEW m \in Messages, SetTransform(p, m),
           Refused(AllocateFrame(caches[m.child], m.static),
                   [stamp |-> m.stamp, parent |-> m.parent, s |-> m.s, v |-> m.v])
    PROVE  \A r \in Waits : (Ready(r)' => Ready(r)) /\ (Due(r)' => Due(r))
<1> DEFINE c == m.child
           e == [stamp |-> m.stamp, parent |-> m.parent, s |-> m.s, v |-> m.v]
           cache == AllocateFrame(caches[c], m.static)
           new == InsertData(cache, e)
           list == caches[c].list
           kept == PruneList(list)
<1>1. /\ m.child # m.parent /\ known' = known \cup {m.child, m.parent}
      /\ caches' = [caches EXCEPT ![c] = new]
  BY DEF SetTransform
<1>2. c \in Frames /\ m.parent \in Frames /\ e \in Entries /\ e.parent = m.parent /\ IsSent(c, e)
  BY <1>1, StoredEntry
<1>3. m.static \in BOOLEAN
  BY TfAssumption
<1>4. known \in SUBSET Frames /\ known \subseteq Frames
  BY DEF CacheInv
<1>5. Refused(cache, e)
  OBVIOUS
<1> HIDE DEF e
<1>6. /\ caches[c].kind = "timed" /\ list \in Seq(Entries) /\ list # <<>> /\ NewestFirst(list)
      /\ new = [kind |-> "timed", list |-> kept]
  <2>1. c \in Frames /\ e.parent \in Frames /\ Frames \in SUBSET Frames
    BY <1>2
  <2> HIDE DEF c
  <2> QED
    BY <1>2, <1>3, <1>4, <1>5, <2>1, StoringIsSound
<1> HIDE DEF new, cache
<1>7. /\ caches[c].kind = "timed" /\ caches'[c].kind = "timed" /\ caches'[c].list = kept
      /\ \A f \in Frames : f # c => caches'[f] = caches[f]
  BY <1>1, <1>2, <1>6 DEF CacheInv
<1>8. \A i, j \in 1..Len(list) : list[i].stamp = list[j].stamp => list[i].parent = list[j].parent
  <2>1. \A i \in 1..Len(list) : IsSent(c, list[i])
    BY <1>2, <1>7, PartsOfCache
  <2> QED
    BY <1>2, <2>1, OneParentPerStamp
<1>9. kept # <<>> /\ kept[1] = list[1]
  <2>1. PICK n \in 0..Len(list) : kept = SubSeq(list, 1, n) /\ (list # <<>> => n # 0)
    BY <1>6, PruningKeepsNewest
  <2>2. n \in Nat /\ n # 0
    BY <1>6, <2>1, StampsOfList
  <2>3. /\ Len(SubSeq(list, 1, n)) = n /\ \A k \in 1..n : SubSeq(list, 1, n)[k] = list[k]
    BY <1>6, HeadIsSorted
  <2> HIDE DEF kept, list
  <2>4. 1 \in 1..n
    BY <2>2
  <2> QED
    BY <2>1, <2>2, <2>3, <2>4
<1>10. ASSUME NEW f \in Frames, NEW t \in Nat
       PROVE  /\ ParentsOf(caches', t)[f] # None => ParentsOf(caches', t)[f] = ParentsOf(caches, t)[f]
              /\ ParentsOf(caches', Zero)[f] = ParentsOf(caches, Zero)[f]
              /\ StampsOf(caches')[f] = StampsOf(caches)[f]
  <2>1. \A u \in Nat :
        /\ ParentsOf(caches', u)[f] = IF caches'[f].kind = "none" THEN None ELSE GetParent(caches'[f], u)
        /\ ParentsOf(caches, u)[f] = IF caches[f].kind = "none" THEN None ELSE GetParent(caches[f], u)
    BY DEF ParentsOf
  <2>2. /\ StampsOf(caches')[f] = LatestTimestamp(caches'[f])
        /\ StampsOf(caches)[f] = LatestTimestamp(caches[f])
    BY DEF StampsOf
  <2>3. Zero \in Nat
    BY DEF Zero
  <2>4. CASE f # c
    BY <1>7, <2>1, <2>2, <2>3, <2>4
  <2>5. CASE f = c
    <3>1. /\ GetParent(caches'[f], t) = IF FindClosest(kept, t) = <<>> THEN None
                                        ELSE FindClosest(kept, t)[1].parent
          /\ GetParent(caches[f], t) = IF FindClosest(list, t) = <<>> THEN None
                                        ELSE FindClosest(list, t)[1].parent
      BY <1>7, <2>5 DEF GetParent
    <3>2. \/ FindClosest(kept, t) = <<>>
          \/ /\ FindClosest(list, t) # <<>>
             /\ FindClosest(kept, t)[1].parent = FindClosest(list, t)[1].parent
      BY <1>6, <1>8, PruningLosesParents
    <3>3. ParentsOf(caches', t)[f] # None => ParentsOf(caches', t)[f] = ParentsOf(caches, t)[f]
      <4> HIDE DEF kept, list
      <4> QED
        BY <1>7, <2>1, <2>5, <3>1, <3>2
    <3>4. FindClosest(kept, Zero) = <<list[1]>> /\ FindClosest(list, Zero) = <<list[1]>>
      <4> HIDE DEF kept, list
      <4> QED
        BY <1>6, <1>9 DEF FindClosest
    <3>5. GetParent(caches'[f], Zero) = list[1].parent /\ GetParent(caches[f], Zero) = list[1].parent
      <4>1. /\ GetParent(caches'[f], Zero) = IF FindClosest(kept, Zero) = <<>> THEN None
                                             ELSE FindClosest(kept, Zero)[1].parent
            /\ GetParent(caches[f], Zero) = IF FindClosest(list, Zero) = <<>> THEN None
                                            ELSE FindClosest(list, Zero)[1].parent
        BY <1>7, <2>5 DEF GetParent
      <4> HIDE DEF list, kept
      <4> DEFINE first == list[1]
      <4>2. FindClosest(kept, Zero) = <<first>> /\ FindClosest(list, Zero) = <<first>>
        BY <3>4
      <4> HIDE DEF first
      <4>3. <<first>> # <<>> /\ <<first>>[1] = first
        OBVIOUS
      <4>4. GetParent(caches'[f], Zero) = first.parent /\ GetParent(caches[f], Zero) = first.parent
        BY ONLY <4>1, <4>2, <4>3
      <4> QED
        BY <4>4 DEF first
    <3>6. ParentsOf(caches', Zero)[f] = ParentsOf(caches, Zero)[f]
      BY <1>7, <2>1, <2>3, <2>5, <3>5
    <3>7. LatestTimestamp(caches'[f]) = LatestTimestamp(caches[f])
      BY <1>6, <1>7, <1>9, <2>5 DEF LatestTimestamp
    <3> QED
      BY <2>2, <3>3, <3>6, <3>7
  <2> QED
    BY <2>4, <2>5
<1>11. ParentsOf(caches', Zero) = ParentsOf(caches, Zero) /\ StampsOf(caches') = StampsOf(caches)
  <2>1. \A f \in Frames : /\ ParentsOf(caches', Zero)[f] = ParentsOf(caches, Zero)[f]
                          /\ StampsOf(caches')[f] = StampsOf(caches)[f]
    BY <1>10 DEF Zero
  <2> HIDE DEF c, list, kept
  <2>2. /\ ParentsOf(caches', Zero) = [f \in Frames |-> ParentsOf(caches', Zero)[f]]
        /\ ParentsOf(caches, Zero) = [f \in Frames |-> ParentsOf(caches, Zero)[f]]
    BY DEF ParentsOf
  <2>3. /\ StampsOf(caches') = [f \in Frames |-> StampsOf(caches')[f]]
        /\ StampsOf(caches) = [f \in Frames |-> StampsOf(caches)[f]]
    BY DEF StampsOf
  <2> QED
    BY ONLY <2>1, <2>2, <2>3
<1>12. \A f \in Frames, t \in Nat :
         ParentsOf(caches', t)[f] # None => ParentsOf(caches', t)[f] = ParentsOf(caches, t)[f]
  BY <1>10
<1> QED
  BY <1>11, <1>12, LosingParents

\* A step that leaves the caches alone makes no request due.
LEMMA UntouchedCaches ==
    ASSUME CacheInv, UNCHANGED <<caches, known>>
    PROVE  CacheInv' /\ \A r \in Waits : (Ready(r)' => Ready(r)) /\ (Due(r)' => Due(r))
<1>1. CacheInv'
  BY DEF CacheInv
<1>2. caches' = caches
  OBVIOUS
<1> QED
  BY <1>1, <1>2, LosingParents

-----------------------------------------------------------------------------
(***************************************************************************)
(* The requests: every one waits in one place.                             *)
(***************************************************************************)

\* A sequence without its element i: the last one takes its place.
LEMMA SwapRemoveIs ==
    ASSUME NEW S, NEW seq \in Seq(S), NEW i \in 1..Len(seq)
    PROVE  /\ SwapRemove(seq, i) \in Seq(S) /\ Len(SwapRemove(seq, i)) = Len(seq) - 1
           /\ \A j \in 1..(Len(seq) - 1) :
                SwapRemove(seq, i)[j] = IF j = i THEN seq[Len(seq)] ELSE seq[j]
<1> DEFINE n == Len(seq)
           swapped == [seq EXCEPT ![i] = seq[n]]
<1>1. n \in Nat /\ n >= 1 /\ n \in 1..n
  OBVIOUS
<1>2. /\ swapped \in Seq(S) /\ Len(swapped) = n
      /\ \A j \in 1..n : swapped[j] = IF j = i THEN seq[n] ELSE seq[j]
  BY <1>1
<1>3. SwapRemove(seq, i) = SubSeq(swapped, 1, n - 1)
  BY DEF SwapRemove
<1> HIDE DEF swapped
<1>4. n - 1 \in Nat /\ n - 1 <= Len(swapped) /\ \A j \in 1..(n - 1) : j \in 1..n
  BY ONLY <1>1, <1>2
<1> HIDE DEF n
<1>5. /\ SubSeq(swapped, 1, n - 1) \in Seq(S) /\ Len(SubSeq(swapped, 1, n - 1)) = n - 1
      /\ \A j \in 1..(n - 1) : SubSeq(swapped, 1, n - 1)[j] = swapped[j]
  BY ONLY <1>1, <1>2, <1>4
<1> QED
  BY <1>2, <1>3, <1>4, <1>5 DEF n

\* A sequence without its element i: the later ones move up.
LEMMA CutIs ==
    ASSUME NEW seq \in Seq(Waits), NEW i \in 1..Len(seq)
    PROVE  \E cut \in Seq(Waits) :
             /\ cut = SubSeq(seq, 1, i - 1) \o SubSeq(seq, i + 1, Len(seq))
             /\ Len(cut) = Len(seq) - 1
             /\ \A j \in 1..(Len(seq) - 1) : cut[j] = IF j < i THEN seq[j] ELSE seq[j + 1]
<1> DEFINE n == Len(seq)
           front == SubSeq(seq, 1, i - 1)
           back == SubSeq(seq, i + 1, n)
           cut == front \o back
<1>1. n \in Nat /\ i \in Nat /\ 1 <= i /\ i <= n
  OBVIOUS
<1>2. /\ front \in Seq(Waits) /\ Len(front) = i - 1 /\ \A j \in 1..(i - 1) : front[j] = seq[j]
  BY ONLY seq \in Seq(Waits), <1>1
<1>3. /\ back \in Seq(Waits) /\ Len(back) = n - i /\ \A j \in 1..(n - i) : back[j] = seq[i + j]
  BY ONLY seq \in Seq(Waits), <1>1
<1> HIDE DEF front, back
<1>30. front \in Seq(Waits) /\ back \in Seq(Waits)
  BY <1>2, <1>3
<1>4. /\ cut \in Seq(Waits) /\ Len(cut) = Len(front) + Len(back)
      /\ \A j \in 1..(Len(front) + Len(back)) :
           cut[j] = IF j <= Len(front) THEN front[j] ELSE back[j - Len(front)]
  BY ONLY <1>30
<1> HIDE DEF cut, n
<1>5. Len(cut) = n - 1
  BY ONLY <1>1, <1>2, <1>3, <1>4
<1>6. ASSUME NEW j \in 1..(n - 1) PROVE cut[j] = IF j < i THEN seq[j] ELSE seq[j + 1]
  <2>1. j \in 1..(Len(front) + Len(back))
    BY ONLY <1>1, <1>2, <1>3, j \in 1..(n - 1)
  <2>2. CASE j < i
    <3>1. j \in 1..(i - 1) /\ j <= Len(front)
      BY ONLY <1>1, <1>2, <2>2, j \in 1..(n - 1)
    <3> QED
      BY <1>2, <1>4, <2>1, <2>2, <3>1
  <2>3. CASE ~(j < i)
    <3> DEFINE k == j - (i - 1)
    <3>1. k \in 1..(n - i) /\ i + k = j + 1 /\ ~(j <= Len(front))
      BY ONLY <1>1, <1>2, <2>3, j \in 1..(n - 1)
    <3>2. cut[j] = back[k]
      BY ONLY <1>2, <1>4, <2>1, <3>1
    <3>3. back[k] = seq[i + k]
      BY <1>3, <3>1
    <3> QED
      BY <2>3, <3>1, <3>2, <3>3
  <2> QED
    BY <2>2, <2>3
<1>7. cut = SubSeq(seq, 1, i - 1) \o SubSeq(seq, i + 1, Len(seq))
  BY DEF cut, front, back, n
<1> QED
  BY <1>4, <1>5, <1>6, <1>7 DEF n

\* What is left after element i is taken out of a list.
IsWithout(new, list, i) ==
    /\ new \in Seq(Waits)
    /\ \A j \in 1..Len(new) : \E k \in 1..Len(list) : k # i /\ new[j] = list[k]
    /\ \A j, k \in 1..Len(new) : new[j] = new[k] => j = k

\* A list that renumbers the other elements of a list without repetitions.
LEMMA Renumbered ==
    ASSUME NEW list \in Seq(Waits), NEW i \in 1..Len(list),
           \A j, k \in 1..Len(list) : list[j] = list[k] => j = k,
           NEW new \in Seq(Waits),
           NEW from \in [1..Len(new) -> 1..Len(list)],
           \A j \in 1..Len(new) : from[j] # i /\ new[j] = list[from[j]],
           \A j, k \in 1..Len(new) : from[j] = from[k] => j = k
    PROVE  IsWithout(new, list, i)
<1>1. ASSUME NEW j \in 1..Len(new) PROVE \E k \in 1..Len(list) : k # i /\ new[j] = list[k]
  <2>1. from[j] \in 1..Len(list)
    OBVIOUS
  <2> QED
    BY <2>1
<1>2. ASSUME NEW j \in 1..Len(new), NEW k \in 1..Len(new), new[j] = new[k] PROVE j = k
  <2>1. from[j] \in 1..Len(list) /\ from[k] \in 1..Len(list)
    OBVIOUS
  <2>2. list[from[j]] = list[from[k]]
    BY <1>2
  <2>3. from[j] = from[k]
    BY <2>1, <2>2
  <2> QED
    BY <2>3
<1> QED
  BY <1>1, <1>2 DEF IsWithout

\* Both ways to take out an element leave the others, each once.
LEMMA TakingOut ==
    ASSUME NEW list \in Seq(Waits), NEW i \in 1..Len(list),
           \A j, k \in 1..Len(list) : list[j] = list[k] => j = k
    PROVE  /\ IsWithout(SwapRemove(list, i), list, i)
           /\ IsWithout(SubSeq(list, 1, i - 1) \o SubSeq(list, i + 1, Len(list)), list, i)
<1> DEFINE n == Len(list)
<1>1. n \in Nat /\ n >= 1 /\ n \in 1..n /\ i \in Nat /\ 1 <= i /\ i <= n
  OBVIOUS
<1>2. IsWithout(SwapRemove(list, i), list, i)
  <2>1. PICK new \in Seq(Waits) :
          /\ new = SwapRemove(list, i) /\ Len(new) = n - 1
          /\ \A j \in 1..(n - 1) : new[j] = IF j = i THEN list[n] ELSE list[j]
    BY SwapRemoveIs
  <2> DEFINE from == [j \in 1..Len(new) |-> IF j = i THEN n ELSE j]
  <2>2. from \in [1..Len(new) -> 1..n]
    BY <1>1, <2>1
  <2>3. \A j \in 1..Len(new) : from[j] # i
    BY <1>1, <2>1
  <2>4. \A j \in 1..Len(new) : new[j] = list[from[j]]
    BY <2>1
  <2>5. \A j, k \in 1..Len(new) : from[j] = from[k] => j = k
    BY <1>1, <2>1
  <2> HIDE DEF from
  <2>6. IsWithout(new, list, i)
    BY <2>2, <2>3, <2>4, <2>5, Renumbered
  <2> QED
    BY <2>1, <2>6
<1>3. IsWithout(SubSeq(list, 1, i - 1) \o SubSeq(list, i + 1, Len(list)), list, i)
  <2>1. PICK new \in Seq(Waits) :
          /\ new = SubSeq(list, 1, i - 1) \o SubSeq(list, i + 1, Len(list))
          /\ Len(new) = Len(list) - 1
          /\ \A j \in 1..(Len(list) - 1) : new[j] = IF j < i THEN list[j] ELSE list[j + 1]
    BY CutIs
  <2> DEFINE from == [j \in 1..Len(new) |-> IF j < i THEN j ELSE j + 1]
  <2>2. from \in [1..Len(new) -> 1..n]
    <3>0. Len(new) = n - 1
      BY <2>1
    <3> HIDE DEF n
    <3>1. ASSUME NEW j \in 1..Len(new) PROVE (IF j < i THEN j ELSE j + 1) \in 1..n
      <4>1. j \in Int /\ 1 <= j /\ j <= n - 1
        BY ONLY <3>0, <1>1, j \in 1..Len(new)
      <4> QED
        BY ONLY <4>1, <1>1
    <3> QED
      BY ONLY <3>1
  <2>3. \A j \in 1..Len(new) : from[j] # i
    BY <1>1, <2>1
  <2>4. \A j \in 1..Len(new) : new[j] = list[from[j]]
    BY <2>1
  <2>5. ASSUME NEW j \in 1..Len(new), NEW k \in 1..Len(new), from[j] = from[k] PROVE j = k
    <3>1. (IF j < i THEN j ELSE j + 1) = (IF k < i THEN k ELSE k + 1)
      BY <2>5
    <3>2. j \in Int /\ k \in Int /\ i \in Int
      BY <1>1, <2>1
    <3> QED
      BY ONLY <3>1, <3>2
  <2> HIDE DEF from
  <2>6. IsWithout(new, list, i)
    BY <2>2, <2>3, <2>4, <2>5, Renumbered
  <2> QED
    BY <2>1, <2>6
<1> QED
  BY <1>2, <1>3

\* The fields of a thread.
LEMMA PartsOfThread ==
    ASSUME RequestType, NEW p \in Publishers
    PROVE  /\ thread[p] \in Threads
           /\ thread[p].pc \in {"idle", "lock", "test", "call"}
           /\ thread[p].i \in Nat /\ thread[p].pending \in Seq(Waits \X Outcomes)
           /\ thread[p] = [pc |-> thread[p].pc, i |-> thread[p].i, pending |-> thread[p].pending]
<1>1. thread[p] \in Threads
  BY DEF RequestType
<1> QED
  BY <1>1 DEF Threads

\* One thread moves.
LEMMA ThreadMoves ==
    ASSUME RequestType, NEW p \in Publishers, NEW x \in Threads, thread' = [thread EXCEPT ![p] = x]
    PROVE  /\ thread' \in [Publishers -> Threads] /\ thread'[p] = x
           /\ \A q \in Publishers : q # p => thread'[q] = thread[q]
BY DEF RequestType

\* One thread moves to another place of its program.
LEMMA ThreadGoesTo ==
    ASSUME RequestType, NEW p \in Publishers, NEW pc \in {"idle", "lock", "test", "call"},
           thread' = [thread EXCEPT ![p].pc = pc]
    PROVE  /\ thread' \in [Publishers -> Threads]
           /\ thread'[p].pc = pc /\ thread'[p].i = thread[p].i
           /\ thread'[p].pending = thread[p].pending
           /\ \A q \in Publishers : q # p => thread'[q] = thread[q]
<1> DEFINE x == [pc |-> pc, i |-> thread[p].i, pending |-> thread[p].pending]
<1>1. thread[p] = [pc |-> thread[p].pc, i |-> thread[p].i, pending |-> thread[p].pending]
  BY PartsOfThread
<1>2. x \in Threads
  BY PartsOfThread DEF Threads
<1>3. thread' = [thread EXCEPT ![p] = [thread[p] EXCEPT !.pc = pc]]
  OBVIOUS
<1>4. [thread[p] EXCEPT !.pc = pc] = x
  BY <1>1
<1>5. thread' = [thread EXCEPT ![p] = x]
  BY <1>3, <1>4
<1>6. x.pc = pc /\ x.i = thread[p].i /\ x.pending = thread[p].pending
  OBVIOUS
<1> HIDE DEF x
<1>7. /\ thread' \in [Publishers -> Threads] /\ thread'[p] = x
      /\ \A q \in Publishers : q # p => thread'[q] = thread[q]
  BY <1>2, <1>5, ThreadMoves
<1> QED
  BY <1>6, <1>7

\* A step after which no request is in another place than before.
LEMMA PlacesStay ==
    ASSUME RequestType, PlacesInv, requests' = requests, answers' = answers,
           \A p \in Publishers : thread'[p].pending \in {thread[p].pending, <<>>},
           adding'.pc # "idle" => adding.pc # "idle" /\ adding'.r = adding.r
    PROVE  PlacesInv'
<1>1. ASSUME NEW p \in Publishers, NEW i \in 1..Len(thread'[p].pending)
      PROVE  i \in 1..Len(thread[p].pending) /\ thread'[p].pending[i] = thread[p].pending[i]
  <2>1. Len(<<>>) = 0 /\ 1..0 = {}
    OBVIOUS
  <2>2. thread'[p].pending # <<>>
    BY <1>1, <2>1
  <2>3. thread'[p].pending = thread[p].pending
    BY <2>2
  <2> QED
    BY <1>1, <2>3
<1>2. ASSUME NEW p \in Publishers, NEW q \in Publishers,
             NEW i \in 1..Len(thread'[p].pending), NEW j \in 1..Len(thread'[q].pending),
             thread'[p].pending[i][1] = thread'[q].pending[j][1]
      PROVE  p = q /\ i = j
  <2>1. i \in 1..Len(thread[p].pending) /\ thread'[p].pending[i] = thread[p].pending[i]
    BY <1>1
  <2>2. j \in 1..Len(thread[q].pending) /\ thread'[q].pending[j] = thread[q].pending[j]
    BY <1>1
  <2>3. thread[p].pending[i][1] = thread[q].pending[j][1]
    BY <1>2, <2>1, <2>2
  <2> QED
    BY <2>1, <2>2, <2>3 DEF PlacesInv
<1>3. \A i \in 1..Len(requests), p \in Publishers : \A j \in 1..Len(thread'[p].pending) :
         requests[i] # thread'[p].pending[j][1]
  BY <1>1 DEF PlacesInv
<1>4. \A p \in Publishers : \A j \in 1..Len(thread'[p].pending) :
         answers[thread'[p].pending[j][1]] = <<>>
  BY <1>1 DEF PlacesInv
<1>5. adding'.pc # "idle" =>
         /\ answers[adding'.r] = <<>>
         /\ \A i \in 1..Len(requests) : requests[i] # adding'.r
         /\ \A p \in Publishers : \A j \in 1..Len(thread'[p].pending) :
              thread'[p].pending[j][1] # adding'.r
  BY <1>1 DEF PlacesInv
<1> QED
  BY <1>2, <1>3, <1>4, <1>5 DEF PlacesInv

\* A step that makes no request due and leaves those who test where they are.
LEMMA WatchGoesOn ==
    ASSUME WatchInv,
           \A r \in Waits : (Ready(r)' => Ready(r)) /\ (Due(r)' => Due(r)),
           requests' = requests,
           \A p \in Publishers :
             /\ thread[p].pc = "lock" => thread'[p].pc = "lock"
             /\ thread[p].pc = "test" => thread'[p].pc = "test" /\ thread'[p].i = thread[p].i,
           adding'.pc = "push" => adding.pc = "push" /\ adding'.r = adding.r
    PROVE  WatchInv'
<1> SUFFICES ASSUME \A p \in Publishers : thread'[p].pc # "lock", NEW r \in Waits
             PROVE  /\ Due(r)' => \A i \in 1..Len(requests') : requests'[i] = r =>
                                    \E p \in Publishers : thread'[p].pc = "test" /\ thread'[p].i <= i
                    /\ (adding'.pc = "push" /\ adding'.r = r) => ~Ready(r)'
  BY DEF WatchInv
<1>1. \A p \in Publishers : thread[p].pc # "lock"
  OBVIOUS
<1>2. /\ Due(r) => \A i \in 1..Len(requests) : requests[i] = r =>
                       \E p \in Publishers : thread[p].pc = "test" /\ thread[p].i <= i
      /\ (adding.pc = "push" /\ adding.r = r) => ~Ready(r)
  BY <1>1 DEF WatchInv
<1>3. ASSUME NEW i \in 1..Len(requests), requests[i] = r, Due(r)'
      PROVE  \E p \in Publishers : thread'[p].pc = "test" /\ thread'[p].i <= i
  <2>1. Due(r)
    BY <1>3
  <2>2. PICK p \in Publishers : thread[p].pc = "test" /\ thread[p].i <= i
    BY <1>2, <1>3, <2>1
  <2>3. thread'[p].pc = "test" /\ thread'[p].i = thread[p].i
    BY <2>2
  <2> QED
    BY <2>2, <2>3
<1> QED
  BY <1>2, <1>3

\* The threads of testTransformableRequests hold the mutex.
LEMMA LockIsHeld ==
    ASSUME RequestType, LockInv
    PROVE  /\ reqLock = Free => adding.pc = "idle" /\ \A p \in Publishers : thread[p].pc # "test"
           /\ \A p \in Publishers : reqLock = p => p # Free /\ p # "add" /\ adding.pc = "idle"
           /\ \A p \in Publishers : p # Free /\ p # "add"
           /\ \A p \in Publishers : reqLock = p => \A q \in Publishers : q # p => thread[q].pc # "test"
           /\ reqLock = "add" => \A p \in Publishers : thread[p].pc # "test"
<1>1. \A p \in Publishers : p # "free" /\ p # "add"
  BY TfAssumption
<1> QED
  BY <1>1 DEF LockInv, Free

\* setTransform keeps the invariant.
LEMMA SetTransformKeeps ==
    ASSUME TfInv, NEW p \in Publishers, NEW m \in Messages, SetTransform(p, m)
    PROVE  TfInv'
<1> DEFINE refused == Refused(AllocateFrame(caches[m.child], m.static),
                         [stamp |-> m.stamp, parent |-> m.parent, s |-> m.s, v |-> m.v])
           pc == IF refused THEN "idle" ELSE "lock"
<1>1. /\ CacheInv /\ RequestType /\ LockInv /\ PlacesInv /\ WatchInv
      /\ thread[p].pc = "idle" /\ thread' = [thread EXCEPT ![p].pc = pc]
      /\ UNCHANGED <<requests, reqLock, adding, answers>>
  BY DEF TfInv, SetTransform
<1>2. CacheInv'
  BY <1>1, SetTransformIsSound
<1>3. refused => \A r \in Waits : (Ready(r)' => Ready(r)) /\ (Due(r)' => Due(r))
  BY <1>1, <1>2, RefusedIsQuiet
<1>4. pc \in {"idle", "lock", "test", "call"} /\ pc \in {"idle", "lock"} /\ (pc # "lock" => refused)
  OBVIOUS
<1> HIDE DEF refused, pc
<1>5. /\ thread' \in [Publishers -> Threads]
      /\ thread'[p].pc = pc /\ thread'[p].i = thread[p].i
      /\ thread'[p].pending = thread[p].pending
      /\ \A q \in Publishers : q # p => thread'[q] = thread[q]
  BY <1>1, <1>4, ThreadGoesTo
<1>6. RequestType'
  BY <1>1, <1>5 DEF RequestType
<1>7. LockInv'
  BY <1>1, <1>4, <1>5 DEF LockInv
<1>8. PlacesInv'
  <2>1. \A q \in Publishers : thread'[q].pending \in {thread[q].pending, <<>>}
    BY <1>5
  <2> QED
    BY <1>1, <2>1, PlacesStay
<1>9. WatchInv'
  <2>1. CASE pc = "lock"
    BY <1>5, <2>1 DEF WatchInv
  <2>2. CASE pc = "idle"
    <3>1. \A r \in Waits : (Ready(r)' => Ready(r)) /\ (Due(r)' => Due(r))
      BY <1>3, <1>4, <2>2
    <3>2. \A q \in Publishers :
             /\ thread[q].pc = "lock" => thread'[q].pc = "lock"
             /\ thread[q].pc = "test" => thread'[q].pc = "test" /\ thread'[q].i = thread[q].i
      BY <1>1, <1>5
    <3> QED
      BY <1>1, <3>1, <3>2, WatchGoesOn
  <2> QED
    BY <1>4, <2>1, <2>2
<1> QED
  BY <1>2, <1>6, <1>7, <1>8, <1>9 DEF TfInv

\* clear keeps the invariant.
LEMMA ClearKeeps ==
    ASSUME TfInv, Clear
    PROVE  TfInv'
<1>1. /\ CacheInv /\ RequestType /\ LockInv /\ PlacesInv /\ WatchInv
      /\ UNCHANGED <<requests, reqLock, thread, adding, answers>>
  BY DEF TfInv, Clear
<1>2. CacheInv' /\ \A r \in Waits : (Ready(r)' => Ready(r)) /\ (Due(r)' => Due(r))
  BY <1>1, ClearIsQuiet
<1>3. RequestType' /\ LockInv'
  BY <1>1 DEF RequestType, LockInv
<1>4. PlacesInv'
  BY <1>1, PlacesStay
<1>5. WatchInv'
  BY <1>1, <1>2, WatchGoesOn
<1> QED
  BY <1>2, <1>3, <1>4, <1>5 DEF TfInv

\* A publisher that takes the mutex starts with the first request.
LEMMA LockRequestsKeeps ==
    ASSUME TfInv, NEW p \in Publishers, LockRequests(p)
    PROVE  TfInv'
<1> DEFINE x == [pc |-> "test", i |-> 1, pending |-> <<>>]
<1>1. /\ CacheInv /\ RequestType /\ LockInv /\ PlacesInv /\ WatchInv
      /\ thread[p].pc = "lock" /\ reqLock = Free /\ reqLock' = p
      /\ thread' = [thread EXCEPT ![p] = x]
      /\ UNCHANGED <<caches, known, sent, requests, adding, answers>>
  BY DEF TfInv, LockRequests
<1>2. CacheInv' /\ \A r \in Waits : (Ready(r)' => Ready(r)) /\ (Due(r)' => Due(r))
  BY <1>1, UntouchedCaches
<1>3. x \in Threads /\ x.pc = "test" /\ x.i = 1 /\ x.pending = <<>>
  BY DEF Threads
<1> HIDE DEF x
<1>4. /\ thread' \in [Publishers -> Threads] /\ thread'[p] = x
      /\ \A q \in Publishers : q # p => thread'[q] = thread[q]
  BY <1>1, <1>3, ThreadMoves
<1>5. adding.pc = "idle" /\ (\A q \in Publishers : thread[q].pc # "test") /\ p # "add"
  BY <1>1, LockIsHeld
<1>6. RequestType'
  BY <1>1, <1>4 DEF RequestType
<1>7. LockInv'
  BY <1>1, <1>3, <1>4, <1>5 DEF LockInv
<1>8. PlacesInv'
  <2>1. \A q \in Publishers : thread'[q].pending \in {thread[q].pending, <<>>}
    BY <1>3, <1>4
  <2> QED
    BY <1>1, <2>1, PlacesStay
<1>9. WatchInv'
  <2>1. \A i \in 1..Len(requests') : thread'[p].pc = "test" /\ thread'[p].i <= i
    BY <1>3, <1>4
  <2>2. adding'.pc # "push"
    BY <1>1, <1>5
  <2> QED
    BY <2>1, <2>2 DEF WatchInv
<1> QED
  BY <1>2, <1>6, <1>7, <1>8, <1>9 DEF TfInv

\* At the end of the list every request was tested.
LEMMA EndTestKeeps ==
    ASSUME TfInv, NEW p \in Publishers, EndTest(p)
    PROVE  TfInv'
<1>1. /\ CacheInv /\ RequestType /\ LockInv /\ PlacesInv /\ WatchInv
      /\ thread[p].pc = "test" /\ thread[p].i > Len(requests) /\ reqLock' = Free
      /\ thread' = [thread EXCEPT ![p].pc = "call"]
      /\ UNCHANGED <<caches, known, sent, requests, adding, answers>>
  BY DEF TfInv, EndTest
<1>2. CacheInv' /\ \A r \in Waits : (Ready(r)' => Ready(r)) /\ (Due(r)' => Due(r))
  BY <1>1, UntouchedCaches
<1>4. /\ thread' \in [Publishers -> Threads]
      /\ thread'[p].pc = "call" /\ thread'[p].i = thread[p].i
      /\ thread'[p].pending = thread[p].pending
      /\ \A q \in Publishers : q # p => thread'[q] = thread[q]
  BY <1>1, ThreadGoesTo
<1>5. /\ reqLock = p /\ adding.pc = "idle" /\ \A q \in Publishers : q # Free
      /\ \A q \in Publishers : q # p => thread[q].pc # "test"
  <2>1. reqLock = p
    BY <1>1 DEF LockInv
  <2> QED
    BY <1>1, <2>1, LockIsHeld
<1>6. RequestType'
  BY <1>1, <1>4 DEF RequestType
<1>7. LockInv'
  BY <1>1, <1>4, <1>5 DEF LockInv, Free
<1>8. PlacesInv'
  <2>1. \A q \in Publishers : thread'[q].pending \in {thread[q].pending, <<>>}
    BY <1>4
  <2> QED
    BY <1>1, <2>1, PlacesStay
<1>9. WatchInv'
  <2> SUFFICES ASSUME \A q \in Publishers : thread'[q].pc # "lock", NEW r \in Waits, Due(r)',
                      NEW i \in 1..Len(requests), requests[i] = r
               PROVE  FALSE
    BY <1>1, <1>5 DEF WatchInv
  <2>1. \A q \in Publishers : thread[q].pc # "lock"
    BY <1>1, <1>4
  <2>2. PICK q \in Publishers : thread[q].pc = "test" /\ thread[q].i <= i
    BY <1>1, <1>2, <2>1 DEF WatchInv
  <2>3. q = p
    BY <1>5, <2>2
  <2>4. thread[p].i \in Nat /\ Len(requests) \in Nat
    BY <1>1 DEF RequestType, Threads
  <2> QED
    BY ONLY <1>1, <2>2, <2>3, <2>4, i \in 1..Len(requests)
<1> QED
  BY <1>2, <1>6, <1>7, <1>8, <1>9 DEF TfInv

\* A request that cannot be answered stays, and the next one is tested.
LEMMA TestKeeps ==
    ASSUME TfInv, NEW p \in Publishers, thread[p].pc = "test", thread[p].i <= Len(requests),
           ~Due(requests[thread[p].i]),
           thread' = [thread EXCEPT ![p].i = thread[p].i + 1],
           UNCHANGED <<caches, known, sent, requests, reqLock, adding, answers>>
    PROVE  TfInv'
<1> DEFINE x == [pc |-> "test", i |-> thread[p].i + 1, pending |-> thread[p].pending]
<1>1. /\ CacheInv /\ RequestType /\ LockInv /\ PlacesInv /\ WatchInv
  BY DEF TfInv
<1>2. CacheInv' /\ \A r \in Waits : (Ready(r)' => Ready(r)) /\ (Due(r)' => Due(r))
  BY <1>1, UntouchedCaches
<1>3. /\ thread[p].i \in Nat /\ thread[p].i # 0 /\ Len(requests) \in Nat
      /\ thread[p].pending \in Seq(Waits \X Outcomes)
      /\ thread[p] = [pc |-> thread[p].pc, i |-> thread[p].i, pending |-> thread[p].pending]
  BY <1>1, PartsOfThread DEF RequestType, LockInv
<1>30. thread' = [thread EXCEPT ![p] = x]
  <2>1. [thread[p] EXCEPT !.i = thread[p].i + 1] = x
    BY <1>3
  <2>2. thread' = [thread EXCEPT ![p] = [thread[p] EXCEPT !.i = thread[p].i + 1]]
    OBVIOUS
  <2> QED
    BY ONLY <2>1, <2>2
<1>31. x \in Threads /\ x.pc = "test" /\ x.i = thread[p].i + 1 /\ x.pending = thread[p].pending
  BY <1>3 DEF Threads
<1> HIDE DEF x
<1>4. /\ thread' \in [Publishers -> Threads] /\ thread'[p] = x
      /\ \A q \in Publishers : q # p => thread'[q] = thread[q]
  BY <1>1, <1>30, <1>31, ThreadMoves
<1>5. /\ reqLock = p /\ adding.pc = "idle"
      /\ \A q \in Publishers : q # p => thread[q].pc # "test"
  <2>1. reqLock = p
    BY <1>1 DEF LockInv
  <2> QED
    BY <1>1, <2>1, LockIsHeld
<1>6. RequestType'
  BY <1>1, <1>4 DEF RequestType
<1>7. LockInv'
  <2>1. \A q \in Publishers : thread'[q].pc = thread[q].pc
    BY <1>4, <1>31
  <2>2. \A q \in Publishers : thread'[q].pc = "test" => thread'[q].i # 0
    <3>1. thread'[p].i # 0
      BY <1>3, <1>4, <1>31
    <3> QED
      BY <1>1, <1>4, <1>5, <3>1
  <2> QED
    BY <1>1, <2>1, <2>2 DEF LockInv
<1>8. PlacesInv'
  <2>1. \A q \in Publishers : thread'[q].pending \in {thread[q].pending, <<>>}
    BY <1>4, <1>31
  <2> QED
    BY <1>1, <2>1, PlacesStay
<1>9. WatchInv'
  <2> SUFFICES ASSUME \A q \in Publishers : thread'[q].pc # "lock", NEW r \in Waits, Due(r)',
                      NEW i \in 1..Len(requests), requests[i] = r
               PROVE  thread'[p].pc = "test" /\ thread'[p].i <= i
    BY <1>1, <1>5 DEF WatchInv
  <2>1. \A q \in Publishers : thread[q].pc # "lock"
    BY <1>4
  <2>2. Due(r)
    BY <1>2
  <2>3. PICK q \in Publishers : thread[q].pc = "test" /\ thread[q].i <= i
    BY <1>1, <2>1, <2>2 DEF WatchInv
  <2>4. q = p
    BY <1>5, <2>3
  <2>5. i # thread[p].i
    BY <2>2
  <2>6. thread[p].i + 1 <= i
    BY ONLY <1>3, <2>3, <2>4, <2>5, i \in 1..Len(requests)
  <2> QED
    BY <1>4, <1>31, <2>6
<1> QED
  BY <1>2, <1>6, <1>7, <1>8, <1>9 DEF TfInv

\* A request that can be answered or given up is taken out of the list.
LEMMA TakeKeeps ==
    ASSUME TfInv, NEW p \in Publishers, thread[p].pc = "test", thread[p].i <= Len(requests),
           NEW o \in Outcomes,
           requests' = SwapRemove(requests, thread[p].i),
           thread' = [thread EXCEPT ![p].pending = Append(@, <<requests[thread[p].i], o>>)],
           UNCHANGED <<caches, known, sent, reqLock, adding, answers>>
    PROVE  TfInv'
<1> DEFINE i == thread[p].i
           r == requests[i]
           longer == Append(thread[p].pending, <<r, o>>)
           x == [pc |-> "test", i |-> i, pending |-> longer]
<1>1. /\ CacheInv /\ RequestType /\ LockInv /\ PlacesInv /\ WatchInv
  BY DEF TfInv
<1>2. CacheInv' /\ \A q \in Waits : (Ready(q)' => Ready(q)) /\ (Due(q)' => Due(q))
  BY <1>1, UntouchedCaches
<1>3. /\ i \in Nat /\ i # 0 /\ Len(requests) \in Nat
      /\ thread[p].pending \in Seq(Waits \X Outcomes)
      /\ thread[p] = [pc |-> thread[p].pc, i |-> thread[p].i, pending |-> thread[p].pending]
      /\ requests \in Seq(Waits)
  BY <1>1, PartsOfThread DEF RequestType, LockInv
<1>4. i \in 1..Len(requests) /\ r \in Waits
  BY <1>3
<1>5. /\ longer \in Seq(Waits \X Outcomes) /\ Len(longer) = Len(thread[p].pending) + 1
      /\ \A j \in 1..Len(thread[p].pending) : longer[j] = thread[p].pending[j]
      /\ longer[Len(longer)] = <<r, o>>
  <2> DEFINE pending == thread[p].pending
             call == <<r, o>>
  <2>1. call \in Waits \X Outcomes /\ pending \in Seq(Waits \X Outcomes)
    BY <1>3, <1>4
  <2> HIDE DEF pending, call
  <2>2. /\ Append(pending, call) \in Seq(Waits \X Outcomes)
        /\ Len(Append(pending, call)) = Len(pending) + 1
        /\ \A j \in 1..Len(pending) : Append(pending, call)[j] = pending[j]
        /\ Append(pending, call)[Len(pending) + 1] = call
    BY ONLY <2>1
  <2> QED
    BY <2>2 DEF pending, call
<1>6. thread' = [thread EXCEPT ![p] = x]
  <2>1. thread' = [thread EXCEPT ![p] = [thread[p] EXCEPT !.pending = longer]]
    OBVIOUS
  <2> HIDE DEF longer
  <2>2. [thread[p] EXCEPT !.pending = longer] = x
    BY <1>3
  <2> QED
    BY ONLY <2>1, <2>2
<1> HIDE DEF longer
<1>7. x \in Threads /\ x.pc = "test" /\ x.i = i /\ x.pending = longer
  BY <1>3, <1>5 DEF Threads
<1> HIDE DEF x
<1>8. /\ thread' \in [Publishers -> Threads] /\ thread'[p] = x
      /\ \A q \in Publishers : q # p => thread'[q] = thread[q]
  BY <1>1, <1>6, <1>7, ThreadMoves
<1>9. /\ reqLock = p /\ adding.pc = "idle"
      /\ \A q \in Publishers : q # p => thread[q].pc # "test"
  <2>1. reqLock = p
    BY <1>1 DEF LockInv
  <2> QED
    BY <1>1, <2>1, LockIsHeld
<1>10. IsWithout(requests', requests, i)
  <2>1. \A j, k \in 1..Len(requests) : requests[j] = requests[k] => j = k
    BY <1>1 DEF PlacesInv
  <2> HIDE DEF i, r
  <2>2. IsWithout(SwapRemove(requests, i), requests, i)
    BY <1>3, <1>4, <2>1, TakingOut
  <2> QED
    BY <2>2 DEF i
<1>11. RequestType'
  BY <1>1, <1>8, <1>10 DEF RequestType, IsWithout
<1>12. LockInv'
  BY <1>1, <1>3, <1>7, <1>8, <1>9 DEF LockInv
<1>13. PlacesInv'
  <2>1. ASSUME NEW j \in 1..Len(requests')
        PROVE  \E k \in 1..Len(requests) : k # i /\ requests'[j] = requests[k]
    BY <1>10 DEF IsWithout
  <2>2. \A j, k \in 1..Len(requests') : requests'[j] = requests'[k] => j = k
    BY <1>10 DEF IsWithout
  <2>3. ASSUME NEW j \in 1..Len(requests')
        PROVE  requests'[j] # r /\ answers[requests'[j]] = <<>>
    <3>1. PICK k \in 1..Len(requests) : k # i /\ requests'[j] = requests[k]
      BY <2>1
    <3> QED
      BY <1>1, <1>4, <3>1 DEF PlacesInv
  \* where a pending call comes from
  <2>4. ASSUME NEW q \in Publishers, NEW j \in 1..Len(thread'[q].pending)
        PROVE  \/ q = p /\ j = Len(longer) /\ thread'[q].pending[j][1] = r
               \/ j \in 1..Len(thread[q].pending) /\ thread'[q].pending[j] = thread[q].pending[j]
    <3>1. CASE q # p
      BY <1>8, <3>1
    <3>2. CASE q = p /\ j = Len(longer)
      <4>1. thread'[q].pending[j] = <<r, o>>
        BY <1>5, <1>7, <1>8, <3>2
      <4> QED
        BY <3>2, <4>1
    <3>3. CASE q = p /\ j # Len(longer)
      <4>1. thread'[q].pending = longer
        BY <1>7, <1>8, <3>3
      <4>2. Len(thread[p].pending) \in Nat
        BY <1>3
      <4>3. j \in 1..Len(longer)
        BY <4>1
      <4>4. j \in 1..Len(thread[p].pending)
        BY ONLY <1>5, <3>3, <4>2, <4>3
      <4> QED
        BY <1>5, <3>3, <4>1, <4>4
    <3> QED
      BY <3>1, <3>2, <3>3
  <2>5. ASSUME NEW q \in Publishers, NEW j \in 1..Len(thread[q].pending)
        PROVE  thread[q].pending[j][1] # r
    BY <1>1, <1>4 DEF PlacesInv
  <2>6. ASSUME NEW q \in Publishers, NEW s \in Publishers,
               NEW j \in 1..Len(thread'[q].pending), NEW k \in 1..Len(thread'[s].pending),
               thread'[q].pending[j][1] = thread'[s].pending[k][1]
        PROVE  q = s /\ j = k
    <3>1. CASE q = p /\ j = Len(longer) /\ thread'[q].pending[j][1] = r
      <4>1. s = p /\ k = Len(longer)
        BY <2>4, <2>5, <2>6, <3>1
      <4> QED
        BY <3>1, <4>1
    <3>2. CASE j \in 1..Len(thread[q].pending) /\ thread'[q].pending[j] = thread[q].pending[j]
      <4>1. thread[q].pending[j][1] # r
        BY <2>5, <3>2
      <4>2. k \in 1..Len(thread[s].pending) /\ thread'[s].pending[k] = thread[s].pending[k]
        BY <2>4, <2>6, <3>2, <4>1
      <4>3. thread[q].pending[j][1] = thread[s].pending[k][1]
        BY <2>6, <3>2, <4>2
      <4> QED
        BY <1>1, <3>2, <4>2, <4>3 DEF PlacesInv
    <3> QED
      BY <2>4, <3>1, <3>2
  <2>7. ASSUME NEW j \in 1..Len(requests'), NEW q \in Publishers, NEW k \in 1..Len(thread'[q].pending)
        PROVE  requests'[j] # thread'[q].pending[k][1]
    <3>1. PICK h \in 1..Len(requests) : h # i /\ requests'[j] = requests[h]
      BY <2>1
    <3>2. CASE k \in 1..Len(thread[q].pending) /\ thread'[q].pending[k] = thread[q].pending[k]
      BY <1>1, <3>1, <3>2 DEF PlacesInv
    <3>3. CASE thread'[q].pending[k][1] = r
      BY <2>3, <3>3
    <3> QED
      BY <2>4, <3>2, <3>3
  <2>8. ASSUME NEW q \in Publishers, NEW j \in 1..Len(thread'[q].pending)
        PROVE  answers[thread'[q].pending[j][1]] = <<>>
    <3>1. CASE j \in 1..Len(thread[q].pending) /\ thread'[q].pending[j] = thread[q].pending[j]
      BY <1>1, <3>1 DEF PlacesInv
    <3>2. CASE thread'[q].pending[j][1] = r
      BY <1>1, <1>4, <3>2 DEF PlacesInv
    <3> QED
      BY <2>4, <3>1, <3>2
  <2>9. \A q \in Requests : Len(answers[q]) <= 1
    BY <1>1 DEF PlacesInv
  <2> QED
    BY <1>9, <2>2, <2>3, <2>6, <2>7, <2>8, <2>9 DEF PlacesInv
<1>14. WatchInv'
  <2> SUFFICES ASSUME \A q \in Publishers : thread'[q].pc # "lock", NEW w \in Waits, Due(w)',
                      NEW j \in 1..Len(requests'), requests'[j] = w
               PROVE  thread'[p].pc = "test" /\ thread'[p].i <= j
    BY <1>1, <1>9 DEF WatchInv
  <2>1. \A q \in Publishers : thread[q].pc # "lock"
    BY <1>8
  <2>2. Due(w)
    BY <1>2
  <2>3. /\ Len(requests') = Len(requests) - 1
        /\ \A k \in 1..(Len(requests) - 1) :
             requests'[k] = IF k = i THEN requests[Len(requests)] ELSE requests[k]
    <3> HIDE DEF i, r
    <3>1. /\ Len(SwapRemove(requests, i)) = Len(requests) - 1
          /\ \A k \in 1..(Len(requests) - 1) :
               SwapRemove(requests, i)[k] = IF k = i THEN requests[Len(requests)] ELSE requests[k]
      BY <1>3, <1>4, SwapRemoveIs
    <3> QED
      BY <3>1 DEF i
  <2>4. j \in Nat /\ j \in 1..(Len(requests) - 1) /\ j \in 1..Len(requests)
    BY <1>3, <2>3
  <2>5. CASE j = i
    BY <1>3, <1>7, <1>8, <2>5
  <2>6. CASE j # i
    <3>1. requests[j] = w
      BY <2>3, <2>4, <2>6
    <3>2. PICK q \in Publishers : thread[q].pc = "test" /\ thread[q].i <= j
      BY <1>1, <2>1, <2>2, <2>4, <3>1 DEF WatchInv
    <3>3. q = p
      BY <1>9, <3>2
    <3> QED
      BY <1>7, <1>8, <3>2, <3>3
  <2> QED
    BY <2>5, <2>6
<1> QED
  BY <1>2, <1>11, <1>12, <1>13, <1>14 DEF TfInv

\* testTransformableRequests keeps the invariant.
LEMMA TestRequestKeeps ==
    ASSUME TfInv, NEW p \in Publishers, TestRequest(p)
    PROVE  TfInv'
<1> DEFINE i == thread[p].i
           r == requests[i]
           old == TooOld(r, r.time)
           o == IF old THEN "failure" ELSE "available"
<1>1. /\ thread[p].pc = "test" /\ i <= Len(requests)
      /\ UNCHANGED <<caches, known, sent, reqLock, adding, answers>>
  BY DEF TestRequest
<1>2. CASE old \/ CanTransformInternal(r.target, r.source, r.time)
  <2>1. /\ requests' = SwapRemove(requests, i)
        /\ thread' = [thread EXCEPT ![p].pending = Append(@, <<r, o>>)]
    BY <1>2 DEF TestRequest
  <2>2. o \in Outcomes
    BY DEF Outcomes
  <2> HIDE DEF o
  <2> QED
    BY <1>1, <2>1, <2>2, TakeKeeps
<1>3. CASE ~(old \/ CanTransformInternal(r.target, r.source, r.time))
  <2>1. thread' = [thread EXCEPT ![p].i = i + 1] /\ requests' = requests
    BY <1>3 DEF TestRequest
  <2>2. ~Due(r)
    BY <1>3 DEF Due, Ready
  <2> QED
    BY <1>1, <2>1, <2>2, TestKeeps
<1> QED
  BY <1>2, <1>3

\* A callback answers a request that waits nowhere else.
LEMMA CallBackKeeps ==
    ASSUME TfInv, NEW p \in Publishers, CallBack(p)
    PROVE  TfInv'
<1>1. /\ CacheInv /\ RequestType /\ LockInv /\ PlacesInv /\ WatchInv
      /\ thread[p].pc = "call"
      /\ UNCHANGED <<caches, known, sent, requests, reqLock, adding>>
  BY DEF TfInv, CallBack
<1>2. CacheInv' /\ \A r \in Waits : (Ready(r)' => Ready(r)) /\ (Due(r)' => Due(r))
  BY <1>1, UntouchedCaches
<1>3. /\ thread[p].i \in Nat /\ thread[p].pending \in Seq(Waits \X Outcomes)
      /\ thread[p] = [pc |-> thread[p].pc, i |-> thread[p].i, pending |-> thread[p].pending]
  BY <1>1, PartsOfThread
<1>4. ASSUME NEW x \in Threads, x.pc \in {"idle", "call"}, thread' = [thread EXCEPT ![p] = x]
      PROVE  /\ thread' \in [Publishers -> Threads] /\ thread'[p] = x
             /\ \A q \in Publishers : q # p => thread'[q] = thread[q]
             /\ LockInv' /\ WatchInv'
  <2>1. /\ thread' \in [Publishers -> Threads] /\ thread'[p] = x
        /\ \A q \in Publishers : q # p => thread'[q] = thread[q]
    BY <1>1, <1>4, ThreadMoves
  <2>2. LockInv'
    BY <1>1, <1>4, <2>1 DEF LockInv
  <2>3. \A q \in Publishers :
             /\ thread[q].pc = "lock" => thread'[q].pc = "lock"
             /\ thread[q].pc = "test" => thread'[q].pc = "test" /\ thread'[q].i = thread[q].i
    BY <1>1, <2>1
  <2>4. WatchInv'
    BY <1>1, <1>2, <2>3, WatchGoesOn
  <2> QED
    BY <2>1, <2>2, <2>4
<1>5. CASE thread[p].pending = <<>>
  <2>1. thread' = [thread EXCEPT ![p] = Idle] /\ answers' = answers
    BY <1>5 DEF CallBack
  <2>2. Idle \in Threads /\ Idle.pc \in {"idle", "call"} /\ Idle.pending = <<>>
    BY DEF Idle, Threads
  <2>3. /\ thread' \in [Publishers -> Threads] /\ thread'[p] = Idle
        /\ \A q \in Publishers : q # p => thread'[q] = thread[q]
        /\ LockInv' /\ WatchInv'
    BY <1>4, <2>1, <2>2
  <2>4. RequestType'
    BY <1>1, <2>1, <2>3 DEF RequestType
  <2>5. \A q \in Publishers : thread'[q].pending \in {thread[q].pending, <<>>}
    BY <2>2, <2>3
  <2>6. PlacesInv'
    BY <1>1, <2>1, <2>5, PlacesStay
  <2> QED
    BY <1>2, <2>3, <2>4, <2>6 DEF TfInv
<1>6. CASE thread[p].pending # <<>>
  <2> DEFINE pending == thread[p].pending
             call == pending[1]
             rest == Tail(pending)
             x == [pc |-> "call", i |-> thread[p].i, pending |-> rest]
  <2>1. /\ answers' = [answers EXCEPT ![call[1]] = Append(@, call[2])]
        /\ thread' = [thread EXCEPT ![p].pending = Tail(@)]
    BY <1>6 DEF CallBack
  <2>2. /\ rest \in Seq(Waits \X Outcomes) /\ Len(rest) = Len(pending) - 1
        /\ \A j \in 1..(Len(pending) - 1) : rest[j] = pending[j + 1]
        /\ Len(pending) \in Nat /\ 1 \in 1..Len(pending) /\ call \in Waits \X Outcomes
    BY <1>3, <1>6
  <2>3. thread' = [thread EXCEPT ![p] = x]
    <3>1. thread' = [thread EXCEPT ![p] = [thread[p] EXCEPT !.pending = rest]]
      BY <2>1
    <3> HIDE DEF rest, pending
    <3>2. [thread[p] EXCEPT !.pending = rest] = x
      BY <1>1, <1>3
    <3> QED
      BY ONLY <3>1, <3>2
  <2> HIDE DEF rest
  <2>4. x \in Threads /\ x.pc \in {"idle", "call"} /\ x.pending = rest
    BY <1>3, <2>2 DEF Threads
  <2> HIDE DEF x
  <2>5. /\ thread' \in [Publishers -> Threads] /\ thread'[p] = x
        /\ \A q \in Publishers : q # p => thread'[q] = thread[q]
        /\ LockInv' /\ WatchInv'
    BY <1>4, <2>3, <2>4
  <2>6. call[1] \in Waits /\ call[1] \in Requests /\ call[2] \in Outcomes
    BY <2>2 DEF Waits
  <2>7. answers[call[1]] = <<>>
    BY <1>1, <2>2 DEF PlacesInv
  <2> DEFINE asked == call[1]
             outcome == call[2]
  <2>8. answers' = [answers EXCEPT ![asked] = <<outcome>>]
    <3>1. answers' = [answers EXCEPT ![asked] = Append(answers[asked], outcome)]
      BY <2>1
    <3> QED
      BY <2>7, <3>1
  <2>9. asked \in Requests /\ outcome \in Outcomes
    BY <2>6
  <2>10. /\ \A q \in Requests : q # asked => answers'[q] = answers[q]
         /\ answers'[asked] = <<outcome>>
         /\ answers' \in [Requests -> Seq({"now", "never", "cancelled"} \cup Outcomes)]
    <3> HIDE DEF asked, outcome
    <3>1. answers \in [Requests -> Seq({"now", "never", "cancelled"} \cup Outcomes)]
      BY <1>1 DEF RequestType
    <3>2. <<outcome>> \in Seq({"now", "never", "cancelled"} \cup Outcomes)
      BY <2>9
    <3> QED
      BY <2>8, <2>9, <3>1, <3>2
  <2>11. RequestType'
    BY <1>1, <2>5, <2>10 DEF RequestType
  \* where a pending call was before
  <2>12. ASSUME NEW q \in Publishers, NEW j \in 1..Len(thread'[q].pending)
         PROVE  \E k \in 1..Len(thread[q].pending) :
                  /\ thread'[q].pending[j] = thread[q].pending[k]
                  /\ k = IF q = p THEN j + 1 ELSE j
                  /\ thread[q].pending[k][1] # asked
    <3>1. CASE q = p
      <4>1. thread'[q].pending = rest
        BY <2>4, <2>5, <3>1
      <4>2. j \in 1..(Len(pending) - 1) /\ j \in Nat
        BY <2>2, <4>1
      <4>3. j + 1 \in 1..Len(pending) /\ j + 1 # 1
        BY ONLY <2>2, <4>2
      <4>4. rest[j] = pending[j + 1]
        BY <2>2, <4>2
      <4>5. pending[j + 1][1] # asked
        BY <1>1, <2>2, <4>3 DEF PlacesInv
      <4> QED
        BY <3>1, <4>1, <4>3, <4>4, <4>5
    <3>2. CASE q # p
      <4>1. thread'[q].pending = thread[q].pending
        BY <2>5, <3>2
      <4>2. thread[q].pending[j][1] # asked
        BY <1>1, <2>2, <3>2, <4>1 DEF PlacesInv
      <4> QED
        BY <3>2, <4>1, <4>2
    <3> QED
      BY <3>1, <3>2
  <2>13. ASSUME NEW j \in 1..Len(requests) PROVE requests[j] # asked /\ requests[j] \in Requests
    <3>1. requests[j] # asked
      BY <1>1, <2>2 DEF PlacesInv
    <3>2. requests[j] \in Waits
      BY <1>1 DEF RequestType
    <3> QED
      BY <3>1, <3>2 DEF Waits
  <2>20. asked = thread[p].pending[1][1] /\ 1 \in 1..Len(thread[p].pending)
    BY <2>2
  <2> HIDE DEF asked, outcome, call, pending
  <2>21. /\ \A q, s \in Publishers : \A i \in 1..Len(thread[q].pending), j \in 1..Len(thread[s].pending) :
              thread[q].pending[i][1] = thread[s].pending[j][1] => q = s /\ i = j
         /\ \A i \in 1..Len(requests), q \in Publishers : \A j \in 1..Len(thread[q].pending) :
              requests[i] # thread[q].pending[j][1]
         /\ \A q \in Publishers : \A j \in 1..Len(thread[q].pending) :
              answers[thread[q].pending[j][1]] = <<>>
    BY <1>1 DEF PlacesInv
  <2>14. PlacesInv'
    <3>1. \A i, j \in 1..Len(requests) : requests[i] = requests[j] => i = j
      BY <1>1 DEF PlacesInv
    <3>2. ASSUME NEW q \in Publishers, NEW s \in Publishers,
                 NEW i \in 1..Len(thread'[q].pending), NEW j \in 1..Len(thread'[s].pending),
                 thread'[q].pending[i][1] = thread'[s].pending[j][1]
          PROVE  q = s /\ i = j
      <4>1. PICK k \in 1..Len(thread[q].pending) :
              /\ thread'[q].pending[i] = thread[q].pending[k] /\ k = IF q = p THEN i + 1 ELSE i
        BY <2>12
      <4>2. PICK h \in 1..Len(thread[s].pending) :
              /\ thread'[s].pending[j] = thread[s].pending[h] /\ h = IF s = p THEN j + 1 ELSE j
        BY <2>12
      <4>3. thread[q].pending[k][1] = thread[s].pending[h][1]
        BY <3>2, <4>1, <4>2
      <4>4. q = s /\ k = h
        BY ONLY <2>21, <4>3, q \in Publishers, s \in Publishers,
                k \in 1..Len(thread[q].pending), h \in 1..Len(thread[s].pending)
      <4>5. i \in Int /\ j \in Int
        OBVIOUS
      <4> QED
        BY ONLY <4>1, <4>2, <4>4, <4>5
    <3>3. ASSUME NEW i \in 1..Len(requests), NEW q \in Publishers,
                 NEW j \in 1..Len(thread'[q].pending)
          PROVE  requests[i] # thread'[q].pending[j][1]
      <4>1. PICK k \in 1..Len(thread[q].pending) : thread'[q].pending[j] = thread[q].pending[k]
        BY <2>12
      <4> QED
        BY <2>21, <4>1
    <3>4. \A i \in 1..Len(requests) : answers'[requests[i]] = <<>>
      BY <1>1, <2>10, <2>13 DEF PlacesInv
    <3>5. ASSUME NEW q \in Publishers, NEW j \in 1..Len(thread'[q].pending)
          PROVE  answers'[thread'[q].pending[j][1]] = <<>>
      <4>1. PICK k \in 1..Len(thread[q].pending) :
              thread'[q].pending[j] = thread[q].pending[k] /\ thread[q].pending[k][1] # asked
        BY <2>12
      <4>2. thread[q].pending[k] \in Waits \X Outcomes
        <5>1. thread[q].pending \in Seq(Waits \X Outcomes)
          BY <1>1, PartsOfThread
        <5> QED
          BY ONLY <5>1, k \in 1..Len(thread[q].pending)
      <4>3. thread[q].pending[k][1] \in Requests
        BY <4>2 DEF Waits
      <4>4. answers[thread[q].pending[k][1]] = <<>>
        BY <2>21
      <4> QED
        BY <2>10, <4>1, <4>3, <4>4
    <3>6. adding.pc # "idle" =>
         /\ answers'[adding.r] = <<>>
         /\ \A i \in 1..Len(requests) : requests[i] # adding.r
         /\ \A q \in Publishers : \A j \in 1..Len(thread'[q].pending) :
              thread'[q].pending[j][1] # adding.r
      <4> SUFFICES ASSUME adding.pc # "idle"
                   PROVE  /\ answers'[adding.r] = <<>>
                          /\ \A i \in 1..Len(requests) : requests[i] # adding.r
                          /\ \A q \in Publishers : \A j \in 1..Len(thread'[q].pending) :
                               thread'[q].pending[j][1] # adding.r
        OBVIOUS
      <4>1. /\ answers[adding.r] = <<>>
            /\ \A i \in 1..Len(requests) : requests[i] # adding.r
            /\ \A q \in Publishers : \A j \in 1..Len(thread[q].pending) :
                 thread[q].pending[j][1] # adding.r
        BY <1>1 DEF PlacesInv
      <4>2. adding.r \in Requests
        BY <1>1 DEF RequestType, NoCall, Waits
      <4>3. adding.r # asked
        BY <2>20, <4>1
      <4>4. answers'[adding.r] = <<>>
        BY <2>10, <4>1, <4>2, <4>3
      <4>5. ASSUME NEW q \in Publishers, NEW j \in 1..Len(thread'[q].pending)
            PROVE  thread'[q].pending[j][1] # adding.r
        <5>1. PICK k \in 1..Len(thread[q].pending) : thread'[q].pending[j] = thread[q].pending[k]
          BY <2>12
        <5> QED
          BY <4>1, <5>1
      <4> QED
        BY <4>1, <4>4, <4>5
    <3>7. ASSUME NEW q \in Requests PROVE Len(answers'[q]) <= 1
      <4>1. Len(<<outcome>>) = 1
        OBVIOUS
      <4>2. \A r \in Requests : Len(answers[r]) <= 1
        BY <1>1 DEF PlacesInv
      <4>3. CASE q = asked
        <5>1. answers'[q] = <<outcome>>
          BY <2>10, <4>3
        <5>2. Len(answers'[q]) = 1
          BY ONLY <4>1, <5>1
        <5> QED
          BY ONLY <5>2
      <4>4. CASE q # asked
        BY <2>10, <4>2, <4>4
      <4> QED
        BY <4>3, <4>4
    <3> QED
      BY <1>1, <3>1, <3>2, <3>3, <3>4, <3>5, <3>6, <3>7 DEF PlacesInv
  <2> QED
    BY <1>2, <2>5, <2>11, <2>14 DEF TfInv
<1> QED
  BY <1>5, <1>6

\* The maker of a request is told something.
LEMMA AnswerGiven ==
    ASSUME RequestType, PlacesInv, NEW r \in Requests,
           NEW v \in {"now", "never", "cancelled"} \cup Outcomes,
           answers' = [answers EXCEPT ![r] = <<v>>]
    PROVE  /\ answers' \in [Requests -> Seq({"now", "never", "cancelled"} \cup Outcomes)]
           /\ answers'[r] = <<v>>
           /\ \A q \in Requests : q # r => answers'[q] = answers[q]
           /\ \A q \in Requests : Len(answers'[q]) <= 1
<1>1. answers \in [Requests -> Seq({"now", "never", "cancelled"} \cup Outcomes)]
  BY DEF RequestType
<1>2. <<v>> \in Seq({"now", "never", "cancelled"} \cup Outcomes) /\ Len(<<v>>) = 1
  OBVIOUS
<1>3. /\ answers' \in [Requests -> Seq({"now", "never", "cancelled"} \cup Outcomes)]
      /\ answers'[r] = <<v>>
      /\ \A q \in Requests : q # r => answers'[q] = answers[q]
  BY <1>1, <1>2
<1>4. ASSUME NEW q \in Requests PROVE Len(answers'[q]) <= 1
  <2>1. CASE q = r
    <3>1. Len(answers'[q]) = 1
      BY <1>2, <1>3, <2>1
    <3> QED
      BY ONLY <3>1
  <2>2. CASE q # r
    BY <1>3, <2>2 DEF PlacesInv
  <2> QED
    BY <2>1, <2>2
<1> QED
  BY <1>3, <1>4

\* A request that is nowhere else is answered, and nothing else changes places.
LEMMA AnsweredAside ==
    ASSUME RequestType, PlacesInv, NEW r \in Requests,
           NEW v \in {"now", "never", "cancelled"} \cup Outcomes,
           answers' = [answers EXCEPT ![r] = <<v>>],
           \A i \in 1..Len(requests) : requests[i] # r,
           \A p \in Publishers : \A j \in 1..Len(thread[p].pending) : thread[p].pending[j][1] # r,
           requests' = requests, thread' = thread, adding' = NoCall
    PROVE  PlacesInv'
<1>1. /\ answers'[r] = <<v>>
      /\ \A q \in Requests : q # r => answers'[q] = answers[q]
      /\ \A q \in Requests : Len(answers'[q]) <= 1
  BY AnswerGiven
<1>2. ASSUME NEW i \in 1..Len(requests) PROVE answers'[requests[i]] = <<>>
  <2>1. requests[i] \in Requests
    BY DEF RequestType, Waits
  <2>2. answers[requests[i]] = <<>>
    BY DEF PlacesInv
  <2> QED
    BY <1>1, <2>1, <2>2
<1>3. ASSUME NEW p \in Publishers, NEW j \in 1..Len(thread[p].pending)
      PROVE  answers'[thread[p].pending[j][1]] = <<>>
  <2>1. thread[p].pending \in Seq(Waits \X Outcomes)
    BY PartsOfThread
  <2>2. thread[p].pending[j] \in Waits \X Outcomes
    BY ONLY <2>1, j \in 1..Len(thread[p].pending)
  <2>3. thread[p].pending[j][1] \in Requests
    BY <2>2 DEF Waits
  <2>4. answers[thread[p].pending[j][1]] = <<>>
    BY DEF PlacesInv
  <2> QED
    BY <1>1, <2>3, <2>4
<1>4. adding'.pc = "idle"
  BY DEF NoCall
<1> QED
  BY <1>1, <1>2, <1>3, <1>4 DEF PlacesInv

\* addTransformableRequest takes the mutex of the requests, unless there is nothing to wait for.
LEMMA AddTransformableRequestKeeps ==
    ASSUME TfInv, NEW r \in Requests, AddTransformableRequest(r)
    PROVE  TfInv'
<1>1. /\ CacheInv /\ RequestType /\ LockInv /\ PlacesInv /\ WatchInv
      /\ adding = NoCall /\ reqLock = Free /\ answers[r] = <<>>
      /\ \A i \in 1..Len(requests) : requests[i] # r
      /\ \A p \in Publishers : \A i \in 1..Len(thread[p].pending) : thread[p].pending[i][1] # r
      /\ UNCHANGED <<caches, known, sent, requests, thread>>
  BY DEF TfInv, AddTransformableRequest
<1>2. CacheInv' /\ \A q \in Waits : (Ready(q)' => Ready(q)) /\ (Due(q)' => Due(q))
  BY <1>1, UntouchedCaches
<1>3. NoCall.pc = "idle"
  BY DEF NoCall
<1>4. \A p \in Publishers : thread[p].pc # "test" /\ p # "add"
  BY <1>1, LockIsHeld
<1>5. CASE r.target = r.source
  <2>1. answers' = [answers EXCEPT ![r] = <<"now">>] /\ UNCHANGED <<reqLock, adding>>
    BY <1>5 DEF AddTransformableRequest
  <2>2. "now" \in {"now", "never", "cancelled"} \cup Outcomes
    OBVIOUS
  <2>3. PlacesInv'
    BY <1>1, <2>1, <2>2, AnsweredAside
  <2>4. RequestType'
    <3>1. answers' \in [Requests -> Seq({"now", "never", "cancelled"} \cup Outcomes)]
      BY <1>1, <2>1, <2>2, AnswerGiven
    <3> QED
      BY <1>1, <2>1, <3>1 DEF RequestType
  <2>5. LockInv'
    BY <1>1, <2>1 DEF LockInv
  <2>6. WatchInv'
    BY <1>1, <1>2, <2>1, WatchGoesOn
  <2> QED
    BY <1>2, <2>3, <2>4, <2>5, <2>6 DEF TfInv
<1>6. CASE r.target # r.source
  <2>1. reqLock' = "add" /\ adding' = [pc |-> "check", r |-> r] /\ answers' = answers
    BY <1>6 DEF AddTransformableRequest
  <2>2. adding'.pc = "check" /\ adding'.r = r /\ r \in Waits
    BY <1>6, <2>1 DEF Waits
  <2>3. RequestType'
    BY <1>1, <2>1, <2>2 DEF RequestType
  <2>4. LockInv'
    BY <1>1, <1>3, <1>4, <2>1, <2>2 DEF LockInv
  <2>5. PlacesInv'
    BY <1>1, <2>1, <2>2 DEF PlacesInv
  <2>6. WatchInv'
    BY <1>1, <1>2, <2>1, <2>2, WatchGoesOn
  <2> QED
    BY <1>2, <2>3, <2>4, <2>5, <2>6 DEF TfInv
<1> QED
  BY <1>5, <1>6

\* The request that is being added is nowhere else.
LEMMA AddedIsAlone ==
    ASSUME RequestType, LockInv, PlacesInv, adding.pc # "idle"
    PROVE  /\ adding.r \in Waits /\ adding.r \in Requests
           /\ adding = [pc |-> adding.pc, r |-> adding.r]
           /\ answers[adding.r] = <<>>
           /\ \A i \in 1..Len(requests) : requests[i] # adding.r
           /\ \A p \in Publishers : \A j \in 1..Len(thread[p].pending) : thread[p].pending[j][1] # adding.r
           /\ reqLock = "add" /\ \A p \in Publishers : thread[p].pc # "test" /\ p # "add" /\ p # Free
<1>1. adding \in [pc : {"check", "push"}, r : Waits]
  BY DEF RequestType, NoCall
<1>2. reqLock = "add"
  BY DEF LockInv
<1> QED
  BY <1>1, <1>2, LockIsHeld DEF PlacesInv, Waits

\* A request is answered at once, or found to have to wait.
LEMMA CheckRequestKeeps ==
    ASSUME TfInv, CheckRequest
    PROVE  TfInv'
<1> DEFINE r == adding.r
<1>1. /\ CacheInv /\ RequestType /\ LockInv /\ PlacesInv /\ WatchInv
      /\ adding.pc = "check"
      /\ UNCHANGED <<caches, known, sent, requests, thread>>
  BY DEF TfInv, CheckRequest
<1>2. CacheInv' /\ \A q \in Waits : (Ready(q)' => Ready(q)) /\ (Due(q)' => Due(q))
  BY <1>1, UntouchedCaches
<1>3. /\ r \in Waits /\ r \in Requests
      /\ adding = [pc |-> adding.pc, r |-> r]
      /\ \A i \in 1..Len(requests) : requests[i] # r
      /\ \A p \in Publishers : \A j \in 1..Len(thread[p].pending) : thread[p].pending[j][1] # r
      /\ reqLock = "add" /\ \A p \in Publishers : thread[p].pc # "test" /\ p # "add" /\ p # Free
  BY <1>1, AddedIsAlone
<1>4. NoCall.pc = "idle" /\ Free # "add"
  BY DEF NoCall, Free
<1>5. CASE CanTransformInternal(r.target, r.source, r.time)
  <2>1. answers' = [answers EXCEPT ![r] = <<"now">>] /\ reqLock' = Free /\ adding' = NoCall
    BY <1>5 DEF CheckRequest
  <2>2. PICK q \in Requests : q = r
    BY <1>3
  <2> HIDE DEF r
  <2>3. "now" \in {"now", "never", "cancelled"} \cup Outcomes
    OBVIOUS
  <2>4. PlacesInv'
    BY <1>1, <1>3, <2>1, <2>2, <2>3, AnsweredAside
  <2>5. RequestType'
    <3>1. answers' \in [Requests -> Seq({"now", "never", "cancelled"} \cup Outcomes)]
      BY <1>1, <2>1, <2>2, <2>3, AnswerGiven
    <3> QED
      BY <1>1, <2>1, <3>1 DEF RequestType
  <2>6. LockInv'
    BY <1>1, <1>3, <1>4, <2>1 DEF LockInv
  <2>7. WatchInv'
    BY <1>1, <1>2, <1>4, <2>1, WatchGoesOn
  <2> QED
    BY <1>2, <2>4, <2>5, <2>6, <2>7 DEF TfInv
<1>6. CASE ~CanTransformInternal(r.target, r.source, r.time)
  <2>1. adding' = [adding EXCEPT !.pc = "push"] /\ UNCHANGED <<answers, reqLock>>
    BY <1>6 DEF CheckRequest
  <2>2. adding' = [pc |-> "push", r |-> r]
    <3> HIDE DEF r
    <3> QED
      BY ONLY <1>3, <2>1
  <2>3. adding'.pc = "push" /\ adding'.r = r
    BY <2>2
  <2>4. RequestType'
    BY <1>1, <1>3, <2>1, <2>2 DEF RequestType
  <2>5. LockInv'
    BY <1>1, <2>1, <2>3 DEF LockInv
  <2>6. PlacesInv'
    <3>1. \A q \in Publishers : thread'[q].pending \in {thread[q].pending, <<>>}
      BY <1>1
    <3> QED
      BY <1>1, <2>1, <2>3, <3>1, PlacesStay
  <2>7. ~Ready(r)
    BY <1>6 DEF Ready
  <2>8. WatchInv'
    <3> SUFFICES ASSUME \A p \in Publishers : thread'[p].pc # "lock", NEW w \in Waits
                 PROVE  /\ Due(w)' => \A i \in 1..Len(requests') : requests'[i] = w =>
                                \E p \in Publishers : thread'[p].pc = "test" /\ thread'[p].i <= i
                        /\ (adding'.pc = "push" /\ adding'.r = w) => ~Ready(w)'
      BY DEF WatchInv
    <3>1. adding'.r = w => ~Ready(w)'
      <4> SUFFICES ASSUME adding'.r = w PROVE ~Ready(w)'
        OBVIOUS
      <4>1. w = r
        BY <2>3
      <4> HIDE DEF r
      <4>2. ~Ready(w)
        BY <2>7, <4>1
      <4> QED
        BY <1>2, <4>2
    <3>2. Due(w)' => \A i \in 1..Len(requests) : requests[i] = w =>
                       \E p \in Publishers : thread[p].pc = "test" /\ thread[p].i <= i
      BY <1>1, <1>2 DEF WatchInv
    <3> QED
      BY <1>1, <3>1, <3>2
  <2> QED
    BY <1>2, <2>4, <2>5, <2>6, <2>8 DEF TfInv
<1> QED
  BY <1>5, <1>6

\* The request is put into the list, or given up.
LEMMA PushRequestKeeps ==
    ASSUME TfInv, PushRequest
    PROVE  TfInv'
<1> DEFINE r == adding.r
<1>1. /\ CacheInv /\ RequestType /\ LockInv /\ PlacesInv /\ WatchInv
      /\ adding.pc = "push" /\ reqLock' = Free /\ adding' = NoCall
      /\ UNCHANGED <<caches, known, sent, thread>>
  BY DEF TfInv, PushRequest
<1>2. CacheInv' /\ \A q \in Waits : (Ready(q)' => Ready(q)) /\ (Due(q)' => Due(q))
  BY <1>1, UntouchedCaches
<1>3. /\ r \in Waits /\ r \in Requests
      /\ answers[r] = <<>>
      /\ \A i \in 1..Len(requests) : requests[i] # r
      /\ \A p \in Publishers : \A j \in 1..Len(thread[p].pending) : thread[p].pending[j][1] # r
      /\ reqLock = "add" /\ \A p \in Publishers : thread[p].pc # "test" /\ p # "add" /\ p # Free
  BY <1>1, AddedIsAlone
<1>4. NoCall.pc = "idle" /\ Free # "add"
  BY DEF NoCall, Free
<1>5. CASE TooOld(r, r.time)
  <2>1. answers' = [answers EXCEPT ![r] = <<"never">>] /\ requests' = requests
    BY <1>5 DEF PushRequest
  <2>2. PICK q \in Requests : q = r
    BY <1>3
  <2> HIDE DEF r
  <2>3. "never" \in {"now", "never", "cancelled"} \cup Outcomes
    OBVIOUS
  <2>4. PlacesInv'
    BY <1>1, <1>3, <2>1, <2>2, <2>3, AnsweredAside
  <2>5. RequestType'
    <3>1. answers' \in [Requests -> Seq({"now", "never", "cancelled"} \cup Outcomes)]
      BY <1>1, <2>1, <2>2, <2>3, AnswerGiven
    <3> QED
      BY <1>1, <2>1, <3>1 DEF RequestType
  <2>6. LockInv'
    BY <1>1, <1>3, <1>4 DEF LockInv
  <2>7. WatchInv'
    BY <1>1, <1>2, <1>4, <2>1, WatchGoesOn
  <2> QED
    BY <1>2, <2>4, <2>5, <2>6, <2>7 DEF TfInv
<1>6. CASE ~TooOld(r, r.time)
  <2>1. requests' = Append(requests, r) /\ answers' = answers
    BY <1>6 DEF PushRequest
  <2> HIDE DEF r
  <2>2. /\ requests' \in Seq(Waits) /\ Len(requests') = Len(requests) + 1
        /\ \A i \in 1..Len(requests) : requests'[i] = requests[i]
        /\ requests'[Len(requests')] = r
        /\ Len(requests) \in Nat
    <3>1. requests \in Seq(Waits)
      BY <1>1 DEF RequestType
    <3> QED
      BY ONLY <1>3, <2>1, <3>1
  <2>3. ASSUME NEW i \in 1..Len(requests')
        PROVE  \/ i = Len(requests') /\ requests'[i] = r
               \/ i \in 1..Len(requests) /\ requests'[i] = requests[i] /\ requests'[i] # r
    <3>1. CASE i = Len(requests')
      BY <2>2, <3>1
    <3>2. CASE i # Len(requests')
      <4>1. i \in 1..Len(requests)
        BY ONLY <2>2, <3>2, i \in 1..Len(requests')
      <4> QED
        BY <1>3, <2>2, <4>1
    <3> QED
      BY <3>1, <3>2
  <2>4. RequestType'
    BY <1>1, <2>1, <2>2 DEF RequestType
  <2>5. LockInv'
    BY <1>1, <1>3, <1>4 DEF LockInv
  <2>6. PlacesInv'
    <3>1. ASSUME NEW i \in 1..Len(requests'), NEW j \in 1..Len(requests'), requests'[i] = requests'[j]
          PROVE  i = j
      <4>1. CASE i = Len(requests') /\ requests'[i] = r
        BY <2>3, <3>1, <4>1
      <4>2. CASE i \in 1..Len(requests) /\ requests'[i] = requests[i] /\ requests'[i] # r
        <5>1. j \in 1..Len(requests) /\ requests'[j] = requests[j]
          BY <2>3, <3>1, <4>2
        <5> QED
          BY <1>1, <3>1, <4>2, <5>1 DEF PlacesInv
      <4> QED
        BY <2>3, <4>1, <4>2
    <3>2. ASSUME NEW i \in 1..Len(requests'), NEW p \in Publishers, NEW j \in 1..Len(thread[p].pending)
          PROVE  requests'[i] # thread[p].pending[j][1]
      <4>1. CASE requests'[i] = r
        BY <1>3, <4>1
      <4>2. CASE i \in 1..Len(requests) /\ requests'[i] = requests[i]
        BY <1>1, <4>2 DEF PlacesInv
      <4> QED
        BY <2>3, <4>1, <4>2
    <3>3. ASSUME NEW i \in 1..Len(requests') PROVE answers[requests'[i]] = <<>>
      <4>1. CASE requests'[i] = r
        BY <1>3, <4>1
      <4>2. CASE i \in 1..Len(requests) /\ requests'[i] = requests[i]
        BY <1>1, <4>2 DEF PlacesInv
      <4> QED
        BY <2>3, <4>1, <4>2
    <3>4. adding'.pc = "idle"
      BY <1>1, <1>4
    <3> QED
      BY <1>1, <2>1, <3>1, <3>2, <3>3, <3>4 DEF PlacesInv
  <2>7. WatchInv'
    <3> SUFFICES ASSUME \A p \in Publishers : thread'[p].pc # "lock", NEW w \in Waits, Due(w)',
                        NEW i \in 1..Len(requests'), requests'[i] = w
                 PROVE  FALSE
      BY <1>1, <1>4 DEF WatchInv
    <3>1. Due(w) /\ \A p \in Publishers : thread[p].pc # "lock"
      BY <1>1, <1>2
    <3>2. CASE requests'[i] = r
      <4>1. w = r
        BY <3>2
      <4>2. ~Ready(w)
        BY <1>1, <3>1, <4>1 DEF WatchInv, r
      <4>3. ~TooOld(w, w.time)
        BY <1>6, <4>1
      <4> QED
        BY <3>1, <4>2, <4>3 DEF Due
    <3>3. CASE i \in 1..Len(requests) /\ requests'[i] = requests[i]
      <4>1. PICK p \in Publishers : thread[p].pc = "test"
        BY <1>1, <3>1, <3>3 DEF WatchInv
      <4> QED
        BY <1>3, <4>1
    <3> QED
      BY <2>3, <3>2, <3>3
  <2> QED
    BY <1>2, <2>4, <2>5, <2>6, <2>7 DEF TfInv
<1> QED
  BY <1>5, <1>6

\* A cancelled request leaves the list.
LEMMA CancelKeeps ==
    ASSUME TfInv, NEW r \in Requests, CancelTransformableRequest(r)
    PROVE  TfInv'
<1>1. /\ CacheInv /\ RequestType /\ LockInv /\ PlacesInv /\ WatchInv
      /\ reqLock = Free
      /\ answers' = [answers EXCEPT ![r] = <<"cancelled">>]
      /\ UNCHANGED <<caches, known, sent, reqLock, thread, adding>>
  BY DEF TfInv, CancelTransformableRequest
<1>2. CacheInv' /\ \A q \in Waits : (Ready(q)' => Ready(q)) /\ (Due(q)' => Due(q))
  BY <1>1, UntouchedCaches
<1>3. PICK i \in 1..Len(requests) :
        /\ requests[i] = r
        /\ requests' = SubSeq(requests, 1, i - 1) \o SubSeq(requests, i + 1, Len(requests))
  BY DEF CancelTransformableRequest
<1>4. adding.pc = "idle" /\ \A p \in Publishers : thread[p].pc # "test"
  BY <1>1, LockIsHeld
<1>5. IsWithout(requests', requests, i)
  <2>1. requests \in Seq(Waits)
    BY <1>1 DEF RequestType
  <2>2. \A j, k \in 1..Len(requests) : requests[j] = requests[k] => j = k
    BY <1>1 DEF PlacesInv
  <2> QED
    BY <1>3, <2>1, <2>2, TakingOut
<1>6. /\ requests' \in Seq(Waits)
      /\ \A j \in 1..Len(requests') : \E k \in 1..Len(requests) : k # i /\ requests'[j] = requests[k]
      /\ \A j, k \in 1..Len(requests') : requests'[j] = requests'[k] => j = k
  BY <1>5 DEF IsWithout
<1>7. /\ answers' \in [Requests -> Seq({"now", "never", "cancelled"} \cup Outcomes)]
      /\ \A q \in Requests : q # r => answers'[q] = answers[q]
      /\ \A q \in Requests : Len(answers'[q]) <= 1
  <2>1. "cancelled" \in {"now", "never", "cancelled"} \cup Outcomes
    OBVIOUS
  <2> QED
    BY <1>1, <2>1, AnswerGiven
<1>8. RequestType'
  BY <1>1, <1>6, <1>7 DEF RequestType
<1>9. LockInv'
  BY <1>1 DEF LockInv
<1>10. PlacesInv'
  <2>1. ASSUME NEW j \in 1..Len(requests')
        PROVE  \E k \in 1..Len(requests) :
                 requests'[j] = requests[k] /\ requests[k] # r /\ requests[k] \in Requests
    <3>1. PICK k \in 1..Len(requests) : k # i /\ requests'[j] = requests[k]
      BY <1>6
    <3>2. requests[k] # r
      BY <1>1, <1>3, <3>1 DEF PlacesInv
    <3>3. requests[k] \in Requests
      BY <1>1 DEF RequestType, Waits
    <3> QED
      BY <3>1, <3>2, <3>3
  <2>2. ASSUME NEW j \in 1..Len(requests')
        PROVE  /\ answers'[requests'[j]] = <<>>
               /\ \A p \in Publishers : \A h \in 1..Len(thread[p].pending) :
                    requests'[j] # thread[p].pending[h][1]
    <3>1. PICK k \in 1..Len(requests) :
            requests'[j] = requests[k] /\ requests[k] # r /\ requests[k] \in Requests
      BY <2>1
    <3>2. answers[requests[k]] = <<>>
      BY <1>1 DEF PlacesInv
    <3>3. answers'[requests'[j]] = <<>>
      BY <1>7, <3>1, <3>2
    <3> QED
      BY <1>1, <3>1, <3>3 DEF PlacesInv
  <2>3. ASSUME NEW p \in Publishers, NEW j \in 1..Len(thread[p].pending)
        PROVE  answers'[thread[p].pending[j][1]] = <<>>
    <3>1. thread[p].pending \in Seq(Waits \X Outcomes)
      BY <1>1, PartsOfThread
    <3>2. thread[p].pending[j] \in Waits \X Outcomes
      BY ONLY <3>1, j \in 1..Len(thread[p].pending)
    <3>3. thread[p].pending[j][1] \in Requests
      BY <3>2 DEF Waits
    <3>4. answers[thread[p].pending[j][1]] = <<>>
      BY <1>1 DEF PlacesInv
    <3>5. requests[i] # thread[p].pending[j][1]
      BY <1>1 DEF PlacesInv
    <3> QED
      BY <1>3, <1>7, <3>3, <3>4, <3>5
  <2> QED
    BY <1>1, <1>4, <1>6, <1>7, <2>2, <2>3 DEF PlacesInv
<1>11. WatchInv'
  <2> SUFFICES ASSUME \A p \in Publishers : thread'[p].pc # "lock", NEW w \in Waits, Due(w)',
                      NEW j \in 1..Len(requests'), requests'[j] = w
               PROVE  FALSE
    BY <1>1, <1>4 DEF WatchInv
  <2>1. Due(w) /\ \A p \in Publishers : thread[p].pc # "lock"
    BY <1>1, <1>2
  <2>2. PICK k \in 1..Len(requests) : requests'[j] = requests[k]
    BY <1>6
  <2>3. PICK p \in Publishers : thread[p].pc = "test"
    BY <1>1, <2>1, <2>2 DEF WatchInv
  <2> QED
    BY <1>4, <2>3
<1> QED
  BY <1>2, <1>8, <1>9, <1>10, <1>11 DEF TfInv

\* The initial states satisfy the invariant.
LEMMA TfInitInv ==
    TfInit => TfInv
<1> SUFFICES ASSUME TfInit PROVE TfInv
  OBVIOUS
<1>1. /\ caches = [f \in Frames |-> NoCache] /\ known = {} /\ requests = <<>> /\ reqLock = Free
      /\ thread = [p \in Publishers |-> Idle] /\ adding = NoCall
      /\ answers = [r \in Requests |-> <<>>]
  BY DEF TfInit
<1>2. CacheInv
  <2>1. NoCache \in Caches /\ NoCache.kind = "none"
    BY DEF Caches, NoCache
  <2>2. \A f \in Frames : caches[f] = NoCache
    BY <1>1
  <2>3. caches \in [Frames -> Caches]
    BY <1>1, <2>1
  <2>4. ASSUME NEW f \in Frames PROVE CacheIsSound(f, caches[f], known)
    BY <2>1, <2>2 DEF CacheIsSound
  <2> QED
    BY <1>1, <2>3, <2>4 DEF CacheInv
<1>3. Idle \in Threads /\ Idle.pc = "idle" /\ Idle.pending = <<>>
  BY DEF Idle, Threads
<1>4. NoCall.pc = "idle"
  BY DEF NoCall
<1>5. Len(<<>>) = 0 /\ 1..0 = {}
  OBVIOUS
<1>6. \A p \in Publishers : p # "free" /\ p # "add"
  BY TfAssumption
<1>7. RequestType
  BY <1>1, <1>3 DEF RequestType
<1>8. LockInv
  BY <1>1, <1>3, <1>4, <1>6 DEF LockInv, Free
<1>9. PlacesInv
  <2>1. /\ \A p \in Publishers : 1..Len(thread[p].pending) = {}
        /\ 1..Len(requests) = {} /\ adding.pc = "idle"
    BY <1>1, <1>3, <1>4, <1>5
  <2>2. \A r \in Requests : Len(answers[r]) <= 1
    BY <1>1, <1>5
  <2> QED
    BY <2>1, <2>2 DEF PlacesInv
<1>10. WatchInv
  BY <1>1, <1>4, <1>5 DEF WatchInv
<1> QED
  BY <1>2, <1>7, <1>8, <1>9, <1>10 DEF TfInv

\* Every step keeps the invariant.
LEMMA TfStep ==
    TfInv /\ [TfNext]_tfVars => TfInv'
<1> SUFFICES ASSUME TfInv, [TfNext]_tfVars PROVE TfInv'
  OBVIOUS
<1>1. ASSUME NEW p \in Publishers, NEW m \in Messages, SetTransform(p, m) PROVE TfInv'
  BY <1>1, SetTransformKeeps
<1>2. ASSUME NEW p \in Publishers, LockRequests(p) PROVE TfInv'
  BY <1>2, LockRequestsKeeps
<1>3. ASSUME NEW p \in Publishers, TestRequest(p) PROVE TfInv'
  BY <1>3, TestRequestKeeps
<1>4. ASSUME NEW p \in Publishers, EndTest(p) PROVE TfInv'
  BY <1>4, EndTestKeeps
<1>5. ASSUME NEW p \in Publishers, CallBack(p) PROVE TfInv'
  BY <1>5, CallBackKeeps
<1>6. ASSUME NEW r \in Requests, AddTransformableRequest(r) PROVE TfInv'
  BY <1>6, AddTransformableRequestKeeps
<1>7. ASSUME NEW r \in Requests, CancelTransformableRequest(r) PROVE TfInv'
  BY <1>7, CancelKeeps
<1>8. CASE CheckRequest
  BY <1>8, CheckRequestKeeps
<1>9. CASE PushRequest
  BY <1>9, PushRequestKeeps
<1>10. CASE Clear
  BY <1>10, ClearKeeps
<1>11. CASE UNCHANGED tfVars
  <2>1. UNCHANGED <<caches, known, sent, requests, reqLock, thread, adding, answers>>
    BY <1>11 DEF tfVars
  <2>2. CacheInv /\ RequestType /\ LockInv /\ PlacesInv /\ WatchInv
    BY DEF TfInv
  <2>3. CacheInv' /\ \A q \in Waits : (Ready(q)' => Ready(q)) /\ (Due(q)' => Due(q))
    BY <2>1, <2>2, UntouchedCaches
  <2>4. RequestType' /\ LockInv'
    BY <2>1, <2>2 DEF RequestType, LockInv
  <2>5. PlacesInv'
    BY <2>1, <2>2, PlacesStay
  <2>6. WatchInv'
    BY <2>1, <2>2, <2>3, WatchGoesOn
  <2> QED
    BY <2>3, <2>4, <2>5, <2>6 DEF TfInv
<1> QED
  BY <1>1, <1>2, <1>3, <1>4, <1>5, <1>6, <1>7, <1>8, <1>9, <1>10, <1>11 DEF TfNext

\* In a state with the invariant, waiting and asking agree with the data.
LEMMA TfInvIsSound ==
    TfInv => TfIsSound
<1> SUFFICES ASSUME TfInv PROVE TfIsSound
  OBVIOUS
<1>1. CacheInv /\ RequestType /\ LockInv /\ PlacesInv /\ WatchInv
  BY DEF TfInv
<1>2. NoRequestIsForgotten
  <2> SUFFICES ASSUME reqLock = Free, \A p \in Publishers : thread[p].pc \in {"idle", "call"},
                      NEW i \in 1..Len(requests)
               PROVE  /\ ~CanTransformInternal(requests[i].target, requests[i].source, requests[i].time)
                      /\ ~TooOld(requests[i], requests[i].time)
    BY DEF NoRequestIsForgotten
  <2>1. requests[i] \in Waits
    BY <1>1 DEF RequestType
  <2>2. \A p \in Publishers : thread[p].pc # "lock" /\ thread[p].pc # "test"
    OBVIOUS
  <2>3. ~Due(requests[i])
    BY <1>1, <2>1, <2>2 DEF WatchInv
  <2> QED
    BY <2>3 DEF Due, Ready
<1>3. AnsweredOnce
  <2> SUFFICES ASSUME NEW r \in Requests
               PROVE  /\ Len(answers[r]) < MaxAnswers
                      /\ answers[r] # <<>> => \A i \in 1..Len(requests) : requests[i] # r
    BY DEF AnsweredOnce
  <2>1. Len(answers[r]) <= 1
    BY <1>1 DEF PlacesInv
  <2>2. Len(answers[r]) \in Nat
    BY <1>1 DEF RequestType
  <2>3. Len(answers[r]) < MaxAnswers
    BY ONLY <2>1, <2>2 DEF MaxAnswers
  <2>4. answers[r] # <<>> => \A i \in 1..Len(requests) : requests[i] # r
    BY <1>1 DEF PlacesInv
  <2> QED
    BY <2>3, <2>4
<1>4. LookupsCompose
  BY <1>1, LookupsAgree
<1> QED
  BY <1>2, <1>3, <1>4 DEF TfIsSound

\* Waiting for a transform and asking for one agree with the data, for every
\* set of frames, transforms, requests and publishers: no request that can be
\* answered or given up is left behind by the two mutexes, nobody is answered
\* twice, and lookups compose (setTransform, testTransformableRequests,
\* addTransformableRequest, lookupTransform, canTransform).
THEOREM RequestsAreServed ==
    TfSpec => []TfIsSound
<1>1. TfInit => TfInv
  BY TfInitInv
<1>2. TfInv /\ [TfNext]_tfVars => TfInv'
  BY TfStep
<1>3. TfInv => TfIsSound
  BY TfInvIsSound
<1> QED
  BY <1>1, <1>2, <1>3, PTL DEF TfSpec
=============================================================================
