------------------------------- MODULE Costmap -------------------------------
(***************************************************************************)
(* A layered costmap: a static layer, an obstacle layer fed by a sensor,   *)
(* an inflation layer, and the node that updates the master grid window by *)
(* window and is started, stopped, cleared and reconfigured meanwhile.     *)
(*                                                                         *)
(* The grid is one row of Size cells of one metre, so that a position in   *)
(* the world is an integer and a window an interval of cells.  rolling     *)
(* tells the two costmaps of the robot apart: the local one rolls with the *)
(* robot and has no static layer, the global one has the map as its bottom *)
(* layer and tracks unknown space.                                         *)
(*                                                                         *)
(* An update holds the mutex of the master grid, but the layers have their *)
(* own: a clearing request or a sensor message may come between the two    *)
(* halves of an update (updateBounds, updateCosts).                        *)
(***************************************************************************)
EXTENDS Integers, Sequences, FiniteSets

CONSTANTS
  Size,              \* cells of the grid
  World,             \* the positions where things can be
  Maps,              \* the static maps: [origin, grid]
  InscribedRadius,   \* of the footprint
  InflationRadius,   \* inflation_radius_
  ObstacleRange,     \* obstacle_max_range
  RaytraceRange,     \* raytrace_max_range
  ClearDistance,     \* reset_distance of a clearing request
  NoMap              \* no map is buffered

ASSUME CostmapAssumption ==
  /\ Size \in Nat \ {0} /\ World \subseteq Nat
  /\ InscribedRadius \in Nat /\ InflationRadius \in Nat
  /\ RaytraceRange >= ObstacleRange

VARIABLES
  rolling,    \* rolling_window_
  master,     \* combined_costmap_: origin and grid
  obstacle,   \* the obstacle layer
  observed,       \* its observation buffer: no observation or the last one
  static,     \* the static layer
  inflation,  \* the inflation layer
  robot,      \* the pose of the robot
  life,       \* the lifecycle of the node, and its update thread
  changed,    \* a layer was switched on or off since the last full update
  updatedNow  \* an update has been completed since the last activation

costmapVars ==
  <<rolling, master, obstacle, observed, static, inflation, robot, life, changed, updatedNow>>

FreeSpace == 0
Inscribed == 253
Lethal == 254
NoInformation == 255
Cells == 0..(Size - 1)
Huge == 1000                      \* numeric_limits<double>::max()
Lower(a, b) == IF a < b THEN a ELSE b
Upper(a, b) == IF a > b THEN a ELSE b
Away(a, b) == IF a < b THEN b - a ELSE a - b

\* The default of the grids: unknown where unknown space is tracked.
Default == IF rolling THEN FreeSpace ELSE NoInformation
Blank == [c \in Cells |-> Default]

-----------------------------------------------------------------------------
(***************************************************************************)
(* Positions and cells.  A position behind the end of the grid is brought  *)
(* back into it, the end itself is not (worldToMapEnforceBounds).          *)
(***************************************************************************)
WorldToMapEnforceBounds(origin, w) ==
  IF w < origin THEN 0
  ELSE IF w > origin + Size THEN Size - 1
  ELSE w - origin

OnMap(origin, w) == w - origin \in Cells

\* A rolling grid keeps the part that overlaps its new place.
UpdateOrigin(g, origin) ==
  [g EXCEPT !.origin = origin,
            !.grid = [c \in Cells |-> IF OnMap(g.origin, origin + c)
                                      THEN g.grid[origin + c - g.origin]
                                      ELSE Default]]

RolledOrigin == robot - (Size \div 2)
Rolled(g) == IF rolling THEN UpdateOrigin(g, RolledOrigin) ELSE g

-----------------------------------------------------------------------------
(***************************************************************************)
(* The window of an update, in world coordinates.  Every layer may widen   *)
(* it: touch, and the extra bounds that a clearing request has left.       *)
(***************************************************************************)
NoBounds == [lo |-> Huge, hi |-> -Huge]
Touch(b, x) == [lo |-> Lower(b.lo, x), hi |-> Upper(b.hi, x)]
Join(b, c) == [lo |-> Lower(b.lo, c.lo), hi |-> Upper(b.hi, c.hi)]
UseExtraBounds(layer, b) == Join(b, layer.extra)

Footprint(pose) == {pose - InscribedRadius, pose + InscribedRadius}
TouchFootprint(b) ==
  Touch(Touch(b, robot - InscribedRadius), robot + InscribedRadius)

\* setConvexPolygonCost with transformed_footprint_, the footprint of the last
\* updateBounds: nothing when a corner of it is off the map.
ClearFootprint(layer) ==
  IF \E p \in layer.foot : \A x \in Footprint(p) : OnMap(layer.origin, x)
  THEN [layer EXCEPT !.grid = [c \in Cells |->
          IF \E p \in layer.foot : Away(layer.origin + c, p) <= InscribedRadius
          THEN FreeSpace ELSE layer.grid[c]]]
  ELSE layer

UpdateWithMax(grid, layer, w) ==
  [c \in Cells |->
     IF c \notin w \/ layer.grid[c] = NoInformation THEN grid[c]
     ELSE IF grid[c] = NoInformation THEN layer.grid[c]
     ELSE Upper(grid[c], layer.grid[c])]

UpdateWithTrueOverwrite(grid, layer, w) ==
  [c \in Cells |-> IF c \in w THEN layer.grid[c] ELSE grid[c]]

-----------------------------------------------------------------------------
(***************************************************************************)
(* The static layer.  The first map is taken at once, later ones wait for  *)
(* the next update; a map of another place resizes every grid.             *)
(***************************************************************************)
Fits(map) == static.received /\ master.origin = map.origin

ProcessMap(map) ==
  [static EXCEPT !.origin = map.origin, !.grid = map.grid, !.updated = TRUE,
                 !.received = TRUE, !.buffer = NoMap]

StaticAfterBounds ==
  IF ~static.received THEN static
  ELSE [IF static.buffer = NoMap THEN static ELSE ProcessMap(static.buffer)
          EXCEPT !.updated = FALSE]

StaticUpdateBounds(b) ==
  IF static.received /\ (static.updated \/ static.buffer # NoMap)
  THEN Join(b, [lo |-> StaticAfterBounds.origin, hi |-> StaticAfterBounds.origin + Size])
  ELSE b

StaticUpdateCosts(grid, w) ==
  IF static.received THEN UpdateWithTrueOverwrite(grid, static, w) ELSE grid

(***************************************************************************)
(* The obstacle layer.  Free space is cleared along the rays first, then   *)
(* the hits are marked; everything that was looked at is touched.          *)
(***************************************************************************)
RayEnd(layer, o, x) ==      \* the ray is cut at the map and at its range
  LET onMap == Lower(Upper(x, layer.origin), layer.origin + Size - 1)
  IN  IF onMap >= o THEN Lower(onMap, o + RaytraceRange)
      ELSE Upper(onMap, o - RaytraceRange)

RaytraceFreespace(layer, obs) ==
  IF ~OnMap(layer.origin, obs.origin) THEN layer
  ELSE [layer EXCEPT !.grid = [c \in Cells |->
          IF \E x \in obs.points :
               LET end == RayEnd(layer, obs.origin, x)
                   w == layer.origin + c
               IN  w \in Lower(obs.origin, end)..Upper(obs.origin, end)
          THEN FreeSpace ELSE layer.grid[c]]]

RaytraceBounds(layer, obs, b) ==
  IF ~OnMap(layer.origin, obs.origin) THEN b
  ELSE LET ends == {RayEnd(layer, obs.origin, x) : x \in obs.points} \cup {obs.origin}
       IN  Join(b, [lo |-> CHOOSE x \in ends : \A y \in ends : x <= y,
                    hi |-> CHOOSE x \in ends : \A y \in ends : x >= y])

Hits(layer, obs) ==
  {x \in obs.points : Away(x, obs.origin) < ObstacleRange /\ OnMap(layer.origin, x)}

MarkObstacles(layer, obs) ==
  [layer EXCEPT !.grid = [c \in Cells |->
     IF layer.origin + c \in Hits(layer, obs) THEN Lethal ELSE layer.grid[c]]]

MarkBounds(layer, obs, b) ==
  LET hits == Hits(layer, obs)
  IN  IF hits = {} THEN b
      ELSE Join(b, [lo |-> CHOOSE x \in hits : \A y \in hits : x <= y,
                    hi |-> CHOOSE x \in hits : \A y \in hits : x >= y])

\* The same observation marks and clears again at every update.
ObstacleAfterBounds(layer) ==
  LET at == Rolled(layer)
      used == [at EXCEPT !.extra = NoBounds, !.foot = {robot}]
  IN  IF ~layer.enabled THEN at
      ELSE IF observed = <<>> THEN used
      ELSE MarkObstacles(RaytraceFreespace(used, observed[1]), observed[1])

ObstacleUpdateBounds(layer, b) ==
  LET at == Rolled(layer)
      used == UseExtraBounds(layer, b)
      looked == IF observed = <<>> THEN used
                ELSE MarkBounds(at, observed[1], RaytraceBounds(at, observed[1], used))
  IN  IF layer.enabled THEN TouchFootprint(looked) ELSE b

ObstacleUpdateCosts(grid, layer, w) ==
  IF layer.enabled THEN UpdateWithMax(grid, layer, w) ELSE grid

(***************************************************************************)
(* The inflation layer.  It widens the window by the window of the update  *)
(* before and by its radius, and inflates into the window the obstacles    *)
(* that lie within the radius of it.                                       *)
(***************************************************************************)
ComputeCost(d) ==
  IF d = 0 THEN Lethal ELSE IF d <= InscribedRadius THEN Inscribed ELSE Inscribed \div (d + 1)

\* mutated form: the window is not widened by the radius
InflationUpdateBoundsNarrow(b) ==
  IF inflation.need THEN [lo |-> -Huge, hi |-> Huge] ELSE Join(b, inflation.last)

InflationUpdateBounds(b) ==
  IF inflation.need THEN [lo |-> -Huge, hi |-> Huge]
  ELSE LET both == Join(b, inflation.last)
       IN  [lo |-> both.lo - InflationRadius, hi |-> both.hi + InflationRadius]

Inflate(grid, w) ==
  LET near == {c \in Cells : \E d \in w : Away(c, d) <= InflationRadius}
      source == {c \in near : grid[c] = Lethal}
      Reaching(c) == {Away(c, s) : s \in {x \in source : Away(c, x) <= InflationRadius}}
      New(c) == LET ds == Reaching(c) IN ComputeCost(CHOOSE d \in ds : \A e \in ds : d <= e)
  IN  [c \in Cells |->
         IF c \notin w \/ Reaching(c) = {} THEN grid[c]
         ELSE IF grid[c] = NoInformation /\ New(c) >= Inscribed THEN New(c)
         ELSE Upper(grid[c], New(c))]

InflationUpdateCosts(grid, w) ==
  IF inflation.enabled /\ InflationRadius > 0 THEN Inflate(grid, w) ELSE grid

-----------------------------------------------------------------------------
(***************************************************************************)
(* One update of the map, in the two halves that other threads can see.    *)
(***************************************************************************)
MapWindow(b, origin) ==      \* the cells of the window
  LET x0 == WorldToMapEnforceBounds(origin, b.lo)
      xn == Lower(Size, WorldToMapEnforceBounds(origin, b.hi) + 1)
  IN  IF xn < x0 THEN {} ELSE x0..(xn - 1)

(***************************************************************************)
(* First half: the grids roll, a new map is taken, and every layer adds to *)
(* the window.  The loop runs it unless it is stopped; without a robot     *)
(* pose it does nothing.                                                   *)
(***************************************************************************)
Resizing == static.received /\ static.buffer # NoMap /\ ~Fits(static.buffer)
Resized(layer, origin) == [layer EXCEPT !.origin = origin, !.grid = Blank]

LayeredUpdateBounds ==
  LET b1 == StaticUpdateBounds(NoBounds)
      at == IF Resizing THEN Resized(master, static.buffer.origin) ELSE Rolled(master)
      layer == IF Resizing THEN Resized(obstacle, static.buffer.origin) ELSE obstacle
      b2 == ObstacleUpdateBounds(layer, b1)
      b3 == InflationUpdateBounds(b2)
  IN  /\ life.loop = "idle"
      /\ ~life.stopped /\ ~life.stopUpdates
      /\ master' = at
      /\ static' = StaticAfterBounds
      /\ obstacle' = ObstacleAfterBounds(layer)
      /\ inflation' = [inflation EXCEPT !.need = FALSE, !.last = b2]
      /\ life' = [life EXCEPT !.loop = "costs", !.window = MapWindow(b3, at.origin)]
      /\ UNCHANGED <<rolling, observed, robot, changed, updatedNow>>

\* Second half: the window is reset and filled by one layer after another.
LayeredUpdateCosts ==
  LET w == life.window
      cleared == IF obstacle.enabled THEN ClearFootprint(obstacle) ELSE obstacle
      g0 == [c \in Cells |-> IF c \in w THEN Default ELSE master.grid[c]]
      g1 == StaticUpdateCosts(g0, w)
      g2 == ObstacleUpdateCosts(g1, cleared, w)
      g3 == InflationUpdateCosts(g2, w)
  IN  /\ life.loop = "costs"
      /\ IF w = {} THEN UNCHANGED <<master, obstacle>>
         ELSE master' = [master EXCEPT !.grid = g3] /\ obstacle' = cleared
      /\ life' = [life EXCEPT !.loop = "idle", !.initialized = TRUE, !.window = {}]
      /\ changed' = (changed /\ w # Cells)
      /\ updatedNow' = TRUE
      /\ UNCHANGED <<rolling, observed, static, inflation, robot>>

-----------------------------------------------------------------------------
(***************************************************************************)
(* What comes from outside while the layers are subscribed.                *)
(***************************************************************************)
LayersSubscribed == life.state \in {"starting", "active"}

\* bufferCloud, observation_persistence 0: only the last cloud is kept.
BufferCloud(points) ==
  /\ LayersSubscribed
  /\ observed' = <<[origin |-> robot, points |-> points]>>
  /\ UNCHANGED <<rolling, master, obstacle, static, inflation, robot, life, changed, updatedNow>>

\* incomingMap: the first map resizes the grids under the master's mutex.
IncomingMap(map) ==
  /\ ~rolling
  /\ life.state # "inactive"
  /\ IF static.received
     THEN /\ static' = [static EXCEPT !.buffer = map]
          /\ UNCHANGED <<master, obstacle>>
     ELSE /\ life.loop # "costs"
          /\ static' = ProcessMap(map)
          /\ master' = Resized(master, map.origin)
          /\ obstacle' = Resized(obstacle, map.origin)
  /\ UNCHANGED <<rolling, observed, inflation, robot, life, changed, updatedNow>>

\* incomingUpdate changes one cell of the static layer.
IncomingUpdate(c, cost) ==
  /\ static.received
  /\ static.grid[c] # cost
  /\ static' = [static EXCEPT !.grid[c] = cost, !.updated = TRUE]
  /\ UNCHANGED <<rolling, master, obstacle, observed, inflation, robot, life, changed, updatedNow>>

MoveRobot(x) ==
  /\ robot' = x
  /\ UNCHANGED <<rolling, master, obstacle, observed, static, inflation, life, changed, updatedNow>>

(***************************************************************************)
(* clearAroundRobot and clearExceptRegion: the clearable layer forgets the *)
(* region under its own mutex, and the whole map is looked at next time.   *)
(***************************************************************************)
ClearRegion(invert) ==
  LET from == WorldToMapEnforceBounds(obstacle.origin, robot - ClearDistance \div 2)
      to == WorldToMapEnforceBounds(obstacle.origin, robot + ClearDistance \div 2)
  IN  /\ life.state = "active"
      /\ obstacle' = [obstacle EXCEPT
           !.grid = [c \in Cells |-> IF (c > from /\ c < to) # invert
                                     THEN NoInformation ELSE obstacle.grid[c]],
           !.extra = Join(@, [lo |-> obstacle.origin, hi |-> obstacle.origin + Size])]
      /\ UNCHANGED <<rolling, master, observed, static, inflation, robot, life, changed, updatedNow>>

\* clearEntirely: resetLayers under the master's mutex.
ResetLayers ==
  /\ life.state = "active"
  /\ life.loop # "costs"
  /\ master' = [master EXCEPT !.grid = Blank]
  /\ obstacle' = [obstacle EXCEPT !.grid = Blank]
  /\ static' = [static EXCEPT !.updated = TRUE]
  /\ changed' = FALSE
  /\ UNCHANGED <<rolling, observed, inflation, robot, life, updatedNow>>

\* The parameter `enabled' of the obstacle and of the inflation layer.
SetObstacleEnabled(on) ==
  /\ life.state = "active"
  /\ obstacle.enabled # on
  /\ obstacle' = [obstacle EXCEPT !.enabled = on]
  /\ changed' = TRUE
  /\ UNCHANGED <<rolling, master, observed, static, inflation, robot, life, updatedNow>>

SetInflationEnabled(on) ==
  /\ life.state = "active"
  /\ inflation.enabled # on
  /\ inflation' = [inflation EXCEPT !.enabled = on, !.need = TRUE]
  /\ UNCHANGED <<rolling, master, obstacle, observed, static, robot, life, changed, updatedNow>>

-----------------------------------------------------------------------------
(***************************************************************************)
(* The lifecycle.  Activation starts the update thread and waits until the *)
(* costmap is initialised; deactivation stops it and joins the thread.     *)
(***************************************************************************)
CostmapActivate ==
  /\ life.state = "inactive"
  /\ life' = [life EXCEPT !.state = "starting", !.loop = "idle",
                          !.stopped = FALSE, !.stopUpdates = FALSE]
  /\ updatedNow' = FALSE
  /\ UNCHANGED <<rolling, master, obstacle, observed, static, inflation, robot, changed>>

StartReturns ==
  /\ life.state = "starting"
  /\ life.initialized
  /\ life' = [life EXCEPT !.state = "active"]
  /\ UNCHANGED <<rolling, master, obstacle, observed, static, inflation, robot, changed, updatedNow>>

Stop ==
  /\ life.state = "active"
  /\ life' = [life EXCEPT !.state = "stopping", !.stopped = TRUE,
                          !.stopUpdates = TRUE, !.initialized = FALSE]
  /\ UNCHANGED <<rolling, master, obstacle, observed, static, inflation, robot, changed, updatedNow>>

JoinThread ==
  /\ life.state = "stopping"
  /\ life.loop = "idle"
  /\ life' = [life EXCEPT !.state = "inactive", !.loop = "none"]
  /\ UNCHANGED <<rolling, master, obstacle, observed, static, inflation, robot, changed, updatedNow>>

CostmapInit ==
  /\ rolling \in BOOLEAN
  /\ robot = Size \div 2
  /\ master = [origin |-> 0, grid |-> Blank]
  /\ obstacle = [origin |-> 0, grid |-> Blank, enabled |-> TRUE, extra |-> NoBounds,
                 foot |-> {}]
  /\ observed = <<>>
  /\ static = [origin |-> 0, grid |-> Blank, received |-> FALSE, buffer |-> NoMap,
               updated |-> FALSE]
  /\ inflation = [enabled |-> TRUE, need |-> TRUE, last |-> NoBounds]
  /\ life = [state |-> "inactive", loop |-> "none", stopped |-> TRUE, stopUpdates |-> FALSE,
             initialized |-> FALSE, window |-> {}]
  /\ changed = FALSE
  /\ updatedNow = FALSE

\* The steps of the costmap itself, and what the rest of the system does to it.
CostmapStep ==
  LayeredUpdateBounds \/ LayeredUpdateCosts \/ CostmapActivate \/ StartReturns \/ JoinThread

CostmapEvent ==
  \/ \E p \in World : BufferCloud({p}) \/ MoveRobot(p)
  \/ \E m \in Maps : IncomingMap(m)
  \/ \E c \in Cells : IncomingUpdate(c, FreeSpace)
  \/ \E on \in BOOLEAN : ClearRegion(on) \/ SetObstacleEnabled(on) \/ SetInflationEnabled(on)
  \/ ResetLayers
  \/ Stop

-----------------------------------------------------------------------------
(***************************************************************************)
(* What the master grid would be if it were computed afresh, everywhere.   *)
(***************************************************************************)
Recombined ==
  InflationUpdateCosts(
    ObstacleUpdateCosts(StaticUpdateCosts(Blank, Cells), obstacle, Cells), Cells)

Settled ==       \* no change waits for the next update
  /\ life.loop # "costs"
  /\ updatedNow
  /\ ~inflation.need /\ ~static.updated /\ static.buffer = NoMap
  /\ obstacle.extra = NoBounds
  /\ ~changed

(***************************************************************************)
(* The windowed update loses nothing.  Between updates, when no change is  *)
(* pending, the master grid is what combining all layers over the whole    *)
(* map would give: no obstacle that a layer holds is missing, none that it *)
(* forgot is left, and no cell is cheaper than its distance to an obstacle *)
(* makes it.  In a rolling grid, costs that an obstacle left behind when   *)
(* it rolled out of the grid may remain.                                   *)
(***************************************************************************)
MasterIsTheLayers ==
  Settled =>
    /\ \A c \in Cells : (master.grid[c] = Lethal) = (Recombined[c] = Lethal)
    /\ \A c \in Cells : master.grid[c] >= Recombined[c]
    /\ ~rolling => master.grid = Recombined
=============================================================================
