--------------------------- MODULE PathClearance ---------------------------
(***************************************************************************)
(* The behaviour-tree plugins of mg_navigation that decide when a blocked  *)
(* path is free again: PathClearanceChecker, the PathClearanceMonitor that *)
(* feeds it with costmaps and parameters, the conditions IsPathClear and   *)
(* IsPathBlocked, and CommitPath.                                          *)
(*                                                                         *)
(* The plane is a line of cells.  A pose is a cell and a heading: 1 or -1, *)
(* or 0 while the robot turns on the spot.  All callbacks of a monitor run *)
(* inside its tick (spinSome), so a tick is one step; the clock advances   *)
(* between the callbacks and the rest of the tick.                         *)
(***************************************************************************)
EXTENDS Integers, Sequences, FiniteSetsExt

CONSTANTS
  CostMaps,          \* the local costmaps that may be published
  Paths,             \* the paths that the planner may offer
  Robot,             \* the robot's pose: at, heading
  Outline,           \* the footprint's vertices, as offsets
  Lookaheads,        \* the lookahead distances of the controller
  PathMargin, MaxSearch, UseRotate,
  ClearDuration, CostmapTimeout, ReevaluatePeriod, RetryPeriod, EpisodeGap,
  MinClearMaps,
  GoalTolerance,
  Conditions,        \* which of the two conditions may be ticked
  ClockEnd           \* bound of the clock

VARIABLES
  now,        \* the clock
  inbox,      \* the costmap on its way, or <<>>
  server,     \* the parameters at the controller and the costmap
  plan,       \* the blackboard: goal, candidate and path
  condition,  \* the condition that the tree ticks
  mon,        \* its PathClearanceMonitor
  clear,      \* IsPathClear: tracker and episode
  verdict,    \* what the last tick returned
  seen        \* history: what the evaluations of this episode found

clearanceVars == <<now, inbox, server, plan, condition, mon, clear, verdict, seen>>

Never == -1
LethalCost == 254
UnknownCost == 255
Distance(a, b) == IF a < b THEN b - a ELSE a - b
Toward(a, b) == IF b < a THEN -1 ELSE 1

-----------------------------------------------------------------------------
(***************************************************************************)
(* The cost of a footprint.  A line stops at the first lethal cell; a      *)
(* vertex off the map counts as lethal.                                    *)
(***************************************************************************)
LineCost(map, a, b) ==
  LET costs == {map[c] : c \in Min({a, b})..Max({a, b})}
  IN  IF LethalCost \in costs THEN LethalCost ELSE Max(costs)

FootprintCostAtPose(map, x, heading) ==
  LET at == [i \in DOMAIN Outline |-> x + heading * Outline[i]]
      n == Len(at)
      upTo[i \in 1..n] ==
        IF at[i] \notin DOMAIN map THEN LethalCost
        ELSE IF i = 1 THEN 0
        ELSE IF upTo[i - 1] = LethalCost THEN LethalCost
        ELSE Max({LineCost(map, at[i - 1], at[i]), upTo[i - 1]})
  IN  IF upTo[n] = LethalCost THEN LethalCost
      ELSE Max({LineCost(map, at[1], at[n]), upTo[n]})

InCollision(map, x, heading, track) ==
  /\ x \in DOMAIN map
  /\ LET cost == FootprintCostAtPose(map, x, heading)
     IN  cost >= LethalCost /\ ~(cost = UnknownCost /\ track)

(***************************************************************************)
(* The path ahead, cell by cell: from the point closest to the robot among *)
(* the first MaxSearch of the path, for `length', or to its end.           *)
(***************************************************************************)
ArcTo(path, i) ==
  LET s[k \in 1..i] == IF k = 1 THEN 0 ELSE s[k - 1] + Distance(path[k - 1], path[k])
  IN  s[i]

Closest(path) ==
  LET near == {i \in DOMAIN path : ArcTo(path, i) <= MaxSearch}
      best == Min({Distance(path[i], Robot.at) : i \in near})
  IN  Min({i \in near : Distance(path[i], Robot.at) = best})

\* The pose at the arc length `at'.
PoseAt(path, at) ==
  LET n == Len(path)
      i == IF at = ArcTo(path, n) THEN n - 1 ELSE Max({k \in 1..(n - 1) : ArcTo(path, k) <= at})
      turn == Toward(path[i], path[i + 1])
  IN  [at |-> path[i] + turn * (at - ArcTo(path, i)), heading |-> turn]

PosesFrom(path, from, length) ==
  [u \in 1..(Min({length, ArcTo(path, Len(path)) - from}) + 1) |-> PoseAt(path, from + u - 1)]

ResamplePathAhead(path, length) ==
  IF Len(path) = 1 THEN <<[at |-> path[1], heading |-> 1]>>
  ELSE PosesFrom(path, ArcTo(path, Closest(path)), length)

\* The controller turns on the spot or follows the arc towards the carrot.
IsMotionToCarrotBlocked(map, carrot, track) ==
  LET ahead == Robot.heading * (carrot.at - Robot.at)
  IN  IF UseRotate /\ ahead < 0
      THEN \E h \in {0, -Robot.heading} : InCollision(map, Robot.at, h, track)
      ELSE \E k \in 1..Distance(carrot.at, Robot.at) :
             InCollision(map, Robot.at + k * Robot.heading, Robot.heading, track)

\* The first pose at the lookahead distance, or the last one.
Carrot(ahead, l) ==
  LET far == {i \in DOMAIN ahead : Distance(ahead[i].at, Robot.at) >= l}
  IN  ahead[IF far = {} THEN Len(ahead) ELSE Min(far)]

BlockedAlong(map, ahead, track) ==
  \/ InCollision(map, Robot.at, Robot.heading, track)
  \/ \E i \in DOMAIN ahead : InCollision(map, ahead[i].at, ahead[i].heading, track)
  \/ \E l \in Lookaheads : IsMotionToCarrotBlocked(map, Carrot(ahead, l), track)

IsBlocked(map, path, track) ==
  BlockedAlong(map, ResamplePathAhead(path, Max(Lookaheads) + PathMargin), track)

\* IsBlocked as a table, for the states of a run.
BlockedTable == [map \in CostMaps, path \in Paths, track \in BOOLEAN |-> IsBlocked(map, path, track)]

-----------------------------------------------------------------------------
(***************************************************************************)
(* The monitor's parameters: two requests, answered in either order, or    *)
(* with values that are not set.                                           *)
(***************************************************************************)
NoFuture == [state |-> "none"]
Pending == [state |-> "pending"]
Busy(f) == f.state # "none"

RequestParameters(m, t, up) ==
  IF m.requested \/ Busy(m.control) \/ Busy(m.cost)
     \/ (m.attempt # Never /\ t - m.attempt < RetryPeriod)
  THEN m
  ELSE IF up
  THEN [m EXCEPT !.attempt = t, !.requested = TRUE, !.control = Pending, !.cost = Pending]
  ELSE [m EXCEPT !.attempt = t]

ApplyControllerParameters(m) ==
  IF m.control.state # "answered" THEN m
  ELSE LET p == m.control.value
       IN  IF p.set
           THEN [m EXCEPT !.control = NoFuture, !.controller = TRUE,
                          !.detect = p.detect, !.track = m.trackKnown]
           ELSE [m EXCEPT !.control = NoFuture, !.requested = FALSE]

ApplyCostmapParameters(m) ==
  IF m.cost.state # "answered" THEN m
  ELSE LET p == m.cost.value
       IN  IF p.set
           THEN [m EXCEPT !.cost = NoFuture, !.footprint = TRUE, !.trackKnown = p.track,
                          !.track = IF m.controller THEN p.track ELSE @]
           ELSE [m EXCEPT !.cost = NoFuture, !.requested = FALSE]

PollParameters(m, t, up) ==
  ApplyCostmapParameters(ApplyControllerParameters(RequestParameters(m, t, up)))

RefreshParameters(m, t, up) == RequestParameters([m EXCEPT !.requested = FALSE], t, up)

Ready(m) == m.controller /\ m.footprint

-----------------------------------------------------------------------------
(***************************************************************************)
(* costmapCallback, run by spinSome, and the evaluation of a path.  The    *)
(* time of an evaluation is noted before its transforms are looked up.     *)
(***************************************************************************)
SpinSome(m) ==
  IF inbox = <<>> THEN m
  ELSE [m EXCEPT !.map = inbox, !.seq = @ + 1, !.received = now]

Outdated(m, t) == t - m.received > CostmapTimeout
\* mutated form: the path is not compared
UnchangedMap(m, path, t) == m.seq = m.evalSeq /\ m.eval # Never /\ t - m.eval < ReevaluatePeriod

Unchanged(m, path, t) ==
  /\ m.seq = m.evalSeq /\ path = m.evalPath
  /\ m.eval # Never /\ t - m.eval < ReevaluatePeriod

Evaluate(m, path, t, tf) ==
  IF path = <<>> THEN [m |-> m, status |-> "unavailable"]
  ELSE IF m.map = <<>> THEN [m |-> m, status |-> "no costmap"]
  ELSE IF Outdated(m, t) THEN [m |-> m, status |-> "unavailable"]
  ELSE IF Unchanged(m, path, t) THEN [m |-> m, status |-> "unchanged"]
  ELSE LET noted == [m EXCEPT !.eval = t, !.evalSeq = m.seq, !.evalPath = path]
       IN  IF ~tf THEN [m |-> noted, status |-> "unavailable"]
           ELSE [m |-> [noted EXCEPT !.blocked = BlockedTable[m.map[1], path, m.track]],
                 status |-> "evaluated"]

ResetEvaluation(m) == [m EXCEPT !.eval = Never, !.evalPath = <<>>, !.blocked = FALSE]

-----------------------------------------------------------------------------
(***************************************************************************)
(* ClearanceTracker and IsPathClear.                                       *)
(***************************************************************************)
Invalidate(c) == [c EXCEPT !.since = Never, !.maps = 0, !.counted = Never]

Observe(c, blocked, seq, t) ==
  IF blocked THEN [Invalidate(c) EXCEPT !.blocked = TRUE]
  ELSE IF ~c.blocked THEN c
  ELSE [c EXCEPT !.since = IF @ = Never THEN t ELSE @,
                 !.maps = IF c.counted = seq THEN @ ELSE Min({@ + 1, MinClearMaps}),
                 !.counted = seq]

IsClear(c, t) ==
  c.blocked /\ c.since # Never /\ t - c.since >= ClearDuration /\ c.maps >= MinClearMaps

NewEpisode(t) ==
  [blocked |-> FALSE, since |-> Never, maps |-> 0, counted |-> Never, start |-> t, tick |-> t]

\* What the evaluation means to the tracker.
Recorded(c, e, t) ==
  IF e.status = "unavailable" THEN Invalidate(c)
  ELSE IF e.status = "evaluated" /\ (e.m.blocked \/ e.m.received >= c.start)
  THEN Observe(c, e.m.blocked, e.m.seq, t)
  ELSE c

Entry(e, t) == [t |-> t, status |-> e.status, blocked |-> e.m.blocked, seq |-> e.m.seq,
                received |-> e.m.received, path |-> plan.path]

\* The poll of a tick; the first one of an episode starts afresh.
Polled(m, fresh, t, up) ==
  PollParameters(IF fresh THEN RefreshParameters(ResetEvaluation(m), t, up) ELSE m, t, up)

Judges(m) == Ready(m) /\ m.detect

TickIsPathClear(tf, up) ==
  LET t == now + 1
      fresh == clear.tick = Never \/ t - clear.tick > EpisodeGap
      past == IF fresh THEN <<>> ELSE seen
  IN  /\ condition = "IsPathClear"
      /\ now' = t
      /\ inbox' = <<>>
      /\ \E m \in {Polled(SpinSome(mon), fresh, t, up)},
            c \in {IF fresh THEN NewEpisode(t) ELSE [clear EXCEPT !.tick = t]} :
         \E e \in {Evaluate(m, plan.path, t, tf)} :
         \E after \in {IF Judges(m) THEN Recorded(c, e, t) ELSE c} :
           /\ mon' = IF Judges(m) THEN e.m ELSE m
           /\ clear' = after
           /\ verdict' = IF Judges(m) /\ IsClear(after, t) THEN "success" ELSE "failure"
           /\ seen' = IF Judges(m) THEN Append(past, Entry(e, t)) ELSE past
      /\ UNCHANGED <<server, plan, condition>>

(***************************************************************************)
(* IsPathBlocked waits a little for the answers to its requests, and holds *)
(* its verdict while nothing has changed.                                  *)
(***************************************************************************)
Answered(f, value) == IF f.state = "pending" THEN [state |-> "answered", value |-> value] ELSE f

PollParametersWithin(m, t, up, answered) ==
  LET polled == PollParameters(m, t, up)
  IN  IF Ready(polled) \/ ~answered THEN polled
      ELSE PollParameters([polled EXCEPT !.control = Answered(@, server),
                                         !.cost = Answered(@, server)], t, up)

\* The verdict of an evaluation: the one held, where nothing has changed.
SaysBlocked(m, e) ==
  /\ Judges(m)
  /\ \/ e.status = "evaluated" /\ e.m.blocked
     \/ e.status = "unchanged" /\ m.held

TickIsPathBlocked(tf, up, answered) ==
  LET t == now + 1
  IN  /\ condition = "IsPathBlocked"
      /\ now' = t
      /\ inbox' = <<>>
      /\ \E m \in {PollParametersWithin(SpinSome(mon), t, up, answered)} :
         \E e \in {Evaluate(m, plan.path, t, tf)} :
           /\ mon' = IF Judges(m) THEN [e.m EXCEPT !.held = SaysBlocked(m, e)] ELSE m
           /\ verdict' = IF SaysBlocked(m, e) THEN "success" ELSE "failure"
           /\ seen' = IF Judges(m) THEN <<Entry(e, t)>> ELSE <<>>
      /\ UNCHANGED <<server, plan, condition, clear>>

-----------------------------------------------------------------------------
(***************************************************************************)
(* CommitPath: the candidate if it reaches the goal, else the path in use  *)
(* if that one does, else no path.                                         *)
(***************************************************************************)
PathReachesGoal(path) ==
  path # <<>> /\ Distance(path[Len(path)], plan.goal) <= GoalTolerance

SelectPathForGoal ==
  IF PathReachesGoal(plan.candidate) THEN plan.candidate
  ELSE IF PathReachesGoal(plan.path) THEN plan.path ELSE <<>>

CommitPath ==
  /\ plan' = [plan EXCEPT !.path = SelectPathForGoal]
  /\ UNCHANGED <<now, inbox, server, condition, mon, clear, verdict, seen>>

-----------------------------------------------------------------------------
\* The rest of the system: the planner, the costmap, the servers, the clock.
NewPlan(goal, path) ==
  /\ plan' = [plan EXCEPT !.goal = goal, !.candidate = path]
  /\ UNCHANGED <<now, inbox, server, condition, mon, clear, verdict, seen>>

PublishCostmap(map) ==
  /\ inbox' = <<map>>
  /\ UNCHANGED <<now, server, plan, condition, mon, clear, verdict, seen>>

SetServer(p) ==
  /\ server' = p
  /\ UNCHANGED <<now, inbox, plan, condition, mon, clear, verdict, seen>>

AnswerController ==
  /\ mon.control.state = "pending"
  /\ mon' = [mon EXCEPT !.control = Answered(@, server)]
  /\ UNCHANGED <<now, inbox, server, plan, condition, clear, verdict, seen>>

AnswerCostmap ==
  /\ mon.cost.state = "pending"
  /\ mon' = [mon EXCEPT !.cost = Answered(@, server)]
  /\ UNCHANGED <<now, inbox, server, plan, condition, clear, verdict, seen>>

\* The server dies with the request: the answer never comes.
LoseAnswer ==
  /\ mon.control.state = "pending"
  /\ mon' = [mon EXCEPT !.control = [state |-> "lost"]]
  /\ UNCHANGED <<now, inbox, server, plan, condition, clear, verdict, seen>>

Elapse(d) ==
  /\ now' = now + d
  /\ UNCHANGED <<inbox, server, plan, condition, mon, clear, verdict, seen>>

ClearanceInit ==
  /\ now = 0
  /\ inbox = <<>>
  /\ server = [set |-> TRUE, detect |-> TRUE, track |-> FALSE]
  /\ plan \in {[goal |-> p[Len(p)], candidate |-> p, path |-> p] : p \in Paths}
  /\ condition \in Conditions
  /\ mon = [map |-> <<>>, seq |-> 0, received |-> 0, requested |-> FALSE, attempt |-> Never,
            control |-> NoFuture, cost |-> NoFuture, controller |-> FALSE,
            footprint |-> FALSE, detect |-> FALSE, track |-> FALSE, trackKnown |-> FALSE,
            eval |-> Never, evalSeq |-> 0, evalPath |-> <<>>, blocked |-> FALSE, held |-> FALSE]
  /\ clear = [NewEpisode(0) EXCEPT !.tick = Never]
  /\ verdict = "none"
  /\ seen = <<>>

\* A tick with the transforms and the services at hand, or without.
Ticks(ok) ==
  /\ now < ClockEnd
  /\ \E tf, up, answered \in BOOLEAN :
       /\ ok <=> (tf /\ up)
       /\ TickIsPathClear(tf, up) \/ TickIsPathBlocked(tf, up, answered)

-----------------------------------------------------------------------------
(***************************************************************************)
(* The recovery is cut short only for a path that was blocked and has been *)
(* clear since: IsPathClear succeeds only if in this run of ticks some     *)
(* evaluation found the path blocked and, for at least ClearDuration after *)
(* the last one that did (or that could not tell), every evaluation found  *)
(* it clear, on at least MinClearMaps costmaps that came after the         *)
(* recovery began, of which the last is not older than the timeout.        *)
(***************************************************************************)
ClearIsConfirmed ==
  (condition = "IsPathClear" /\ verdict = "success") =>
    LET bad == {i \in DOMAIN seen : seen[i].status = "unavailable"
                                    \/ (seen[i].status = "evaluated" /\ seen[i].blocked)}
        good == {i \in DOMAIN seen : seen[i].status = "evaluated" /\ ~seen[i].blocked
                                     /\ seen[i].received >= clear.start
                                     /\ \A j \in bad : j < i}
    IN  /\ \E i \in bad : seen[i].status = "evaluated"
        /\ good # {}
        /\ clear.tick - Min({seen[i].t : i \in good}) >= ClearDuration
        /\ Cardinality({seen[i].seq : i \in good}) >= MinClearMaps
        /\ clear.tick - mon.received <= CostmapTimeout

(***************************************************************************)
(* Replanning is held back only by a verdict about the path and the        *)
(* costmap of this tick: IsPathBlocked succeeds only if the checker, given *)
(* the newest costmap, the path that the blackboard had at the tick and    *)
(* the monitor's parameters, calls it blocked.  A verdict is kept over a   *)
(* tick, but not over a change of the path or of the costmap.              *)
(***************************************************************************)
BlockedIsCurrent ==
  (condition = "IsPathBlocked" /\ verdict = "success" /\ seen # <<>>) =>
    /\ mon.map # <<>>
    /\ mon.evalSeq = mon.seq
    /\ BlockedTable[mon.map[1], seen[1].path, mon.track]

(***************************************************************************)
(* A path that is called clear can be driven: no cell that the footprint   *)
(* covers along the path, from the robot's place on it to the band's end,  *)
(* is lethal, unless the robot's cell or an unknown cell hides it.         *)
(***************************************************************************)
DrivenCells(path) ==
  LET band == Max(Lookaheads) + PathMargin
      from == ArcTo(path, Closest(path))
  IN  UNION {LET turn == Toward(path[i], path[i + 1])
             IN  {<<path[i] + turn * s, turn>> :
                    s \in {k \in 0..Distance(path[i], path[i + 1]) :
                             ArcTo(path, i) + k \in from..(from + band)}}
             : i \in {k \in 1..(Len(path) - 1) : path[k] # path[k + 1]}}

ClearBandIsFree ==
  \A map \in CostMaps, path \in Paths : \A track \in BOOLEAN :
    ~IsBlocked(map, path, track) =>
      \A cell \in DrivenCells(path) : cell[1] \in DOMAIN map =>
        LET under == {cell[1] + cell[2] * o : o \in Min({Outline[i] : i \in DOMAIN Outline})
                                                  ..Max({Outline[i] : i \in DOMAIN Outline})}
        IN  \/ \E c \in under \cap DOMAIN map : map[c] = UnknownCost /\ track
            \/ \A c \in under : c \in DOMAIN map /\ map[c] # LethalCost

(***************************************************************************)
(* Both conditions of the waiting behaviour can be trusted: "clear" is     *)
(* confirmed by maps received since, "blocked" is about the present path   *)
(* and map, and the geometry behind them misses no lethal cell.            *)
(***************************************************************************)
ClearanceIsSound == ClearIsConfirmed /\ BlockedIsCurrent /\ ClearBandIsFree
=============================================================================
