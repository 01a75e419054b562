------------------------------ MODULE SlamGraph ------------------------------
(***************************************************************************)
(* The pose-graph side of slam_gnss_2d: the keyframe builders, the loop     *)
(* closure builder, the incremental optimiser, the GNSS anchor, the         *)
(* orchestrator that ties them together for every sensor frame, and the     *)
(* node that draws the map and finalises it.                                *)
(*                                                                          *)
(* Everything runs in one executor thread, so a frame is one step; the      *)
(* methods it calls are operators from the records they read to the records *)
(* they leave.  Poses are abstracted to a position along the trajectory and *)
(* the frame it is expressed in.  What the numerical code decides - does a  *)
(* match converge and pass its gates, how far an optimisation bends the     *)
(* trajectory - is a choice (Numerics, Bends).                              *)
(* Node indices start at 1 here and at 0 in the code.                       *)
(***************************************************************************)
EXTENDS FiniteSets, ListLoops

CONSTANTS
  MaxNodes,        \* bound: keyframes of a run
  Steps,           \* odometry advances between two frames
  MinTranslation, MinRotation,   \* keyframe.*
  StraightTurn,    \* the literal 0.05 rad below which a motion is straight
  MaxDrift,        \* max_translation_drift: larger differences keep odometry
  OdomInformation, \* odom_fusion.information_x, 0 switches the fusion off
  NearBuffer, NearMinDiff, NearMaxDistance, NearMaxLinks,   \* near_links.*
  SearchRadius, MinNodeGap,                                 \* loop_closure.*
  SubmapRadius, QueryWindow,   \* loop_closure.submap_radius and the literal 5
  LoopGap,         \* the literal 15 that separates mesh links from loop edges
  Window,          \* local_map.window
  Fixes,           \* the GNSS fixes of the run, [x, status, sigma], by stamp
  AnchorMinStatus, PriorMinStatus, ReanchorMinStatus,
  MaxSigma,        \* gnss.validation.max_sigma_m
  ReanchorSigma,   \* the literal 0.5 of try_dynamic_reanchor
  InitDistance, MinInterval, ReanchorSamples, ReanchorDistance,
  RerenderThreshold,
  MaxInnovation,   \* gnss.max_innovation_m, 0 switches the test off
  ReanchorSpan, SampleGap,       \* the literals 25.0 and 0.5 of try_dynamic_reanchor
  AnchorStep,      \* the literal 1e-7 (degrees) of publish_anchor
  SkipModes,       \* the values of map.skip_intermediate_rendering explored
  Bends,           \* displacements an optimisation may apply to a tail
  Numerics,        \* outcomes of the numerical code explored: how far the
                   \* odometry and the match have turned since the last keyframe,
                   \* does the match converge, its error and information, the old
                   \* keyframes whose near link or loop match passes every gate,
                   \* the heading the alignment finds, the shift of a
                   \* re-anchoring, do the fits succeed
  FixLoss,         \* {0} when a frame may miss its fix after the first one, or {}
  GnssModes,       \* the values of gnss.enabled explored
  Builders,        \* the builders explored: "odom", "matching", "loop"
  BatchOnFinalize  \* optimization.batch_on_finalize

(* The shipped configuration: near_links.buffer_size 10 < 15 <= min_node_gap 50. *)
ASSUME GapsAssumption ==
  /\ NearMinDiff \in Nat /\ NearMinDiff > 1
  /\ NearBuffer < LoopGap /\ LoopGap <= MinNodeGap /\ LoopGap > 1

(* Kinds of the parameters; the window of the reference map holds a keyframe. *)
ASSUME GraphAssumption ==
  /\ {NearBuffer, LoopGap, MinNodeGap} \subseteq Int /\ NearMaxLinks \in Nat
  /\ Window \in Nat \ {0}
  /\ Steps \subseteq Int /\ Bends \subseteq [from : Int, by : Int]
  /\ Builders \subseteq {"odom", "matching", "loop"}
  /\ GnssModes \subseteq BOOLEAN /\ SkipModes \subseteq BOOLEAN
  /\ Fixes \in Seq([x : Int, status : Int, sigma : Int]) /\ FixLoss \subseteq {0}
  /\ OdomInformation \in Nat /\ AnchorStep \in Nat
  /\ Numerics \subseteq [fix : {0}, turn : Nat, matchTurn : Nat, converged : BOOLEAN, error : Int,
                         info : Nat, near : SUBSET Nat, loop : SUBSET Nat, rot : Int, shift : Int,
                         fits : BOOLEAN]

VARIABLES
  input,      \* latest odometry position and the newest GNSS fix received
  builder,    \* the builder's kind, nodes_, edges_, last_odom_, failure_streak_
  reference,  \* LocalMapProvider: cached keyframes and last_node_
  loops,      \* LoopClosureBuilder: all_nodes_cache_, loop_edges_, the k-d tree
  optimizer,  \* ISAM2Optimizer
  anchor,     \* GnssAnchorManager: UTM position of the map origin, or None
  orch,       \* the rest of GraphOrchestrator's members
  view,       \* where every keyframe is drawn, the dirty flag of the map timer,
              \* map->odom, and the path, markers and anchor published last
  phase       \* spinning, interrupted by an exception, finalized, terminated

graphVars == <<input, builder, reference, loops, optimizer, anchor, orch, view, phase>>

None == [none |-> TRUE]
Empty == [i \in {} |-> None]
\* a map with one entry, and one looked up before another
Only(i, p) == [k \in {i} |-> p]
Over(f, g) == [k \in DOMAIN f \cup DOMAIN g |-> IF k \in DOMAIN f THEN f[k] ELSE g[k]]
AbsDiff(a, b) == IF a >= b THEN a - b ELSE b - a
Pose(f, x) == [frame |-> f, x |-> x]
Shift(p, d) == [p EXCEPT !.x = @ + d]
Last1(seq) == seq[Len(seq)]
Edge(i, j, dx, fb) == [from |-> i, to |-> j, dx |-> dx, fallback |-> fb]

----------------------------------------------------------------------------
(* ISAM2Optimizer: pending factors and values, the estimate, and the two   *)
(* graphs kept for the batch optimisation.                                  *)

OptimizerInit == [init |-> FALSE, pendingGraph |-> <<>>, pendingValues |-> Empty,
                  estimate |-> Empty, geom |-> <<>>, gnss |-> <<>>]

\* initialize(): drops everything and starts from one prior
Initialize(i, p) ==
  [OptimizerInit EXCEPT !.init = TRUE, !.pendingValues = Only(i, p),
                        !.pendingGraph = <<Edge(i, i, 0, FALSE)>>]

AddBetweenFactor(o, e) ==
  IF o.init THEN [o EXCEPT !.pendingGraph = Append(@, e), !.geom = Append(@, e)]
            ELSE o

AddInitialEstimate(o, i, p) ==
  IF o.init /\ i \notin DOMAIN o.pendingValues
  THEN [o EXCEPT !.pendingValues = Over(@, Only(i, p))] ELSE o

AddGnssFactor(o, i, x, ts) ==
  IF o.init
  THEN [o EXCEPT !.pendingGraph = Append(@, Edge(i, i, 0, FALSE)),
                 !.gnss = Append(@, [node |-> i, x |-> x, ts |-> ts])]
  ELSE o

\* gtsam refuses a value inserted twice and a factor on an unknown variable
WellPosed(o) ==
  /\ DOMAIN o.pendingValues \cap DOMAIN o.estimate = {}
  /\ \A f \in Range(o.pendingGraph) :
       {f.from, f.to} \subseteq DOMAIN o.pendingValues \cup DOMAIN o.estimate

HasPending(o) == o.init /\ (o.pendingGraph # <<>> \/ DOMAIN o.pendingValues # {})

\* update(): the estimate after bending the trajectory from node bend.from on
Update(o, bend) ==
  IF ~HasPending(o) THEN o
  ELSE LET all == Over(o.estimate, o.pendingValues) IN
       [o EXCEPT !.pendingGraph = <<>>, !.pendingValues = Empty,
          !.estimate = [i \in DOMAIN all |->
             IF i >= bend.from THEN Shift(all[i], bend.by) ELSE all[i]]]

\* run_batch_optimization(): flush what is pending, then two LM stages
RunBatch(o, bend) ==
  IF ~o.init THEN o
  ELSE LET f == Update(o, [from |-> 1, by |-> 0]) IN
       [f EXCEPT !.estimate = [i \in DOMAIN @ |->
          IF i >= bend.from THEN Shift(@[i], bend.by) ELSE @[i]]]

----------------------------------------------------------------------------
(* LocalMapProvider: the last Window keyframes that form the reference map. *)

ReferenceUpdate(r, i, p) ==
  [window |-> (IF Len(r.window) >= Window THEN Tail(r.window) ELSE r.window)
                 \o <<[i |-> i, p |-> p]>>,
   last |-> [i |-> i, p |-> p]]

\* sync_poses(): every cached keyframe takes the pose the graph gives it
SyncPoses(r, nodes) ==
  IF nodes = <<>> \/ r.window = <<>> THEN r
  ELSE [window |-> [k \in DOMAIN r.window |->
                      IF r.window[k].i \in DOMAIN nodes
                      THEN [r.window[k] EXCEPT !.p = nodes[r.window[k].i]]
                      ELSE r.window[k]],
        last |-> IF r.last # None /\ r.last.i \in DOMAIN nodes
                 THEN [r.last EXCEPT !.p = nodes[r.last.i]] ELSE r.last]

----------------------------------------------------------------------------
(* ScanMatchingBuilder and LoopClosureBuilder (add_scan of the two).        *)

\* the frame of a raw odometry pose: without GNSS the map starts at odometry
OdomFrame == IF orch.useGnss THEN "odom" ELSE "map"

\* far enough from the last keyframe, or turned far enough
IsKeyframe(od, c) ==
  \/ builder.nodes = <<>>
  \/ AbsDiff(od, builder.lastOdom) >= MinTranslation
  \/ c.turn >= MinRotation

\* a match that slips further than MaxDrift along a straight
Slips(c) ==
  /\ c.turn < StraightTurn /\ c.matchTurn < StraightTurn
  /\ MaxDrift > 0 /\ AbsDiff(c.error, 0) > MaxDrift

\* fuse_with_odometry(): the mean weighted with the two informations
FuseWithOdometry(delta, dx, info) ==
  IF OdomInformation = 0 THEN dx
  ELSE dx + ((OdomInformation * (delta - dx)) \div (info + OdomInformation))

\* the translation of the sequential edge: a failed match keeps odometry, and
\* so does one that slips
MatchedDelta(delta, c) ==
  IF ~c.converged \/ Slips(c) THEN delta ELSE FuseWithOdometry(delta, delta + c.error, c.info)

NearCandidates(nodes) ==
  LET cur == Len(nodes) IN
  {j \in 1 .. cur - NearMinDiff :
     /\ j >= cur - NearBuffer
     /\ AbsDiff(nodes[cur].x, nodes[j].x) <= NearMaxDistance}

\* candidates by distance; the accepted ones become links until the limit
NearLinks(nodes, accepted) ==
  LET cur == Len(nodes)
      distance(j) == AbsDiff(nodes[cur].x, nodes[j].x)
      near == NearCandidates(nodes)
      nearer == {p \in near \X near : \/ distance(p[1]) < distance(p[2])
                                     \/ (distance(p[1]) = distance(p[2]) /\ p[1] < p[2])}
      taken == Selected(SortedBy(near, nearer), accepted)
      links == SubSeq(taken, 1, IF Len(taken) < NearMaxLinks THEN Len(taken) ELSE NearMaxLinks)
  IN [k \in DOMAIN links |-> Edge(links[k], cur, nodes[cur].x - nodes[links[k]].x, FALSE)]

\* build_pose_graph_builder(): loop closure wraps matching, which needs odometry
BuilderInit(kind) ==
  [kind |-> kind, nodes |-> <<>>, edges |-> <<>>, lastOdom |-> 0, failureStreak |-> 0]

\* the sequential edge and the node at its end
Extended(b, dx, fallback) ==
  LET prev == Len(b.nodes) IN
  [b EXCEPT !.nodes = Append(@, Shift(@[prev], dx)),
            !.edges = Append(@, Edge(prev, prev + 1, dx, fallback))]

\* ScanMatchingBuilder::add_scan for a keyframe
MatchingAddScan(od, c) ==
  LET b == Extended(builder, MatchedDelta(od - builder.lastOdom, c), ~c.converged) IN
  [b EXCEPT !.edges = @ \o IF Len(b.nodes) > NearMinDiff THEN NearLinks(b.nodes, c.near) ELSE <<>>,
            !.lastOdom = od,
            !.failureStreak = IF c.converged THEN 0 ELSE @ + 1]

\* OdomOnlyBuilder::add_scan for a keyframe
OdomAddScan(od) == [Extended(builder, od - builder.lastOdom, FALSE) EXCEPT !.lastOdom = od]

BuilderAddScan(od, c) ==
  CASE builder.nodes = <<>> -> [builder EXCEPT !.nodes = <<Pose(OdomFrame, od)>>, !.lastOdom = od]
    [] builder.nodes # <<>> /\ builder.kind = "odom" -> OdomAddScan(od)
    [] OTHER -> MatchingAddScan(od, c)

\* ensure_node_kdtree(): the search tree is rebuilt only when it is dirty
EnsureNodeKdtree(l) ==
  IF ~l.dirty /\ l.tree # <<>> THEN l ELSE [l EXCEPT !.tree = l.cache, !.dirty = FALSE]

\* find_loop_candidates(): old keyframes near the newest one
LoopCandidates(l) ==
  LET cur == Len(l.cache) IN
  {j \in DOMAIN l.tree : cur - j >= MinNodeGap /\ AbsDiff(l.cache[cur].x, l.tree[j].x) <= SearchRadius}

\* build_candidate_submap_with_normals(): the keyframes around the candidate
CandidateSubmap(l, j) == {i \in DOMAIN l.tree : AbsDiff(l.tree[i].x, l.cache[j].x) <= SubmapRadius}

\* build_query_submap(): the newest keyframes
QuerySubmap(l) == {i \in DOMAIN l.cache : i > Len(l.cache) - QueryWindow}

\* try_add_loop_edge() for each candidate in index order: one loop edge per old
\* keyframe, and only those whose match passes every gate
TryAddLoopEdges(l, accepted) ==
  LET cur == Len(l.cache)
      new == Selected([j \in DOMAIN l.tree |-> j],
                      {j \in LoopCandidates(l) \cap accepted :
                         /\ \A e \in Range(l.edges) : e.from # j
                         /\ CandidateSubmap(l, j) # {} /\ QuerySubmap(l) # {}})
  IN [l EXCEPT !.edges = @ \o [k \in DOMAIN new |->
        Edge(new[k], cur, l.cache[cur].x - l.cache[new[k]].x, FALSE)]]

\* LoopClosureBuilder::add_scan after the inner builder
LoopsAddScan(nodes, c) ==
  IF builder.kind # "loop" THEN loops
  ELSE LET l == [loops EXCEPT !.cache = Append(@, nodes[Len(nodes)]), !.dirty = TRUE]
       IN TryAddLoopEdges(EnsureNodeKdtree(l), c.loop)

\* mutated form: the tree over the old positions is kept
LoopsReplaceNodesClean(l, nodes) ==
  [l EXCEPT !.cache = [i \in DOMAIN @ |-> IF i \in DOMAIN nodes THEN nodes[i] ELSE @[i]]]

\* replace_nodes() of both builders
LoopsReplaceNodes(l, nodes) ==
  [l EXCEPT !.cache = [i \in DOMAIN @ |-> IF i \in DOMAIN nodes THEN nodes[i] ELSE @[i]],
            !.dirty = TRUE]

AllEdges(b, l) == b.edges \o l.edges
Gap(e) == e.to - e.from

----------------------------------------------------------------------------
(* GraphOrchestrator: the steps of process_frame, in the order it takes     *)
(* them.  g is the state they pass on: builder b, reference r, loops l,     *)
(* optimizer o, anchor a, orchestrator m.                                   *)

ReplaceNodes(g, nodes) ==
  [g EXCEPT !.b.nodes = nodes, !.r = SyncPoses(@, nodes), !.l = LoopsReplaceNodes(@, nodes)]

AddScan(od, c) ==
  LET b == BuilderAddScan(od, c)
      n == Len(b.nodes)
  IN [b |-> b,
      r |-> IF b.kind = "odom" THEN reference ELSE ReferenceUpdate(reference, n, b.nodes[n]),
      l |-> LoopsAddScan(b.nodes, c), o |-> optimizer, a |-> anchor, m |-> orch]

HasFix(c) == c.fix # 0
TrySetAnchor(a, c) ==
  IF a = None /\ Fixes[c.fix].status >= AnchorMinStatus THEN [utm |-> Fixes[c.fix].x] ELSE a
ToLocal(a, c) == Fixes[c.fix].x - a.utm

LoopEdgesOf(edges) == Selected(edges, {e \in Range(edges) : Gap(e) >= LoopGap})

\* rebase_and_rotate_nodes(): the first node becomes the origin of the map
RebaseAndRotate(nodes) ==
  [i \in DOMAIN nodes |-> Pose("map", nodes[i].x - nodes[1].x)]

\* the alignment: the graph is rebased to its first node, turned into the map
\* frame, and handed to a fresh optimiser with all the edges found so far
AlignGraph(g, rot) ==
  LET nodes == RebaseAndRotate(g.b.nodes)
      edges == AllEdges(g.b, g.l)
      o1 == [Initialize(1, Pose("map", 0)) EXCEPT
               !.pendingValues = Over(@, [i \in 2 .. Len(nodes) |-> nodes[i]])]
  IN [ReplaceNodes(g, nodes) EXCEPT
        !.o = FoldLeft(AddBetweenFactor, o1, edges),
        !.m.state = "RUNNING", !.m.initialized = TRUE, !.m.rot = rot,
        !.m.lastNode = Len(nodes), !.m.lastLoops = Len(LoopEdgesOf(edges))]

InitializeWithGnssIfReady(g, c) ==
  IF g.m.state # "INITIALIZING" \/ ~HasFix(c) THEN g
  ELSE LET g1 == [g EXCEPT !.a = TrySetAnchor(@, c)] IN
       IF g1.a = None \/ AbsDiff(ToLocal(g1.a, c), 0) < InitDistance THEN g1
       ELSE AlignGraph(g1, c.rot)

\* without GNSS the optimiser starts from the first node, and updates at once
InitializeOptimizerIfNeeded(g) ==
  IF g.m.initialized THEN g
  ELSE LET n == Len(g.b.nodes) IN
       [g EXCEPT !.o = Update(Initialize(n, g.b.nodes[n]), [from |-> n, by |-> 0]),
                 !.m.initialized = TRUE, !.m.lastNode = n]

\* the edge n-1 -> n, and the mesh links that end in the new node
AddLatestSeqEdge(g) ==
  LET n == Len(g.b.nodes)
      edges == AllEdges(g.b, g.l)
      seq == Selected(edges, {e \in Range(edges) : Gap(e) = 1 /\ e.to = n})
      mesh == Selected(edges, {e \in Range(edges) : e.to = n /\ Gap(e) > 1 /\ Gap(e) < LoopGap})
  IN IF seq = <<>> \/ n <= g.m.lastNode THEN g
     ELSE LET e == Last1(seq)
              guess == IF e.from \in DOMAIN g.o.estimate
                       THEN Shift(g.o.estimate[e.from], e.dx) ELSE g.b.nodes[n]
              o1 == AddBetweenFactor(AddInitialEstimate(g.o, n, guess), e)
          IN [g EXCEPT !.o = FoldLeft(AddBetweenFactor, o1, Reverse(mesh)), !.m.lastNode = n]

\* mutated form: the cursor over the loop edges is not moved
AddNewLoopEdgesAgain(g) ==
  LET all == LoopEdgesOf(AllEdges(g.b, g.l)) IN
  IF Len(all) <= g.m.lastLoops THEN g
  ELSE [g EXCEPT !.o = FoldLeft(AddBetweenFactor, @, SubSeq(all, g.m.lastLoops + 1, Len(all)))]

\* loop edges are recognised by their gap and counted with a cursor into the
\* list, which is only right while that list grows at its end
AddNewLoopEdges(g) ==
  LET all == LoopEdgesOf(AllEdges(g.b, g.l)) IN
  IF Len(all) <= g.m.lastLoops THEN g
  ELSE [g EXCEPT !.o = FoldLeft(AddBetweenFactor, @, SubSeq(all, g.m.lastLoops + 1, Len(all))),
                 !.m.lastLoops = Len(all)]

LoopClosed(g) == Len(LoopEdgesOf(AllEdges(g.b, g.l))) > g.m.lastLoops

\* the sliding window of samples a re-anchoring is estimated from
CollectSample(samples, x) ==
  LET grown == IF samples = <<>> \/ AbsDiff(x, Last1(samples)) > SampleGap
               THEN Append(samples, x) ELSE samples
      capped == IF Len(grown) > ReanchorSamples + 5 THEN Tail(grown) ELSE grown
      first == SelectInSeq(capped, LAMBDA s : AbsDiff(s, Last1(capped)) <= ReanchorSpan)
  IN SubSeq(capped, first, Len(capped))

\* x is the position process_frame holds for the new node
TryDynamicReanchor(g, x, c) ==
  IF g.m.reanchored \/ ~HasFix(c) \/ g.a = None THEN g
  ELSE IF \/ Fixes[c.fix].status < ReanchorMinStatus
          \/ Fixes[c.fix].sigma <= 0 \/ Fixes[c.fix].sigma > ReanchorSigma THEN g
  ELSE LET s == CollectSample(g.m.samples, x)
           g1 == [g EXCEPT !.m.samples = s]
       IN IF \/ Len(s) < ReanchorSamples
             \/ \A i, j \in DOMAIN s : AbsDiff(s[i], s[j]) < ReanchorDistance
             \/ ~c.fits
          THEN g1
          ELSE [g1 EXCEPT !.a.utm = @ + c.shift, !.m.lastPos = None, !.m.reanchored = TRUE]

AddGnssPrior(g, x, c) ==
  IF ~HasFix(c) \/ g.a = None \/ c.fix = g.m.lastTs THEN g
  ELSE LET fix == Fixes[c.fix]
           gx == ToLocal(g.a, c)
       IN IF \/ fix.status < PriorMinStatus
             \/ fix.sigma > MaxSigma
             \/ MaxInnovation > 0 /\ AbsDiff(gx, x) > MaxInnovation
             \/ g.m.lastPos # None /\ AbsDiff(gx, g.m.lastPos.x) < MinInterval
          THEN g
          ELSE [g EXCEPT !.o = AddGnssFactor(@, Len(g.b.nodes), gx, c.fix),
                         !.m.lastTs = c.fix, !.m.lastPos = [x |-> gx]]

\* every node takes the pose the optimiser gives it
Optimised(g) ==
  [i \in DOMAIN g.b.nodes |->
     IF i \in DOMAIN g.o.estimate THEN g.o.estimate[i] ELSE g.b.nodes[i]]

\* is anything further from its recorded drawing than the threshold?
MovedTooFar(g, nodes) ==
  \E i \in DOMAIN nodes \cap DOMAIN g.m.rendered \cap DOMAIN g.o.estimate :
     AbsDiff(nodes[i].x, g.m.rendered[i].x) >= RerenderThreshold

FirstRender(g) ==
  /\ g.m.useGnss /\ ~g.m.firstRender
  /\ g.m.lastNode = Len(g.b.nodes) /\ g.m.rot # 0 /\ Len(g.b.nodes) > 1

\* apply_optimized_poses(): node is the pose held before the optimisation, and
\* is what gets recorded as drawn when the map is not redrawn
ApplyOptimizedPoses(g, node, force) ==
  LET nodes == Optimised(g)
      redraw == force \/ FirstRender(g) \/ (RerenderThreshold > 0 /\ MovedTooFar(g, nodes))
      m == [g.m EXCEPT !.firstRender = @ \/ FirstRender(g),
                       !.rendered = IF redraw THEN nodes ELSE Over(Only(Len(nodes), node), @)]
  IN [g |-> [ReplaceNodes(g, nodes) EXCEPT !.m = m], redraw |-> redraw]

\* what process_frame has done when it reaches optimizer_.update()
BeforeUpdate(g1, x, c) ==
  LET g2 == AddNewLoopEdges(AddLatestSeqEdge(InitializeOptimizerIfNeeded(g1)))
      g3 == TryDynamicReanchor(g2, x, c)
      held == IF g3.m.reanchored # g2.m.reanchored THEN Last1(g3.b.nodes).x ELSE x
  IN AddGnssPrior(g3, held, c)

Commit(g) ==
  /\ builder' = g.b /\ reference' = g.r /\ loops' = g.l
  /\ optimizer' = g.o /\ anchor' = g.a /\ orch' = g.m

----------------------------------------------------------------------------
(* SlamNodeBase: what it draws for a processed frame.                       *)

\* SlamTfBroadcaster::update(): map -> odom from the new node
UpdateTf(v, node, od) == [v EXCEPT !.tf = node.x - od]

\* SlamVisualizer: the path is rebuilt from the graph, or extended by one pose
RebuildPath(nodes) == nodes
PublishPathIncrement(path, node) == Append(path, node)

\* publish_pose_graph_markers(): a loop edge is one over more than one index
PublishPoseGraphMarkers(nodes, edges) ==
  LET known == Selected(edges, {e \in Range(edges) : {e.from, e.to} \subseteq DOMAIN nodes})
  IN [seq  |-> Selected(known, {e \in Range(known) : Gap(e) <= 1}),
      loop |-> Selected(known, {e \in Range(known) : Gap(e) > 1})]

\* mutated form: only the first anchor is published
PublishAnchorOnce(v, a) == IF a = None \/ v.anchor # None THEN v ELSE [v EXCEPT !.anchor = a]

\* publish_anchor(): when there is one, and it is not as good as the one
\* published last
SameAnchor(a, b) == AbsDiff(a.utm, b.utm) <= AnchorStep
PublishAnchor(v, a) ==
  IF a = None THEN v
  ELSE IF v.anchor # None /\ SameAnchor(a, v.anchor) THEN v
  ELSE [v EXCEPT !.anchor = a]

PublishMap(v) == [v EXCEPT !.dirty = FALSE]

\* the drawing of on_frame(): a grid that cannot hold the node is drawn anew,
\* while the path only grows
Draw(v, g, redraw, fits) ==
  LET nodes == g.b.nodes
      node  == Last1(nodes)
  IN IF v.skip THEN v
     ELSE [v EXCEPT !.dirty = TRUE,
             !.drawn = IF redraw \/ ~fits THEN nodes ELSE Over(Only(Len(nodes), node), @),
             !.path = IF redraw THEN RebuildPath(nodes) ELSE PublishPathIncrement(@, node),
             !.markers = PublishPoseGraphMarkers(nodes, AllEdges(g.b, g.l))]

\* the constructor of GraphOrchestrator
OrchestratorInit(gnss) ==
  [useGnss |-> gnss, state |-> IF gnss THEN "INITIALIZING" ELSE "RUNNING",
   initialized |-> FALSE, lastNode |-> 0, lastLoops |-> 0, rot |-> 0,
   rendered |-> Empty, lastTs |-> 0, lastPos |-> None, firstRender |-> FALSE,
   reanchored |-> FALSE, samples |-> <<>>]

GraphInit ==
  /\ input = [odom |-> 0, fix |-> 0]
  /\ \E kind \in Builders : builder = BuilderInit(kind)
  /\ reference = [window |-> <<>>, last |-> None]
  /\ loops = [cache |-> <<>>, edges |-> <<>>, tree |-> <<>>, dirty |-> TRUE]
  /\ optimizer = OptimizerInit
  /\ anchor = None
  /\ \E gnss \in GnssModes : orch = OrchestratorInit(gnss)
  /\ \E skip \in SkipModes :
       view = [skip |-> skip, drawn |-> Empty, dirty |-> FALSE, tf |-> 0, path |-> <<>>,
               markers |-> [seq |-> <<>>, loop |-> <<>>], anchor |-> None]
  /\ phase = "spinning"

\* the outcomes of the numerical code in one frame, and the fix nearest to it:
\* none, the last one again, or the next
Outcomes ==
  {[n EXCEPT !.fix = f] : n \in Numerics,
     f \in IF orch.useGnss THEN FixLoss \cup ((0 .. Len(Fixes)) \cap (input.fix .. input.fix + 1)) ELSE {0}}

NewInput(step, c) ==
  [odom |-> input.odom + step, fix |-> IF HasFix(c) THEN c.fix ELSE input.fix]

\* a frame below the keyframe thresholds: add_scan returns nothing
SkipFrame(step, c) ==
  /\ phase = "spinning" /\ ~IsKeyframe(input.odom + step, c)
  /\ input' = [input EXCEPT !.odom = @ + step]
  /\ UNCHANGED <<builder, reference, loops, optimizer, anchor, orch, view, phase>>

Keyframe(step, c) ==
  /\ phase = "spinning" /\ IsKeyframe(input.odom + step, c)
  /\ Len(builder.nodes) < MaxNodes
  /\ input' = NewInput(step, c)

\* a keyframe while the GNSS alignment is still missing: drawn, not optimised
InitializingFrame(step, c) ==
  /\ Keyframe(step, c)
  /\ \E g \in {InitializeWithGnssIfReady(AddScan(input.odom + step, c), c)} :
       /\ g.m.state = "INITIALIZING"
       /\ Commit(g)
       /\ view' = Draw(UpdateTf(view, Last1(g.b.nodes), g.b.lastOdom), g, FALSE, c.fits)
  /\ UNCHANGED phase

\* a keyframe of an aligned graph: edges, prior, optimisation, drawing
RunningFrame(step, c) ==
  /\ Keyframe(step, c)
  /\ \E added \in {AddScan(input.odom + step, c)} :
     \E ready \in {InitializeWithGnssIfReady(added, c)} :
       /\ ready.m.state = "RUNNING"
       /\ \E g \in {BeforeUpdate(ready, Last1(added.b.nodes).x, c)}, bend \in Bends :
            LET moved == g.m.reanchored # ready.m.reanchored
                held  == IF moved THEN Last1(g.b.nodes) ELSE Last1(added.b.nodes)
                closed == moved \/ LoopClosed(ready)
            IN /\ WellPosed(g.o)
               /\ \E done \in {ApplyOptimizedPoses([g EXCEPT !.o = Update(@, bend)], held, closed)} :
                    /\ Commit(done.g)
                    /\ view' = Draw(UpdateTf(view, Last1(done.g.b.nodes), g.b.lastOdom),
                                    done.g, done.redraw, c.fits)
  /\ UNCHANGED phase

\* optimizer_.update() throws: everything before it stays done, nothing is drawn
FailingFrame(step, c) ==
  /\ Keyframe(step, c)
  /\ \E added \in {AddScan(input.odom + step, c)} :
     \E ready \in {InitializeWithGnssIfReady(added, c)} :
       /\ ready.m.state = "RUNNING"
       /\ \E g \in {BeforeUpdate(ready, Last1(added.b.nodes).x, c)} :
            /\ Commit(g)
            /\ phase' = IF WellPosed(g.o) THEN "interrupted" ELSE "key error"
  /\ UNCHANGED view

\* the map timer: the anchor is published when it changed, the grid when
\* something was drawn since
PublishMapTimer ==
  /\ phase = "spinning"
  /\ view' = PublishMap(PublishAnchor(view, anchor))
  /\ view' # view
  /\ UNCHANGED <<input, builder, reference, loops, optimizer, anchor, orch, phase>>

\* finalize(): batch optimisation, redraw of everything, last publication
Finalize(bend) ==
  LET o == IF BatchOnFinalize THEN RunBatch(optimizer, bend) ELSE optimizer
      g == [b |-> builder, r |-> reference, l |-> loops, o |-> o, a |-> anchor, m |-> orch]
      nodes == Optimised(g)
  IN /\ phase \in {"spinning", "interrupted"}
     /\ Commit(ReplaceNodes(g, nodes))
     /\ view' = PublishMap(PublishAnchor(
                  [view EXCEPT !.drawn = nodes, !.path = RebuildPath(nodes)], anchor))
     /\ phase' = "finalized"
     /\ UNCHANGED input

\* the pending update throws again inside finalize(), which nothing catches
Terminate ==
  /\ phase = "interrupted" /\ BatchOnFinalize /\ HasPending(optimizer)
  /\ phase' = "terminated"
  /\ UNCHANGED <<input, builder, reference, loops, optimizer, anchor, orch, view>>

GraphNext ==
  \/ \E step \in Steps, c \in Outcomes : SkipFrame(step, c)
  \/ \E step \in Steps, c \in Outcomes : InitializingFrame(step, c)
  \/ \E step \in Steps, c \in Outcomes : RunningFrame(step, c)
  \/ \E step \in Steps, c \in Outcomes : FailingFrame(step, c)
  \/ PublishMapTimer
  \/ \E b \in Bends : Finalize(b)
  \/ Terminate

GraphSpec == GraphInit /\ [][GraphNext]_graphVars

----------------------------------------------------------------------------
(* Properties.                                                              *)

(* Every edge of the pose graph - sequential, mesh link or loop closure -   *)
(* is a factor of the optimiser exactly once: process_frame recognises the  *)
(* three kinds by their index gap and takes loop edges with a cursor, so an *)
(* edge could be missed or counted twice.                                   *)
EdgesAreOptimisedOnce ==
  orch.initialized =>
    LET edges == AllEdges(builder, loops)
    IN /\ Len(optimizer.geom) = Len(edges)
       /\ Range(optimizer.geom) = Range(edges)

(* The optimiser is never handed a variable twice or a factor on a variable *)
(* it does not know (gtsam throws on both), whichever way it was started    *)
(* and wherever an earlier frame was interrupted.                           *)
OptimizerIsWellPosed == phase # "key error"

(* Between two frames the loop builder's copy of the keyframes and the      *)
(* local reference map hold the same poses, in the same frame, as the graph *)
(* itself (replace_nodes has to reach all three), the search tree is that   *)
(* copy or known to be stale, map -> odom puts the robot on the newest      *)
(* keyframe, and the markers and the path show every edge and keyframe once.*)
CachesFollowGraph ==
  /\ builder.kind = "loop" => loops.cache = builder.nodes
  /\ ~loops.dirty => loops.tree = loops.cache
  /\ phase = "spinning" /\ builder.nodes # <<>> => view.tf = Last1(builder.nodes).x - builder.lastOdom
  /\ phase = "spinning" /\ ~view.skip =>
       /\ Len(view.path) = Len(builder.nodes)
       /\ Len(view.markers.seq) + Len(view.markers.loop) = Len(AllEdges(builder, loops))
  /\ \A k \in DOMAIN reference.window : reference.window[k].p = builder.nodes[reference.window[k].i]
  /\ orch.state = "RUNNING" => \A p \in Range(builder.nodes) : p.frame = "map"

(* No GNSS fix constrains two keyframes: the same fix is the nearest one    *)
(* for many scans, and only last_gnss_timestamp_ keeps it from being added  *)
(* again.                                                                   *)
FixesAreUsedOnce ==
  \A i, j \in DOMAIN optimizer.gnss : optimizer.gnss[i].ts = optimizer.gnss[j].ts => i = j

(* A finalised run has drawn and published every keyframe where the graph   *)
(* finally has it, also when intermediate drawing was off or an exception   *)
(* ended the run; the path is that of the graph, and the anchor published   *)
(* is the one the graph is expressed in, also after a re-anchoring, to the  *)
(* precision that publish_anchor compares with.                             *)
FinalMapIsTheGraph ==
  phase = "finalized" =>
    /\ view.drawn = builder.nodes /\ ~view.dirty
    /\ view.path = builder.nodes
    /\ anchor # None <=> view.anchor # None
    /\ anchor # None => SameAnchor(anchor, view.anchor)

(* The optimisation problem is the one the graph states: every edge and     *)
(* every fix enters it exactly once and every factor is about variables it  *)
(* has (process_frame, add_new_loop_edges, add_gnss_prior).                 *)
FactorsAreUsedOnce == EdgesAreOptimisedOnce /\ FixesAreUsedOnce /\ OptimizerIsWellPosed
=============================================================================
