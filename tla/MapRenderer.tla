---------------------------- MODULE MapRenderer ----------------------------
(***************************************************************************)
(* CountingRenderer and OverwriteRenderer: the occupancy map of the SLAM    *)
(* node, drawn scan by scan while frames come in and drawn anew, by up to   *)
(* four threads, when the optimiser has moved the poses or a scan does not  *)
(* fit.  The map is a line of pixels, Res units each; a node's scan is the  *)
(* set of its hits relative to the robot.                                   *)
(***************************************************************************)
EXTENDS Integers, Sequences, FiniteSets, SequencesExt, FiniteSetsExt

CONSTANTS
  RenderKinds,            \* subset of {"counting", "overwrite"}
  HitScans,                  \* the scans: each a set of hit offsets
  NodeSteps,                  \* how far a new node may be from the last one
  Drift,                  \* how far an optimisation moves the newest node
  MaxDrawn, MaxMoves,     \* bounds: nodes of a run, and optimisations that move them
  Res, ExpansionMargin,
  MissClearance,          \* miss_clearance_margin in pixels
  MinHits, HitWeight, MissWeight, HitThreshold,  \* the last three in hundredths
  MissRatios,             \* max_miss_ratio in hundredths, 0 for no cap
  RenderThreads, Chunk,   \* threads, and nodes per turn, of rerender_all
  SmallCount,             \* up to this many nodes are drawn by one thread
  MaskRadius              \* of the trajectory noise filter, in pixels

VARIABLES
  rkind,     \* which renderer
  missRatio, \* max_miss_ratio_ of this run
  canvas,    \* origin_x_, map_width_, initialized_, hit_map_, miss_map_ / map_
  graph,     \* the nodes of the pose graph
  job,       \* rerender_all in progress: threads' maps and the next node
  moves,     \* optimisations that moved nodes
  filtered   \* the trajectory filter has been applied (the end of the run)

renderVars == <<rkind, missRatio, canvas, graph, job, moves, filtered>>

Absolute(v) == IF v < 0 THEN -v ELSE v
TruncDiv(a, b) == IF a >= 0 THEN a \div b ELSE -((-a) \div b)

----------------------------------------------------------------------------
(* grid_utils.                                                              *)

\* compute_bounds()
ComputeBounds(nodes) ==
  LET xs == {nodes[i].x : i \in DOMAIN nodes}
      span == Max(xs) - Min(xs) + 2 * ExpansionMargin
  IN [origin |-> Min(xs) - ExpansionMargin, width |-> Max({1, (span + Res - 1) \div Res})]

\* world_to_pixel() truncates, so the pixel left of the map is pixel 0 too
WorldToPixel(c, x) == TruncDiv(x - c.origin, Res)
InBounds(c, p) == p >= 0 /\ p < c.width

\* scan_hits_to_pixels(): the hits inside the map (one entry per beam)
HitPixels(c, n) ==
  {h \in HitScans[n.scan] : InBounds(c, WorldToPixel(c, n.x + h))}

----------------------------------------------------------------------------
(* What one scan adds (render_node_impl): the pixels a beam passed through   *)
(* freely, counted once, and a hit per beam.                                *)

\* the free part of the beam from pixel s to pixel e ends before the margin
BeamPixels(s, e) ==
  LET d == Absolute(e - s)
      free == IF d > MissClearance /\ MissClearance > 0 THEN d - MissClearance ELSE d
      end == IF e >= s THEN s + free ELSE s - free
  IN IF e >= s THEN s .. end ELSE end .. s

MissPixels(c, n) ==
  LET px == {WorldToPixel(c, n.x + h) : h \in HitPixels(c, n)}
      passed == UNION {BeamPixels(WorldToPixel(c, n.x), p) : p \in px}
  IN {p \in passed : \A q \in px : Absolute(p - q) > MissClearance}

HitsAt(c, n, p) == Cardinality({h \in HitPixels(c, n) : WorldToPixel(c, n.x + h) = p})

\* pixels of the empty maps
Blank(c) == [p \in 0 .. c.width - 1 |-> IF rkind = "counting" THEN [hit |-> 0, miss |-> 0]
                                         ELSE [seen |-> "unknown"]]

\* render_node_impl() / render_node() on the pixels m of the map c
RenderNode(c, m, n) ==
  IF ~InBounds(c, WorldToPixel(c, n.x)) THEN m
  ELSE IF rkind = "counting"
  THEN LET miss == MissPixels(c, n) IN
       [p \in DOMAIN m |-> [hit |-> m[p].hit + HitsAt(c, n, p),
                            miss |-> m[p].miss + (IF p \in miss THEN 1 ELSE 0)]]
  ELSE LET px == {WorldToPixel(c, n.x + h) : h \in HitPixels(c, n)}
           passed == UNION {(IF q >= s THEN s .. q ELSE q .. s) :
                              q \in px, s \in {WorldToPixel(c, n.x)}}
       IN [p \in DOMAIN m |-> [seen |-> IF p \in px THEN "occupied"
                                        ELSE IF p \in passed THEN "free" ELSE m[p].seen]]

RenderAll(c, m, nodes) ==
  LET done[i \in 0 .. Len(nodes)] ==
        IF i = 0 THEN m ELSE LET before == done[i - 1] IN RenderNode(c, before, nodes[i])
  IN done[Len(nodes)]

----------------------------------------------------------------------------
(* The calls.                                                               *)

NoJob == [busy |-> FALSE]
Idle == ~job.busy /\ ~filtered

\* rerender_all(): new bounds; few nodes are drawn here and now, many by threads
StartRerender(nodes) ==
  LET b == ComputeBounds(nodes)
      c == [origin |-> b.origin, width |-> b.width, init |-> TRUE, px |-> <<>>]
  IN IF rkind = "overwrite" \/ RenderThreads <= 1 \/ Len(nodes) <= SmallCount
     THEN /\ canvas' = [c EXCEPT !.px = RenderAll(c, Blank(c), nodes)]
          /\ job' = NoJob
     ELSE /\ canvas' = [c EXCEPT !.px = Blank(c)]
          /\ job' = [busy |-> TRUE, next |-> 1, part |-> [t \in 1 .. RenderThreads |-> Blank(c)]]

\* add_node() of on_frame(); a scan that does not fit redraws the whole map
AddNode(step, scan) ==
  LET n == [x |-> (IF graph = <<>> THEN 0 ELSE Last(graph).x) + step, scan |-> scan] IN
  /\ Idle /\ Len(graph) < MaxDrawn
  /\ graph' = Append(graph, n)
  /\ IF canvas.init /\ canvas.width > 1 /\ InBounds(canvas, WorldToPixel(canvas, n.x))
     THEN /\ canvas' = [canvas EXCEPT !.px = RenderNode(canvas, @, n)]
          /\ UNCHANGED job
     ELSE StartRerender(graph')
  /\ UNCHANGED <<rkind, missRatio, moves, filtered>>

\* the optimiser moved the poses: on_frame() redraws the map
MoveNodes(d) ==
  /\ Idle /\ Len(graph) > 1 /\ moves < MaxMoves
  /\ moves' = moves + 1
  /\ graph' = [graph EXCEPT ![Len(graph)].x = @ + d]
  /\ StartRerender(graph')
  /\ UNCHANGED <<rkind, missRatio, filtered>>

\* mutated form: a chunk ends one node too late
RenderChunkOverlapping(t) ==
  /\ job.busy /\ job.next <= Len(graph)
  /\ job' = [job EXCEPT !.next = @ + Chunk,
               !.part[t] = RenderAll(canvas, @,
                             SubSeq(graph, job.next, Min({job.next + Chunk, Len(graph)})))]
  /\ UNCHANGED <<rkind, missRatio, canvas, graph, moves, filtered>>

\* a thread takes the next chunk of nodes into its own maps
RenderChunk(t) ==
  /\ job.busy /\ job.next <= Len(graph)
  /\ job' = [job EXCEPT !.next = @ + Chunk,
               !.part[t] = RenderAll(canvas, @,
                             SubSeq(graph, job.next, Min({job.next + Chunk - 1, Len(graph)})))]
  /\ UNCHANGED <<rkind, missRatio, canvas, graph, moves, filtered>>

\* the threads' maps are added up
MergeParts ==
  /\ job.busy /\ job.next > Len(graph)
  /\ LET sum[t \in 0 .. RenderThreads] ==
           IF t = 0 THEN canvas.px
           ELSE LET s == sum[t - 1] IN
                [p \in DOMAIN s |-> [hit |-> s[p].hit + job.part[t][p].hit,
                                     miss |-> s[p].miss + job.part[t][p].miss]]
     IN canvas' = [canvas EXCEPT !.px = sum[RenderThreads]]
  /\ job' = NoJob
  /\ UNCHANGED <<rkind, missRatio, graph, moves, filtered>>

\* build_trajectory_mask(): a band around the line through the nodes
TrajectoryMask ==
  LET px == {WorldToPixel(canvas, graph[i].x) : i \in DOMAIN graph}
  IN {p \in DOMAIN canvas.px : p >= Min(px) - MaskRadius /\ p <= Max(px) + MaskRadius}

\* TrajectoryNoiseFilter::apply() at the end: finalize() drew the map just before
ApplyTrajectoryMask(type) ==
  /\ Idle /\ graph # <<>> /\ filtered' = TRUE
  /\ canvas' = [canvas EXCEPT !.px = [p \in DOMAIN @ |->
       IF p \notin TrajectoryMask THEN @[p]
       ELSE IF rkind = "overwrite" THEN [seen |-> "free"]
       ELSE IF type = "clear" THEN [hit |-> 0, miss |-> @[p].miss + 1]
       ELSE [hit |-> Max({0, @[p].hit - 2}) \div 2, miss |-> @[p].miss + 2]]]
  /\ UNCHANGED <<rkind, missRatio, graph, job, moves>>

\* mutated form: every miss counts against a confirmed wall
OccupancyUncapped(v) ==
  IF rkind = "overwrite" THEN v.seen
  ELSE LET hitPart == v.hit * HitWeight
           total == hitPart + v.miss * MissWeight
       IN IF total <= 0 THEN "unknown"
          ELSE IF v.hit >= MinHits /\ 100 * hitPart >= HitThreshold * total
          THEN "occupied" ELSE "free"

\* to_occupancy_array() of one pixel
Occupancy(v) ==
  IF rkind = "overwrite" THEN v.seen
  ELSE LET allowed == (v.hit * missRatio) \div 100
           misses == IF v.hit >= MinHits /\ missRatio > 0 THEN Min({v.miss, allowed}) ELSE v.miss
           hitPart == v.hit * HitWeight
           total == hitPart + misses * MissWeight
       IN CASE v.hit = 0 /\ v.miss = 0 -> "unknown"
            [] v.hit + v.miss > 0 /\ total <= 0 -> "unknown"
            [] OTHER -> IF v.hit >= MinHits /\ 100 * hitPart >= HitThreshold * total
                        THEN "occupied" ELSE "free"

RenderInit ==
  /\ rkind \in RenderKinds
  /\ missRatio \in MissRatios
  /\ canvas = [origin |-> 0, width |-> 1, init |-> FALSE, px |-> <<>>]
  /\ graph = <<>> /\ job = NoJob /\ moves = 0 /\ filtered = FALSE

RenderNext ==
  \/ \E s \in NodeSteps, k \in DOMAIN HitScans : AddNode(s, k)
  \/ \E d \in Drift : MoveNodes(d)
  \/ \E t \in 1 .. RenderThreads : RenderChunk(t)
  \/ MergeParts
  \/ \E type \in {"clear", "attenuate"} : ApplyTrajectoryMask(type)

----------------------------------------------------------------------------
(* Properties.                                                              *)

\* the nodes whose scan says something about pixel p, for the overwriting map
Touches(n, p) ==
  \E h \in HitPixels(canvas, n) :
    LET s == WorldToPixel(canvas, n.x)
        q == WorldToPixel(canvas, n.x + h)
    IN p \in (IF q >= s THEN s .. q ELSE q .. s)

(* Whatever mixture of single scans, redraws, moved poses and threads led to   *)
(* it, the map is that of the graph as it stands: each pixel's counts are the  *)
(* sums over all nodes (no node lost at a redraw, none counted twice, none     *)
(* drawn at a pose it has left); an overwriting map shows what the newest node *)
(* that saw the pixel says; and every node lies on the map.                    *)
MapIsTheGraph ==
  Idle =>
    /\ \A i \in DOMAIN graph : InBounds(canvas, WorldToPixel(canvas, graph[i].x))
    /\ \A p \in DOMAIN canvas.px :
         IF rkind = "counting"
         THEN /\ canvas.px[p].hit = MapThenSumSet(LAMBDA i : HitsAt(canvas, graph[i], p), DOMAIN graph)
              /\ canvas.px[p].miss = Cardinality({i \in DOMAIN graph : p \in MissPixels(canvas, graph[i])})
         ELSE LET saw == {i \in DOMAIN graph : Touches(graph[i], p)} IN
              canvas.px[p].seen = IF saw = {} THEN "unknown"
                                  ELSE IF HitsAt(canvas, graph[Max(saw)], p) > 0 THEN "occupied"
                                  ELSE "free"

\* the cap leaves a confirmed wall above the threshold whatever passes through it
CapProtects ==
  missRatio > 0 /\ 10000 * HitWeight >= HitThreshold * (100 * HitWeight + missRatio * MissWeight)

\* what the scans of the graph say about pixel p, weighed: mostly beams that passed
PassesPrevail(nodes, p) ==
  LET hits == MapThenSumSet(LAMBDA i : HitsAt(canvas, nodes[i], p), DOMAIN nodes)
      passes == Cardinality({i \in DOMAIN nodes : p \in MissPixels(canvas, nodes[i])})
  IN 100 * hits * HitWeight < HitThreshold * (hits * HitWeight + passes * MissWeight)

(* On the counting map a wall that has been confirmed (min_hits hits) is not   *)
(* eroded by the next scan, however many beams pass through it, if the cap on  *)
(* misses with its truncation protects it.  With the cap off (as in            *)
(* slam_gnss_2d.yaml) or too high it turns free only when the beams of the     *)
(* whole graph that passed through it, weighed, prevail.                       *)
ConfirmedWallsStay ==
  [][\A p \in DOMAIN canvas.px :
       (/\ rkind = "counting" /\ Idle /\ ~job'.busy /\ ~filtered'
        /\ canvas'.origin = canvas.origin /\ canvas'.width = canvas.width
        /\ Len(graph') = Len(graph) + 1
        /\ canvas.px[p].hit >= MinHits /\ Occupancy(canvas.px[p]) = "occupied")
       => \/ Occupancy(canvas'.px[p]) = "occupied"
          \/ ~CapProtects /\ PassesPrevail(graph', p)]_renderVars
=============================================================================
