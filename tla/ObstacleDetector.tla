-------------------------- MODULE ObstacleDetector --------------------------
(***************************************************************************)
(* obstacle_detection::ObstacleDetector: a cloud becomes a height grid, the *)
(* cells with a large height difference are clustered, and the points of    *)
(* the clusters that are large enough go to the costmap.  The grid and the  *)
(* labels live as long as the node; a frame only clears the cells the       *)
(* previous one touched.  Points are given in the base frame, in cells      *)
(* times Res; NoPoint stands for a NaN.  The node around it looks up the    *)
(* transform of the cloud and publishes the points and the cluster markers. *)
(***************************************************************************)
EXTENDS Integers, Sequences, FiniteSets, SequencesExt, FiniteSetsExt

CONSTANTS
  Clouds,         \* the clouds explored: sequences of [x, y, z] or NoPoint
  Width, Height, Res,        \* the crop box in cells, and the points per cell side
  ZMin, ZMax,     \* cropbox_z_*
  Stride, DeltaZ, MinPoints, Trim, LinkRadius, MinCells,
  NoPoint

VARIABLES
  grid,       \* the cells touched so far: count and the two extremes at each end
  labels,     \* labels_: the cells that are unvisited candidates, and those of a
              \* cluster; every other cell has none
  touched,    \* touched_cells_
  cloud,      \* the frame being processed
  obstacles,  \* obstacle_points_ of the last frame, as indices, and its cluster count
  published   \* the node: is it up, the cloud sent last, the markers on display

detectorVars == <<grid, labels, touched, cloud, obstacles, published>>

Cells == (0 .. Width - 1) \X (0 .. Height - 1)
EmptyCell == [count |-> 0, min1 |-> 0, min2 |-> 0, max1 |-> 0, max2 |-> 0]
Inf == 1000

\* validate(): what the constructor refuses
ValidParams ==
  /\ Stride >= 1 /\ Width > 0 /\ Height > 0 /\ ZMin < ZMax /\ Res > 0 /\ DeltaZ >= 0
  /\ MinPoints >= 1 /\ Trim \in {0, 1} /\ LinkRadius >= 1 /\ MinCells >= 1

ASSUME ParamsAssumption == ValidParams

\* the constructor: a trimmed cell needs two points more
MinPointsNeeded == Max({MinPoints, 2 * Trim + 2})

Cropped(p) ==
  /\ p # NoPoint
  /\ p.x >= 0 /\ p.x < Width * Res /\ p.y >= 0 /\ p.y < Height * Res /\ p.z >= ZMin /\ p.z <= ZMax

CellOf(p) == <<p.x \div Res, p.y \div Res>>

\* the smallest, second smallest, largest and second largest height of a cell
AddPoint(c, z) ==
  IF c.count = 0 THEN [count |-> 1, min1 |-> z, min2 |-> Inf, max1 |-> z, max2 |-> -Inf]
  ELSE [count |-> c.count + 1,
        min1 |-> IF z < c.min1 THEN z ELSE c.min1,
        min2 |-> IF z < c.min1 THEN c.min1 ELSE IF z < c.min2 THEN z ELSE c.min2,
        max1 |-> IF z > c.max1 THEN z ELSE c.max1,
        max2 |-> IF z > c.max1 THEN c.max1 ELSE IF z > c.max2 THEN z ELSE c.max2]

\* the points of a frame that are looked at and lie in the crop box (cropped_)
CroppedPoints(pts) == {k \in DOMAIN pts : (k - 1) % Stride = 0 /\ Cropped(pts[k])}

\* mutated form: the touched cells are not cleared
AccumulateOver(pts) ==
  LET pass[k \in 0 .. Len(pts)] ==
        IF k = 0 THEN grid
        ELSE LET g == pass[k - 1] IN
             IF k \in CroppedPoints(pts) THEN [g EXCEPT ![CellOf(pts[k])] = AddPoint(@, pts[k].z)]
             ELSE g
  IN pass[Len(pts)]

\* accumulate(): clear what the previous frame touched, then one pass
Accumulate(pts) ==
  LET pass[k \in 0 .. Len(pts)] ==
        IF k = 0 THEN [c \in Cells |-> IF c \in touched THEN EmptyCell ELSE grid[c]]
        ELSE LET g == pass[k - 1] IN
             IF k \in CroppedPoints(pts) THEN [g EXCEPT ![CellOf(pts[k])] = AddPoint(@, pts[k].z)]
             ELSE g
  IN pass[Len(pts)]

\* judgeCells(): is the height difference of a touched cell over the limit?
JudgeCell(g) ==
  /\ g.count >= MinPointsNeeded
  /\ (IF Trim > 0 THEN g.max2 - g.min2 ELSE g.max1 - g.min1) > DeltaZ

Linked(c) == {d \in Cells : /\ d[1] - c[1] <= LinkRadius /\ c[1] - d[1] <= LinkRadius
                            /\ d[2] - c[2] <= LinkRadius /\ c[2] - d[2] <= LinkRadius}

\* the inner loop of clusterCells(): the component of a seed among the
\* unvisited cells; a cell is labelled when it is pushed, so pushed once
Flood(seed, unvisited) ==
  LET turn[n \in 0 .. Width * Height] ==
        IF n = 0 THEN {seed}
        ELSE LET comp == turn[n - 1] IN
             comp \cup {d \in unvisited : \E c \in comp : d \in Linked(c)}
  IN turn[Width * Height]

\* clusterCells(): components of candidates; a small one gives its label back
ClusterCells(lab0) ==
  LET order == SetToSeq(lab0.unvisited)
      grown[k \in 0 .. Len(order)] ==
        IF k = 0 THEN [clusters |-> 0, unvisited |-> lab0.unvisited, cluster |-> lab0.cluster]
        ELSE LET acc == grown[k - 1]
                 comp == Flood(order[k], acc.unvisited)
             IN IF order[k] \notin acc.unvisited THEN acc
                ELSE IF Cardinality(comp) < MinCells
                THEN [acc EXCEPT !.unvisited = @ \ comp]
                ELSE [clusters |-> acc.clusters + 1, unvisited |-> acc.unvisited \ comp,
                      cluster |-> acc.cluster \cup comp]
  IN grown[Len(order)]

\* extractPoints(): the points of the cells that have a cluster
ExtractPoints(pts, cluster) == {k \in CroppedPoints(pts) : CellOf(pts[k]) \in cluster}

\* process()
Process(pts) ==
  \E g \in {Accumulate(pts)} :
    LET now == {CellOf(pts[k]) : k \in CroppedPoints(pts)}
        k == ClusterCells([unvisited |-> (labels.unvisited \ touched)
                                           \cup {c \in now : JudgeCell(g[c])},
                           cluster |-> labels.cluster \ touched])
    IN /\ grid' = g /\ touched' = now
       /\ labels' = [unvisited |-> k.unvisited, cluster |-> k.cluster]
       /\ obstacles' = [points |-> ExtractPoints(pts, k.cluster), clusters |-> k.clusters]
       /\ cloud' = pts

\* publishObstacles(): the points are sent even when there are none, so that the
\* costmap can clear
PublishObstacles(points) == points

\* publishMarkers(): DELETEALL, then a box and a text with the next two ids for
\* each cluster
PublishMarkers(clusters) == 0 .. 2 * clusters - 1

\* pointcloudCallback() of a frame whose transform is known
PointcloudCallback(pts) ==
  /\ published.up /\ Process(pts)
  /\ published' = [published EXCEPT
       !.points = PublishObstacles({pts[k] : k \in obstacles'.points}),
       !.markers = PublishMarkers(obstacles'.clusters)]

\* findFloatFieldOffset(): a cloud without float x, y and z throws, which ends
\* the node
MalformedCloud ==
  /\ published.up
  /\ published' = [published EXCEPT !.up = FALSE]
  /\ UNCHANGED <<grid, labels, touched, cloud, obstacles>>

DetectorInit ==
  /\ ValidParams
  /\ grid = [c \in Cells |-> EmptyCell] /\ labels = [unvisited |-> {}, cluster |-> {}]
  /\ touched = {} /\ cloud = <<>> /\ obstacles = [points |-> {}, clusters |-> 0]
  /\ published = [up |-> TRUE, points |-> {}, markers |-> {}]

\* a frame whose transform is not known leaves everything as it was
DetectorNext == (\E pts \in Clouds : PointcloudCallback(pts)) \/ MalformedCloud

----------------------------------------------------------------------------
(* Property.                                                                *)

\* From the frame alone: among the points of cell c there are two, more than
\* DeltaZ apart, with Trim others not between them at either end.
Steep(c) ==
  LET In == {k \in CroppedPoints(cloud) : CellOf(cloud[k]) = c}
      Z(k) == cloud[k].z
  IN /\ Cardinality(In) >= MinPointsNeeded
     /\ \E i, j \in In :
          /\ Z(j) - Z(i) > DeltaZ
          /\ Cardinality({k \in In \ {i} : Z(k) <= Z(i)}) >= Trim
          /\ Cardinality({k \in In \ {j} : Z(k) >= Z(j)}) >= Trim

(* What goes to the costmap after a frame is decided by that frame alone,    *)
(* whatever came before: exactly the points of the steep cells that belong   *)
(* to a connected group of at least MinCells cells.  Grid cells and labels   *)
(* left from earlier frames, the second-extreme bookkeeping and the label    *)
(* handed back by a group that is too small do not show, and the markers on  *)
(* display are one box and one text for each of those groups.                *)
ObstaclesAreThisFrames ==
  LET steep == {c \in Cells : Steep(c)}
      Reach(c) ==   \* the steep cells connected to c
        LET r[n \in 0 .. Cardinality(steep)] ==
              IF n = 0 THEN {c}
              ELSE LET p == r[n - 1] IN p \cup {d \in steep : \E e \in p : d \in Linked(e)}
        IN r[Cardinality(steep)]
      real == {c \in steep : Cardinality(Reach(c)) >= MinCells}
  IN /\ published.points = {cloud[k] : k \in {j \in CroppedPoints(cloud) : CellOf(cloud[j]) \in real}}
     /\ published.markers = 0 .. 2 * Cardinality({Reach(c) : c \in real}) - 1
=============================================================================
