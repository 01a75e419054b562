---------------------------- MODULE SlamGraphProofs ----------------------------
(***************************************************************************)
(* The pose graph of slam_gnss_2d stays consistent, for every trajectory,   *)
(* configuration and outcome of the numerical code: every edge and fix      *)
(* enters the optimisation once (EveryFactorOnce), every copy of the graph  *)
(* follows it (CopiesFollowGraph), a finalised run has published it         *)
(* (FinalMapIsPublished).  What lies around the graph follows at the end:   *)
(* the bridge to Nav2 (HeadingStaysCurrent), the files (SavedMapsAreReadBack) *)
(* and the scan matchers (MatchesAreSound).                                 *)
(*                                                                          *)
(* The argument follows a frame: what each method of the builders, the      *)
(* optimiser, the orchestrator and the node does to the records it is       *)
(* given, then the invariant GraphInvariant, and one lemma per action.      *)
(***************************************************************************)
EXTENDS SlamGraph, NavBridge, SlamFiles, ScanMatchers, DataInduction, TLAPS

(***************************************************************************)
(* The types of the graph's records.                                       *)
(***************************************************************************)

Poses == [frame : {"odom", "map"}, x : Int]
Edges == [from : Nat, to : Nat, dx : Int, fallback : BOOLEAN]
Kept == [i : Nat, p : Poses]
Builds == [kind : {"odom", "matching", "loop"}, nodes : Seq(Poses), edges : Seq(Edges),
           lastOdom : Int, failureStreak : Int]
Closings == [cache : Seq(Poses), edges : Seq(Edges), tree : Seq(Poses), dirty : BOOLEAN]
MapPoses == {p \in Poses : p.frame = "map"}
PoseMaps == UNION {[D -> MapPoses] : D \in SUBSET Nat}
Priors == [node : Nat, x : Int, ts : Nat]
Optimizers == [init : BOOLEAN, pendingGraph : Seq(Edges), pendingValues : PoseMaps,
               estimate : PoseMaps, geom : Seq(Edges), gnss : Seq(Priors)]
Decisions == [fix : 0 .. Len(Fixes), turn : Nat, matchTurn : Nat, converged : BOOLEAN,
              error : Int, info : Nat, near : SUBSET Nat,
              loop : SUBSET Nat, rot : Int, shift : Int, fits : BOOLEAN]

\* The nodes an optimiser has a value for.
Known(o) == DOMAIN o.pendingValues \cup DOMAIN o.estimate

(***************************************************************************)
(* ISAM2Optimizer.                                                         *)
(***************************************************************************)

\* p is o with these edges, k of them, in both of its graphs.
HasJoined(o, p, E, k) ==
    /\ p \in Optimizers /\ p.init = o.init /\ p.gnss = o.gnss
    /\ p.pendingValues = o.pendingValues /\ p.estimate = o.estimate
    /\ Len(p.geom) = Len(o.geom) + k /\ Range(p.geom) = Range(o.geom) \cup E
    /\ Range(p.pendingGraph) = Range(o.pendingGraph) \cup E

\* add_between_factor of a running optimiser.
LEMMA BetweenFactorJoins ==
    ASSUME NEW o \in Optimizers, o.init, NEW e \in Edges
    PROVE  HasJoined(o, AddBetweenFactor(o, e), {e}, 1)
<1> DEFINE p == [o EXCEPT !.pendingGraph = Append(@, e), !.geom = Append(@, e)]
<1>1. AddBetweenFactor(o, e) = p
  BY DEF AddBetweenFactor
<1>2. o.pendingGraph \in Seq(Edges) /\ o.geom \in Seq(Edges)
  BY DEF Optimizers
<1>3. /\ Len(Append(o.geom, e)) = Len(o.geom) + 1
      /\ Range(Append(o.geom, e)) = Range(o.geom) \cup {e}
      /\ Range(Append(o.pendingGraph, e)) = Range(o.pendingGraph) \cup {e}
  BY <1>2, RangeOfAppend
<1>4. Append(o.geom, e) \in Seq(Edges) /\ Append(o.pendingGraph, e) \in Seq(Edges)
  BY <1>2
<1> DEFINE g == Append(o.geom, e)  h == Append(o.pendingGraph, e)
<1>5. p \in Optimizers /\ p.geom = g /\ p.pendingGraph = h
  BY <1>4 DEF Optimizers
<1>6. /\ p.init = o.init /\ p.gnss = o.gnss
      /\ p.pendingValues = o.pendingValues /\ p.estimate = o.estimate
  BY DEF Optimizers
<1> HIDE DEF g, h, p
<1> QED
  BY <1>1, <1>3, <1>5, <1>6 DEF HasJoined, g, h

\* add_between_factor for each edge of a list.
LEMMA BetweenFactorsJoin ==
    ASSUME NEW o \in Optimizers, o.init, NEW edges \in Seq(Edges)
    PROVE  HasJoined(o, FoldLeft(AddBetweenFactor, o, edges), Range(edges), Len(edges))
<1> DEFINE n == Len(edges)
           V == Optimizers
           Rule(f) == f = [s \in SUBSET (DOMAIN edges) |->
               IF s = {} THEN o ELSE AddBetweenFactor(f[s \ {Max(s)}], edges[Max(s)])]
           iter == CHOOSE f : Rule(f)
           H == [k \in 1..n |-> [acc \in V |-> AddBetweenFactor(acc, edges[k])]]
<1>1. n \in Nat /\ DOMAIN edges = 1..n /\ \A k \in 1..n : edges[k] \in Edges
  OBVIOUS
<1>2. FoldLeft(AddBetweenFactor, o, edges) = iter[DOMAIN edges]
  BY DEF FoldLeft, MapThenFoldSet
<1>3. \A s : Max(s) = Greatest(s)
  BY DEF Max, Greatest
<1>4. ASSUME NEW acc \in V, NEW e \in Edges PROVE AddBetweenFactor(acc, e) \in V
  <2>1. CASE acc.init
    <3>1. HasJoined(acc, AddBetweenFactor(acc, e), {e}, 1)
      BY <2>1, BetweenFactorJoins
    <3> QED
      BY <3>1 DEF HasJoined
  <2>2. CASE ~acc.init
    BY <2>2 DEF AddBetweenFactor
  <2> QED
    BY <2>1, <2>2
<1>5. H \in FoldStepsOn(n, V) /\ \A k \in 1..n, acc \in V : H[k][acc] = AddBetweenFactor(acc, edges[k])
  <2>1. \A k \in 1..n, acc \in V : AddBetweenFactor(acc, edges[k]) \in V
    BY <1>1, <1>4
  <2> HIDE DEF V
  <2> QED
    BY <2>1 DEF FoldStepsOn
<1> HIDE DEF H, Rule, n, V, iter
<1>6. o \in V
  BY DEF V
<1>7. PICK h \in [SUBSET (1..n) -> V] : FoldsSubsets(h, n, o, H)
  BY <1>1, <1>5, <1>6, FoldsUpTo
<1>8. Rule(h)
  <2> SUFFICES ASSUME NEW s \in SUBSET (1..n)
               PROVE  h[s] = IF s = {} THEN o ELSE
                        AddBetweenFactor(h[s \ {Max(s)}], edges[Max(s)])
    BY <1>1 DEF Rule
  <2>1. CASE s = {}
    BY <1>7, <2>1 DEF FoldsSubsets
  <2>2. CASE s # {}
    <3> DEFINE g == Greatest(s)
    <3>1. g \in s
      BY <1>1, <2>2, GreatestIsOne
    <3>2. h[s] = H[g][h[s \ {g}]] /\ Max(s) = g
      BY <1>3, <1>7, <2>2 DEF FoldsSubsets
    <3> HIDE DEF g
    <3>3. g \in 1..n /\ h[s \ {g}] \in V
      BY <3>1
    <3> QED
      BY <1>5, <2>2, <3>2, <3>3
  <2> QED
    BY <2>1, <2>2
<1>9. Rule(iter)
  BY <1>8 DEF iter
<1>10. \A s \in SUBSET (1..n) : iter[s] = IF s = {} THEN o ELSE
               AddBetweenFactor(iter[s \ {Max(s)}], edges[Max(s)])
  BY <1>1, <1>9 DEF Rule
<1>11. iter[{}] = o
  BY <1>10
<1>12. ASSUME NEW k \in 1..n, iter[1..(k - 1)] \in V
       PROVE  iter[1..k] = H[k][iter[1..(k - 1)]]
  <2>1. k \in Nat /\ k # 0 /\ 1..k \in SUBSET (1..n)
    BY <1>1
  <2>2. Max(1..k) = k /\ 1..k # {} /\ (1..k) \ {k} = 1..(k - 1)
    BY <1>3, <2>1, InitialSegment
  <2>3. iter[1..k] = AddBetweenFactor(iter[(1..k) \ {Max(1..k)}], edges[Max(1..k)])
    BY <1>10, <2>1, <2>2
  <2>4. iter[1..k] = AddBetweenFactor(iter[1..(k - 1)], edges[k])
    BY ONLY <2>2, <2>3
  <2> QED
    BY <1>5, <1>12, <2>4
<1>13. FoldsSegments(iter, n, V, o, H)
  BY <1>11, <1>12 DEF FoldsSegments
<1>14. \E f \in [0..n -> V] : FoldsAlong(f, n, o, H) /\ f[n] = iter[1..n]
  BY <1>1, <1>5, <1>6, <1>13, FoldSteps
<1>15. PICK f \in [0..n -> V] : /\ f[0] = o /\ f[n] = iter[1..n]
                                /\ \A k \in 1..n : f[k] = H[k][f[k - 1]]
  BY <1>14 DEF FoldsAlong
<1> DEFINE E(k) == {edges[i] : i \in 1..k}
           D == {k \in 0..n : HasJoined(o, f[k], E(k), k)}
<1>16. 0 \in D
  <2>1. HasJoined(o, o, {}, 0)
    <3>1. Len(o.geom) \in Nat
      BY DEF Optimizers
    <3> QED
      BY <3>1 DEF HasJoined
  <2>2. E(0) = {} /\ 0 \in 0..n
    BY <1>1
  <2> HIDE DEF E
  <2> QED
    BY <1>15, <2>1, <2>2
<1>17. ASSUME NEW m \in 0..(n - 1), m \in D PROVE m + 1 \in D
  <2> DEFINE j == m + 1  e == edges[j]  p == f[m]  q == f[j]
  <2>1. j \in 1..n /\ j - 1 = m /\ j \in 0..n /\ m \in 0..n /\ m \in Nat
    BY <1>1
  <2>2. HasJoined(o, p, E(m), m)
    BY <1>17
  <2>3. E(j) = E(m) \cup {e}
    <3>1. \A i : i \in 1..j <=> i \in 1..m \/ i = j
      BY <2>1
    <3> HIDE DEF j
    <3> QED
      BY <3>1
  <2>4. e \in Edges /\ p \in V
    BY <1>1, <1>15, <2>1
  <2> HIDE DEF j, e, E, D
  <2>5. q = AddBetweenFactor(p, e)
    <3>1. q = H[j][f[j - 1]]
      BY <1>15, <2>1
    <3> QED
      BY <1>5, <2>1, <2>4, <3>1 DEF e
  <2> HIDE DEF p, q
  <2>6. HasJoined(p, q, {e}, 1)
    BY <2>2, <2>4, <2>5, BetweenFactorJoins DEF V, HasJoined
  <2>7. Len(q.geom) = Len(o.geom) + j
    <3>1. Len(p.geom) = Len(o.geom) + m /\ Len(q.geom) = Len(p.geom) + 1 /\ Len(o.geom) \in Nat
      BY <2>2, <2>6 DEF HasJoined, Optimizers
    <3> QED
      BY <2>1, <3>1
  <2>8. HasJoined(o, q, E(j), j)
    BY <2>2, <2>3, <2>6, <2>7 DEF HasJoined
  <2> QED
    BY <2>1, <2>8 DEF D, q, j
<1>18. n \in D
  <2>1. \A m \in 0..(n - 1) : m \in D => m + 1 \in D
    BY <1>17
  <2> HIDE DEF D
  <2>2. \A m \in 0..n : m \in D
    BY <1>1, <1>16, <2>1, InductionUpTo
  <2> QED
    BY <1>1, <2>2
<1>19. E(n) = Range(edges)
  BY <1>1 DEF Range
<1> QED
  BY <1>1, <1>2, <1>15, <1>18, <1>19 DEF n

\* A map of poses, piece by piece.
LEMMA PoseMapParts ==
    ASSUME NEW f \in PoseMaps
    PROVE  DOMAIN f \in SUBSET Nat /\ \A i \in DOMAIN f : f[i] \in MapPoses
BY DEF PoseMaps

\* A function to poses of the map is a map of poses.
LEMMA PoseMapMade ==
    ASSUME NEW D \in SUBSET Nat, NEW f \in [D -> MapPoses]
    PROVE  f \in PoseMaps
BY DEF PoseMaps

\* Only and Over make maps of poses.
LEMMA OnlyMakes ==
    ASSUME NEW i \in Nat, NEW p \in MapPoses
    PROVE  Only(i, p) \in PoseMaps /\ DOMAIN Only(i, p) = {i}
<1> DEFINE f == Only(i, p)
<1>1. f \in [{i} -> MapPoses] /\ {i} \in SUBSET Nat
  BY DEF Only
<1> HIDE DEF f
<1>2. f \in PoseMaps /\ DOMAIN f = {i}
  BY <1>1, PoseMapMade
<1> QED
  BY <1>2 DEF f

\* Two maps of poses laid over each other.
LEMMA OverMakes ==
    ASSUME NEW f \in PoseMaps, NEW g \in PoseMaps
    PROVE  /\ Over(f, g) \in PoseMaps
           /\ DOMAIN Over(f, g) = DOMAIN f \cup DOMAIN g
<1> DEFINE h == Over(f, g)  D == DOMAIN f \cup DOMAIN g
<1>1. h = [k \in D |-> IF k \in DOMAIN f THEN f[k] ELSE g[k]]
  BY DEF Over
<1>2. /\ D \in SUBSET Nat
      /\ \A k \in D : (IF k \in DOMAIN f THEN f[k] ELSE g[k]) \in MapPoses
  BY PoseMapParts
<1> HIDE DEF D, h
<1>3. h \in [D -> MapPoses]
  BY <1>1, <1>2
<1>4. h \in PoseMaps
  BY <1>2, <1>3, PoseMapMade
<1> QED
  BY <1>3, <1>4 DEF D, h

\* A shifted pose is in the same frame.
LEMMA ShiftKeepsFrame ==
    ASSUME NEW p \in Poses, NEW d \in Int
    PROVE  Shift(p, d) \in Poses /\ Shift(p, d).frame = p.frame /\ Shift(p, d).x = p.x + d
BY DEF Shift, Poses

\* The trajectory bent by an optimisation.
Bent(f, bend) == [i \in DOMAIN f |-> IF i >= bend.from THEN Shift(f[i], bend.by) ELSE f[i]]

\* It has the same nodes.
LEMMA BentMakes ==
    ASSUME NEW f \in PoseMaps, NEW bend \in [from : Int, by : Int]
    PROVE  Bent(f, bend) \in PoseMaps /\ DOMAIN Bent(f, bend) = DOMAIN f
<1> DEFINE h == Bent(f, bend)  D == DOMAIN f
<1>1. h = [i \in D |-> IF i >= bend.from THEN Shift(f[i], bend.by) ELSE f[i]]
  BY DEF Bent
<1>2. /\ D \in SUBSET Nat
      /\ \A i \in D : (IF i >= bend.from THEN Shift(f[i], bend.by) ELSE f[i]) \in MapPoses
  <2>1. \A i \in D : f[i] \in Poses /\ f[i].frame = "map"
    BY PoseMapParts DEF MapPoses
  <2>2. bend.by \in Int
    OBVIOUS
  <2>3. \A i \in D : Shift(f[i], bend.by) \in MapPoses
    BY <2>1, <2>2, ShiftKeepsFrame DEF MapPoses
  <2> QED
    BY <2>3, PoseMapParts
<1> HIDE DEF D, h
<1>3. h \in [D -> MapPoses]
  BY <1>1, <1>2
<1>4. h \in PoseMaps
  BY <1>2, <1>3, PoseMapMade
<1> QED
  BY <1>3, <1>4 DEF D, h

\* A map without entries.
LEMMA EmptyIsAMap == Empty \in PoseMaps /\ DOMAIN Empty = {}
<1>1. Empty \in [{} -> MapPoses] /\ {} \in SUBSET Nat
  BY DEF Empty
<1> QED
  BY <1>1, PoseMapMade

\* The fields of an optimiser.
LEMMA OptimizerParts ==
    ASSUME NEW o \in Optimizers
    PROVE  /\ o.init \in BOOLEAN /\ o.pendingGraph \in Seq(Edges) /\ o.geom \in Seq(Edges)
           /\ o.pendingValues \in PoseMaps /\ o.estimate \in PoseMaps /\ o.gnss \in Seq(Priors)
BY DEF Optimizers

\* initialize(): nothing but the prior of the first node.
LEMMA InitializeStarts ==
    ASSUME NEW i \in Nat, NEW p \in MapPoses
    PROVE  /\ Initialize(i, p) \in Optimizers /\ Initialize(i, p).init
           /\ Initialize(i, p).pendingValues = Only(i, p) /\ Initialize(i, p).estimate = Empty
           /\ Initialize(i, p).pendingGraph = <<Edge(i, i, 0, FALSE)>>
           /\ Initialize(i, p).geom = <<>> /\ Initialize(i, p).gnss = <<>>
<1> DEFINE e == Edge(i, i, 0, FALSE)  pv == Only(i, p)  g == <<e>>
<1>1. e \in Edges
  BY DEF Edge, Edges
<1>2. pv \in PoseMaps /\ Empty \in PoseMaps
  BY OnlyMakes, EmptyIsAMap
<1> HIDE DEF e, pv
<1>3. g \in Seq(Edges)
  BY <1>1
<1>4. <<>> \in Seq(Edges) /\ <<>> \in Seq(Priors)
  OBVIOUS
<1> HIDE DEF g
<1> DEFINE q == [init |-> TRUE, pendingGraph |-> g, pendingValues |-> pv,
                 estimate |-> Empty, geom |-> <<>>, gnss |-> <<>>]
<1>5. Initialize(i, p) = q
  <2> DEFINE yes == TRUE  no == FALSE
  <2>1. Initialize(i, p) = [[init |-> no, pendingGraph |-> <<>>, pendingValues |-> Empty,
                             estimate |-> Empty, geom |-> <<>>, gnss |-> <<>>]
                            EXCEPT !.init = yes, !.pendingValues = pv, !.pendingGraph = g]
    BY DEF Initialize, OptimizerInit, e, pv, g
  <2>2. q = [init |-> yes, pendingGraph |-> g, pendingValues |-> pv,
             estimate |-> Empty, geom |-> <<>>, gnss |-> <<>>]
    OBVIOUS
  <2> HIDE DEF yes, no, q
  <2> QED
    BY <2>1, <2>2
<1>6. q \in Optimizers
  BY <1>2, <1>3, <1>4 DEF Optimizers
<1>7. /\ q.init /\ q.pendingValues = pv /\ q.estimate = Empty
      /\ q.pendingGraph = g /\ q.geom = <<>> /\ q.gnss = <<>>
  OBVIOUS
<1> HIDE DEF q
<1> QED
  BY <1>5, <1>6, <1>7 DEF e, pv, g

\* An optimisation keeps the factors and the nodes.
Continues(o, p) ==
    /\ p \in Optimizers /\ p.init = o.init /\ p.geom = o.geom /\ p.gnss = o.gnss
    /\ Known(p) = Known(o) /\ Range(p.pendingGraph) \subseteq Range(o.pendingGraph)
    /\ DOMAIN o.pendingValues \cap DOMAIN o.estimate = {} =>
         DOMAIN p.pendingValues \cap DOMAIN p.estimate = {}

\* update() moves what is pending into the estimate.
LEMMA UpdateContinues ==
    ASSUME NEW o \in Optimizers, NEW bend \in [from : Int, by : Int]
    PROVE  Continues(o, Update(o, bend))
<1>1. CASE ~HasPending(o)
  BY <1>1 DEF Update, Continues
<1>2. CASE HasPending(o)
  <2> DEFINE all == Over(o.estimate, o.pendingValues)
             est == Bent(all, bend)
             p == [o EXCEPT !.pendingGraph = <<>>, !.pendingValues = Empty, !.estimate = est]
  <2>1. Update(o, bend) = p
    BY <1>2 DEF Update, Bent
  <2>2. all \in PoseMaps /\ DOMAIN all = DOMAIN o.estimate \cup DOMAIN o.pendingValues
    BY OptimizerParts, OverMakes
  <2> HIDE DEF all
  <2>3. est \in PoseMaps /\ DOMAIN est = DOMAIN all
    BY <2>2, BentMakes
  <2> HIDE DEF est
  <2>4. /\ p \in Optimizers /\ p.estimate = est /\ p.pendingValues = Empty /\ p.pendingGraph = <<>>
        /\ p.init = o.init /\ p.geom = o.geom /\ p.gnss = o.gnss
    <3>1. est \in PoseMaps /\ Empty \in PoseMaps /\ <<>> \in Seq(Edges)
      BY <2>2, <2>3, EmptyIsAMap
    <3>2. p \in Optimizers
      BY <3>1 DEF Optimizers
    <3>3. p.estimate = est /\ p.pendingValues = Empty /\ p.pendingGraph = <<>>
      BY DEF Optimizers
    <3>4. p.init = o.init /\ p.geom = o.geom /\ p.gnss = o.gnss
      BY DEF Optimizers
    <3> QED
      BY <3>2, <3>3, <3>4
  <2> HIDE DEF p
  <2>5. Known(p) = Known(o) /\ DOMAIN p.pendingValues = {}
    BY <2>2, <2>3, <2>4, EmptyIsAMap DEF Known
  <2>6. Range(p.pendingGraph) = {}
    BY <2>4 DEF Range
  <2> QED
    BY <2>1, <2>4, <2>5, <2>6 DEF Continues
<1> QED
  BY <1>1, <1>2

\* run_batch_optimization() flushes and bends, and keeps the factors.
LEMMA RunBatchContinues ==
    ASSUME NEW o \in Optimizers, NEW bend \in [from : Int, by : Int]
    PROVE  Continues(o, RunBatch(o, bend))
<1>1. CASE ~o.init
  BY <1>1 DEF RunBatch, Continues
<1>2. CASE o.init
  <2> DEFINE f == Update(o, [from |-> 1, by |-> 0])
             est == Bent(f.estimate, bend)
             p == [f EXCEPT !.estimate = est]
  <2>1. Continues(o, f)
    BY UpdateContinues
  <2>2. f \in Optimizers
    BY <2>1 DEF Continues
  <2>3. RunBatch(o, bend) = [f EXCEPT !.estimate = Bent(@, bend)]
    BY <1>2 DEF RunBatch, Bent
  <2> HIDE DEF f
  <2>4. f.estimate \in PoseMaps
    BY <2>2, OptimizerParts
  <2>5. est \in PoseMaps /\ DOMAIN est = DOMAIN f.estimate
    BY <2>4, BentMakes
  <2>6. RunBatch(o, bend) = p
    BY <2>2, <2>3 DEF Optimizers
  <2> HIDE DEF est
  <2>7. /\ p \in Optimizers /\ p.estimate = est /\ p.pendingValues = f.pendingValues
        /\ p.pendingGraph = f.pendingGraph
        /\ p.init = f.init /\ p.geom = f.geom /\ p.gnss = f.gnss
    BY <2>2, <2>5 DEF Optimizers
  <2> HIDE DEF p
  <2>8. Known(p) = Known(f)
    BY <2>5, <2>7 DEF Known
  <2> QED
    BY <2>1, <2>5, <2>6, <2>7, <2>8 DEF Continues
<1> QED
  BY <1>1, <1>2

\* add_initial_estimate of a running optimiser: the node gets a value.
LEMMA InitialEstimateAdds ==
    ASSUME NEW o \in Optimizers, o.init, NEW i \in Nat, NEW p \in MapPoses,
           i \notin DOMAIN o.pendingValues
    PROVE  LET q == AddInitialEstimate(o, i, p) IN
           /\ q \in Optimizers /\ q.init = o.init /\ q.geom = o.geom /\ q.gnss = o.gnss
           /\ q.pendingGraph = o.pendingGraph /\ q.estimate = o.estimate
           /\ DOMAIN q.pendingValues = DOMAIN o.pendingValues \cup {i}
<1> DEFINE pv == Over(o.pendingValues, Only(i, p))
           q == [o EXCEPT !.pendingValues = pv]
<1>1. AddInitialEstimate(o, i, p) = q
  BY DEF AddInitialEstimate, Optimizers
<1>2. pv \in PoseMaps /\ DOMAIN pv = DOMAIN o.pendingValues \cup {i}
  BY OptimizerParts, OnlyMakes, OverMakes
<1> HIDE DEF pv
<1>3. /\ q \in Optimizers /\ q.pendingValues = pv
      /\ q.init = o.init /\ q.geom = o.geom /\ q.gnss = o.gnss
      /\ q.pendingGraph = o.pendingGraph /\ q.estimate = o.estimate
  BY <1>2 DEF Optimizers
<1> HIDE DEF q
<1> QED
  BY <1>1, <1>2, <1>3

\* add_gnss_prior of a running optimiser: a unary factor on the node.
LEMMA GnssFactorAdds ==
    ASSUME NEW o \in Optimizers, o.init, NEW i \in Nat, NEW x \in Int, NEW ts \in Nat
    PROVE  LET q == AddGnssFactor(o, i, x, ts) IN
           /\ q \in Optimizers /\ q.init = o.init /\ q.geom = o.geom
           /\ q.pendingValues = o.pendingValues /\ q.estimate = o.estimate
           /\ q.gnss = Append(o.gnss, [node |-> i, x |-> x, ts |-> ts])
           /\ q.pendingGraph = Append(o.pendingGraph, Edge(i, i, 0, FALSE))
<1> DEFINE e == Edge(i, i, 0, FALSE)  k == [node |-> i, x |-> x, ts |-> ts]
           pg == Append(o.pendingGraph, e)  gn == Append(o.gnss, k)
           q == [o EXCEPT !.pendingGraph = pg, !.gnss = gn]
<1>1. AddGnssFactor(o, i, x, ts) = q
  BY DEF AddGnssFactor, Optimizers
<1>2. e \in Edges /\ k \in Priors
  BY DEF Edge, Edges, Priors
<1> HIDE DEF e, k
<1>3. pg \in Seq(Edges) /\ gn \in Seq(Priors)
  BY <1>2, OptimizerParts
<1> HIDE DEF pg, gn
<1>4. /\ q \in Optimizers /\ q.pendingGraph = pg /\ q.gnss = gn
      /\ q.init = o.init /\ q.geom = o.geom
      /\ q.pendingValues = o.pendingValues /\ q.estimate = o.estimate
  BY <1>3 DEF Optimizers
<1> HIDE DEF q
<1> QED
  BY <1>1, <1>4 DEF e, k, pg, gn

(***************************************************************************)
(* Edges by their index gap.                                               *)
(***************************************************************************)

\* A loop that keeps the middle of a list.
LEMMA SelectedMiddle ==
    ASSUME NEW E, NEW p \in Seq(E), NEW q \in Seq(E), NEW r \in Seq(E), NEW kept,
           \A e \in Range(p) : e \notin kept, Range(q) \subseteq kept,
           \A e \in Range(r) : e \notin kept
    PROVE  Selected((p \o q) \o r, kept) = q
<1> DEFINE pq == p \o q
<1>1. pq \in Seq(E)
  BY RangeOfConcat
<1>2. Selected(pq, kept) = Selected(p, kept) \o Selected(q, kept)
  BY SelectedConcat
<1>3. Selected(p, kept) = <<>> /\ Selected(q, kept) = q /\ Selected(r, kept) = <<>>
  BY SelectedNone, SelectedAll
<1>4. Selected(pq, kept) = q
  <2>1. <<>> \o q = q
    OBVIOUS
  <2> QED
    BY <1>2, <1>3, <2>1
<1> HIDE DEF pq
<1>5. Selected(pq \o r, kept) = Selected(pq, kept) \o Selected(r, kept)
  BY <1>1, SelectedConcat
<1>6. q \o <<>> = q
  OBVIOUS
<1>7. Selected(pq \o r, kept) = q
  BY <1>3, <1>4, <1>5, <1>6
<1> QED
  BY <1>7 DEF pq

\* An edge put at the end of a list is a list of its own behind it.
LEMMA AppendIsConcat ==
    ASSUME NEW E, NEW s \in Seq(E), NEW e \in E
    PROVE  Append(s, e) = s \o <<e>>
OBVIOUS

\* The edges of a list of one.
LEMMA RangeOfOne ==
    ASSUME NEW E, NEW e \in E
    PROVE  <<e>> \in Seq(E) /\ Len(<<e>>) = 1 /\ Range(<<e>>) = {e}
<1> DEFINE t == <<e>>
<1>1. t \in Seq(E) /\ Len(t) = 1 /\ DOMAIN t = {1} /\ t[1] = e
  OBVIOUS
<1> HIDE DEF t
<1>2. Range(t) = {e}
  BY <1>1 DEF Range
<1> QED
  BY <1>1, <1>2 DEF t

\* add_new_loop_edges recognises the loop edges by their gap.
LEMMA LoopEdgesAreFound ==
    ASSUME NEW p \in Seq(Edges), NEW q \in Seq(Edges),
           \A e \in Range(p) : ~(Gap(e) >= LoopGap), \A e \in Range(q) : Gap(e) >= LoopGap
    PROVE  LoopEdgesOf(p \o q) = q
<1> DEFINE u == p \o q  kept == {e \in Range(u) : Gap(e) >= LoopGap}
<1>1. Range(u) = Range(p) \cup Range(q)
  BY RangeOfConcat
<1>2. (\A e \in Range(p) : e \notin kept) /\ Range(q) \subseteq kept
  <2> HIDE DEF u
  <2> QED
    BY <1>1
<1> HIDE DEF kept
<1>3. Selected(u, kept) = Selected(p, kept) \o Selected(q, kept)
  BY SelectedConcat
<1>4. Selected(p, kept) = <<>> /\ Selected(q, kept) = q
  BY <1>2, SelectedNone, SelectedAll
<1>5. <<>> \o q = q
  OBVIOUS
<1>6. Selected(u, kept) = q
  BY <1>3, <1>4, <1>5
<1> QED
  BY <1>6 DEF LoopEdgesOf, kept, u

\* The edges of an extended graph.
Longer(p, s, links, q) == (Append(p, s) \o links) \o q

\* What add_latest_seq_edge looks for.
SequentialTo(edges, n) == {e \in Range(edges) : Gap(e) = 1 /\ e.to = n}
MeshTo(edges, n) == {e \in Range(edges) : e.to = n /\ Gap(e) > 1 /\ Gap(e) < LoopGap}

\* What it finds behind the edges the optimiser has.
NewestEdges(n, p, s, links, q) ==
    /\ \A e \in Range(p) : e.to # n
    /\ s.to = n /\ Gap(s) = 1
    /\ \A e \in Range(links) : e.to = n /\ Gap(e) > 1 /\ Gap(e) < LoopGap
    /\ \A e \in Range(q) : Gap(e) >= LoopGap

\* It finds the one sequential edge and the links of a new node.
LEMMA NewEdgesAreFound ==
    ASSUME NEW n \in Nat, NEW p \in Seq(Edges), NEW s \in Edges,
           NEW links \in Seq(Edges), NEW q \in Seq(Edges), NewestEdges(n, p, s, links, q)
    PROVE  LET u == Longer(p, s, links, q) IN
           /\ Selected(u, SequentialTo(u, n)) = <<s>>
           /\ Selected(u, MeshTo(u, n)) = links
<1> DEFINE o == <<s>>
           ps == p \o o
           psl == ps \o links
           u == psl \o q
           A == SequentialTo(u, n)
           B == MeshTo(u, n)
<1>n. /\ \A e \in Range(p) : e.to # n
      /\ s.to = n /\ Gap(s) = 1
      /\ \A e \in Range(links) : e.to = n /\ Gap(e) > 1 /\ Gap(e) < LoopGap
      /\ \A e \in Range(q) : Gap(e) >= LoopGap
  BY DEF NewestEdges
<1>0. Append(p, s) = ps
  BY AppendIsConcat
<1>1. o \in Seq(Edges) /\ Range(o) = {s}
  BY RangeOfOne
<1> HIDE DEF o
<1>2. ps \in Seq(Edges) /\ Range(ps) = Range(p) \cup {s}
  BY <1>1, RangeOfConcat
<1> HIDE DEF ps
<1>3. psl \in Seq(Edges) /\ Range(psl) = Range(p) \cup {s} \cup Range(links)
  BY <1>2, RangeOfConcat
<1> HIDE DEF psl
<1>4. Range(u) = Range(p) \cup {s} \cup Range(links) \cup Range(q)
  BY <1>3, RangeOfConcat
<1>5. LoopGap > 1 /\ LoopGap \in Int /\ \A e \in Edges : Gap(e) \in Int
  BY GapsAssumption, GraphAssumption DEF Gap, Edges
<1>6. ASSUME NEW t \in Seq(Edges), NEW e \in Range(t) PROVE e \in Edges
  BY DEF Range
<1> HIDE DEF u
<1>7. /\ \A e \in Range(p) : e \notin A /\ e \notin B
      /\ s \in A /\ s \notin B
      /\ \A e \in Range(links) : e \notin A /\ e \in B
      /\ \A e \in Range(q) : e \notin A /\ e \notin B
  <2>1. \A e \in Range(p) : e \notin A /\ e \notin B
    BY <1>n DEF SequentialTo, MeshTo
  <2>2. s \in A
    BY <1>4, <1>n DEF SequentialTo
  <2>3. s \notin B
    BY <1>n DEF MeshTo
  <2>4. \A e \in Range(links) : Gap(e) \in Int /\ e.to = n /\ Gap(e) > 1 /\ Gap(e) < LoopGap
    BY <1>5, <1>6, <1>n
  <2>5. \A e \in Range(links) : e \notin A
    BY <2>4 DEF SequentialTo
  <2>6. \A e \in Range(links) : e \in B
    BY <1>4, <2>4 DEF MeshTo
  <2>7. \A e \in Range(q) : Gap(e) \in Int /\ Gap(e) >= LoopGap
    BY <1>5, <1>6, <1>n
  <2>8. \A e \in Range(q) : e \notin A /\ e \notin B
    BY <1>5, <2>7 DEF SequentialTo, MeshTo
  <2> QED
    BY <2>1, <2>2, <2>3, <2>5, <2>6, <2>8
<1> HIDE DEF A, B
<1>8. Selected(u, A) = o
  <2>1. Selected((p \o o) \o links, A) = o
    <3>1. Range(o) \subseteq A
      BY <1>1, <1>7
    <3> QED
      BY <1>1, <1>7, <3>1, SelectedMiddle
  <2>2. Selected(psl, A) = o
    BY <2>1 DEF psl, ps
  <2>3. Selected(q, A) = <<>>
    BY <1>7, SelectedNone
  <2>4. Selected(psl \o q, A) = Selected(psl, A) \o Selected(q, A)
    BY <1>3, SelectedConcat
  <2>5. o \o <<>> = o
    BY <1>1
  <2>6. Selected(psl \o q, A) = o
    BY <2>2, <2>3, <2>4, <2>5
  <2> QED
    BY <2>6 DEF u
<1>9. Selected(u, B) = links
  <2>1. \A e \in Range(ps) : e \notin B
    BY <1>2, <1>7
  <2>2. Selected((ps \o links) \o q, B) = links
    BY <1>2, <1>7, <2>1, SelectedMiddle
  <2> QED
    BY <2>2 DEF u, psl
<1> QED
  BY <1>0, <1>8, <1>9 DEF Longer, A, B, u, psl, o

(***************************************************************************)
(* The keyframe builders.                                                  *)
(***************************************************************************)

\* Distances are numbers.
LEMMA AbsDiffIsInt ==
    ASSUME NEW a \in Int, NEW b \in Int
    PROVE  AbsDiff(a, b) \in Int
BY DEF AbsDiff

\* The positions of a list of poses are numbers.
LEMMA PositionsAreInts ==
    ASSUME NEW nodes \in Seq(Poses), NEW i \in 1..Len(nodes)
    PROVE  nodes[i] \in Poses /\ nodes[i].x \in Int
<1>1. nodes[i] \in Poses
  OBVIOUS
<1> QED
  BY <1>1 DEF Poses

\* The near candidates are old keyframes.
LEMMA CandidatesAreOld ==
    ASSUME NEW nodes \in Seq(Poses), NEW j \in NearCandidates(nodes)
    PROVE  /\ j \in 1..Len(nodes)
           /\ Len(nodes) - j >= NearMinDiff /\ Len(nodes) - j <= NearBuffer
<1> DEFINE n == Len(nodes)
<1>1. n \in Nat /\ NearMinDiff \in Nat /\ NearBuffer \in Int
  BY GapsAssumption, GraphAssumption
<1>2. j \in 1..n - NearMinDiff /\ j >= n - NearBuffer
  BY DEF NearCandidates
<1> HIDE DEF n
<1>3. j \in 1..n /\ n - j >= NearMinDiff /\ n - j <= NearBuffer
  BY <1>1, <1>2
<1> QED
  BY <1>3 DEF n

\* Mesh links lead from the newest keyframe to some a few keyframes older.
AreMeshLinks(links, n) ==
    \A e \in Range(links) : e.to = n /\ e.from >= 1 /\ Gap(e) > 1 /\ Gap(e) < LoopGap

\* Near links join the newest keyframe with recent ones, two or more back.
LEMMA NearLinksAreMeshLinks ==
    ASSUME NEW nodes \in Seq(Poses), nodes # <<>>, NEW accepted
    PROVE  /\ NearLinks(nodes, accepted) \in Seq(Edges)
           /\ AreMeshLinks(NearLinks(nodes, accepted), Len(nodes))
<1> DEFINE n == Len(nodes)
           near == NearCandidates(nodes)
           distance(j) == AbsDiff(nodes[n].x, nodes[j].x)
           nearer == {p \in near \X near : \/ distance(p[1]) < distance(p[2])
                                          \/ (distance(p[1]) = distance(p[2]) /\ p[1] < p[2])}
           sorted == SortedBy(near, nearer)
           taken == Selected(sorted, accepted)
           links == SubSeq(taken, 1, IF Len(taken) < NearMaxLinks THEN Len(taken) ELSE NearMaxLinks)
           result == [k \in DOMAIN links |-> Edge(links[k], n, nodes[n].x - nodes[links[k]].x, FALSE)]
<1>1. n \in Nat /\ n # 0 /\ n \in 1..n
  OBVIOUS
<1>2. near \in SUBSET (1..n)
  BY CandidatesAreOld
<1>3. Orders(nearer, near)
  <2> DEFINE d == [j \in 1..n |-> distance(j)]
  <2>1. \A j \in 1..n : d[j] \in Int /\ d[j] = distance(j)
    BY <1>1, PositionsAreInts, AbsDiffIsInt
  <2> HIDE DEF d
  <2>2. \A x, y \in near : <<x, y>> \in nearer <=> d[x] < d[y] \/ (d[x] = d[y] /\ x < y)
    BY <1>2, <2>1
  <2> HIDE DEF nearer
  <2>3. \A x \in near : x \in Int /\ d[x] \in Int
    BY <1>2, <2>1
  <2> HIDE DEF near
  <2> QED
    BY <2>2, <2>3 DEF Orders
<1> HIDE DEF nearer, near
<1>4. sorted \in Seq(near)
  BY <1>1, <1>2, <1>3, SortedHasTheElements
<1> HIDE DEF sorted
<1>5. taken \in Seq(near)
  BY <1>4, SelectionKeeps
<1> HIDE DEF taken
<1>6. links \in Seq(near)
  <2> DEFINE k == IF Len(taken) < NearMaxLinks THEN Len(taken) ELSE NearMaxLinks
  <2>1. k \in Nat /\ k <= Len(taken)
    BY <1>5, GraphAssumption
  <2> HIDE DEF k
  <2>2. SubSeq(taken, 1, k) \in Seq(near)
    BY <1>5, <2>1
  <2> QED
    BY <2>2 DEF k
<1> HIDE DEF links
<1>7. ASSUME NEW j \in near
      PROVE  LET e == Edge(j, n, nodes[n].x - nodes[j].x, FALSE) IN
             /\ e \in Edges /\ e.to = n /\ e.from >= 1
             /\ Gap(e) > 1 /\ Gap(e) < LoopGap
  <2> DEFINE dx == nodes[n].x - nodes[j].x
  <2>1. j \in 1..n /\ dx \in Int
    BY <1>1, <1>2, PositionsAreInts
  <2>2. n - j >= NearMinDiff /\ n - j <= NearBuffer
    BY CandidatesAreOld DEF near
  <2> HIDE DEF dx
  <2>3. n - j > 1 /\ n - j < LoopGap
    BY <1>1, <2>1, <2>2, GapsAssumption, GraphAssumption
  <2> QED
    BY <1>1, <2>1, <2>3 DEF Edge, Edges, Gap, dx
<1>8. DOMAIN links = 1..Len(links) /\ Len(links) \in Nat /\ \A k \in 1..Len(links) : links[k] \in near
  BY <1>6
<1>9. \A k \in DOMAIN result : result[k] = Edge(links[k], n, nodes[n].x - nodes[links[k]].x, FALSE)
  OBVIOUS
<1>10. DOMAIN result = 1..Len(links)
  BY <1>8
<1> HIDE DEF result, n
<1>11. \A k \in 1..Len(links) :
         /\ result[k] \in Edges /\ result[k].to = n /\ result[k].from >= 1
         /\ Gap(result[k]) > 1 /\ Gap(result[k]) < LoopGap
  <2> SUFFICES ASSUME NEW k \in 1..Len(links)
               PROVE  /\ result[k] \in Edges /\ result[k].to = n /\ result[k].from >= 1
                      /\ Gap(result[k]) > 1 /\ Gap(result[k]) < LoopGap
    OBVIOUS
  <2> DEFINE e == Edge(links[k], n, nodes[n].x - nodes[links[k]].x, FALSE)
  <2>1. links[k] \in near /\ result[k] = e
    BY <1>8, <1>9, <1>10
  <2>2. e \in Edges /\ e.to = n /\ e.from >= 1 /\ Gap(e) > 1 /\ Gap(e) < LoopGap
    BY <1>7, <2>1
  <2> HIDE DEF e
  <2> QED
    BY <2>1, <2>2
<1>12. result = [k \in 1..Len(links) |-> result[k]]
  BY <1>10 DEF result
<1>13. result \in Seq(Edges)
  BY <1>8, <1>11, <1>12
<1>14. AreMeshLinks(result, n)
  BY <1>10, <1>11 DEF AreMeshLinks, Range
<1>15. NearLinks(nodes, accepted) = result
  BY DEF NearLinks, result, links, taken, sorted, nearer, near, n
<1> QED
  BY <1>13, <1>14, <1>15 DEF n

\* nb is b with one keyframe more, its sequential edge s and mesh links.
GrewBy(b, nb, s, links) ==
    /\ nb \in Builds /\ nb.kind = b.kind
    /\ Len(nb.nodes) = Len(b.nodes) + 1
    /\ \A i \in 1..Len(b.nodes) : nb.nodes[i] = b.nodes[i]
    /\ nb.nodes[Len(b.nodes) + 1].frame = b.nodes[Len(b.nodes)].frame
    /\ s \in Edges /\ s.from = Len(b.nodes) /\ s.to = Len(b.nodes) + 1
    /\ links \in Seq(Edges) /\ AreMeshLinks(links, Len(b.nodes) + 1)
    /\ nb.edges = Append(b.edges, s) \o links

\* The fields of a builder.
LEMMA BuilderParts ==
    ASSUME NEW b \in Builds
    PROVE  /\ b.kind \in {"odom", "matching", "loop"} /\ b.nodes \in Seq(Poses)
           /\ b.edges \in Seq(Edges) /\ b.lastOdom \in Int /\ b.failureStreak \in Int
BY DEF Builds

\* A node and the edge that leads to it.
LEMMA ExtendedGrows ==
    ASSUME NEW b \in Builds, b.nodes # <<>>, NEW dx \in Int, NEW fb \in BOOLEAN
    PROVE  LET nb == Extended(b, dx, fb)
               n == Len(b.nodes)
               s == Edge(n, n + 1, dx, fb)
           IN /\ nb \in Builds /\ nb.kind = b.kind /\ nb.lastOdom = b.lastOdom
              /\ Len(nb.nodes) = n + 1 /\ \A i \in 1..n : nb.nodes[i] = b.nodes[i]
              /\ nb.nodes[n + 1].frame = b.nodes[n].frame
              /\ s \in Edges /\ s.from = n /\ s.to = n + 1
              /\ nb.edges = Append(b.edges, s)
<1> DEFINE nodes == b.nodes
           n == Len(nodes)
           s == Edge(n, n + 1, dx, fb)
           p == Shift(nodes[n], dx)
           grown == Append(nodes, p)
           edges == Append(b.edges, s)
           nb == [b EXCEPT !.nodes = grown, !.edges = edges]
<1>1. nodes \in Seq(Poses) /\ n \in Nat /\ n # 0 /\ n \in 1..n
  BY BuilderParts
<1>2. nodes[n] \in Poses
  BY <1>1, PositionsAreInts
<1>3. p \in Poses /\ p.frame = nodes[n].frame
  BY <1>2, ShiftKeepsFrame
<1>4. Extended(b, dx, fb) = nb
  BY DEF Extended, Builds
<1> HIDE DEF p
<1>5. s \in Edges /\ s.from = n /\ s.to = n + 1
  <2> HIDE DEF n
  <2> QED
    BY <1>1 DEF Edge, Edges
<1> HIDE DEF s
<1>6. edges \in Seq(Edges)
  BY <1>5, BuilderParts
<1> HIDE DEF edges, nodes
<1>7. /\ grown \in Seq(Poses) /\ Len(grown) = n + 1 /\ grown[n + 1] = p
      /\ \A i \in 1..n : grown[i] = nodes[i]
  BY <1>1, <1>3
<1> HIDE DEF grown
<1>8. nb \in Builds /\ nb.nodes = grown /\ nb.edges = edges /\ nb.kind = b.kind
      /\ nb.lastOdom = b.lastOdom
  BY <1>6, <1>7 DEF Builds
<1> HIDE DEF nb
<1> QED
  BY <1>3, <1>4, <1>5, <1>7, <1>8 DEF n, s, edges, nodes

\* The translation of the sequential edge is a number.
LEMMA MatchedDeltaIsInt ==
    ASSUME NEW delta \in Int, NEW c \in Decisions
    PROVE  MatchedDelta(delta, c) \in Int
<1>1. c.error \in Int /\ c.info \in Nat /\ OdomInformation \in Nat
  BY GraphAssumption DEF Decisions
<1> DEFINE dx == delta + c.error
           total == c.info + OdomInformation
           pull == OdomInformation * (delta - dx)
<1>2. dx \in Int /\ total \in Nat /\ pull \in Int /\ (OdomInformation # 0 => total > 0)
  BY <1>1
<1> HIDE DEF total, pull
<1>3. OdomInformation # 0 => pull \div total \in Int
  BY <1>2
<1>4. FuseWithOdometry(delta, dx, c.info)
        = IF OdomInformation = 0 THEN dx ELSE dx + (pull \div total)
  BY DEF FuseWithOdometry, pull, total
<1>5. FuseWithOdometry(delta, dx, c.info) \in Int
  BY <1>2, <1>3, <1>4
<1> QED
  BY <1>5 DEF MatchedDelta

\* add_scan of the odometry builder.
LEMMA OdomGrows ==
    ASSUME builder \in Builds, builder.nodes # <<>>, NEW od \in Int
    PROVE  /\ \E s \in Edges, links \in Seq(Edges) : GrewBy(builder, OdomAddScan(od), s, links)
           /\ OdomAddScan(od).lastOdom = od
<1> DEFINE dx == od - builder.lastOdom
           b1 == Extended(builder, dx, FALSE)
           n == Len(builder.nodes)
           s == Edge(n, n + 1, dx, FALSE)
           nb == [b1 EXCEPT !.lastOdom = od]
<1>1. dx \in Int
  BY BuilderParts
<1> HIDE DEF dx
<1>2. /\ b1 \in Builds /\ b1.kind = builder.kind
      /\ Len(b1.nodes) = n + 1 /\ \A i \in 1..n : b1.nodes[i] = builder.nodes[i]
      /\ b1.nodes[n + 1].frame = builder.nodes[n].frame
      /\ s \in Edges /\ s.from = n /\ s.to = n + 1
      /\ b1.edges = Append(builder.edges, s)
  BY <1>1, ExtendedGrows
<1>3. OdomAddScan(od) = nb
  BY DEF OdomAddScan, dx
<1> HIDE DEF b1, s
<1>4. /\ nb \in Builds /\ nb.kind = b1.kind /\ nb.nodes = b1.nodes /\ nb.edges = b1.edges
      /\ nb.lastOdom = od
  BY <1>2 DEF Builds
<1> HIDE DEF nb
<1> DEFINE none == <<>>
<1>5. none \in Seq(Edges) /\ AreMeshLinks(none, n + 1)
  BY DEF AreMeshLinks, Range
<1>6. b1.edges = b1.edges \o none
  BY <1>2, BuilderParts
<1> HIDE DEF none
<1>7. GrewBy(builder, nb, s, none)
  BY <1>2, <1>4, <1>5, <1>6 DEF GrewBy
<1> QED
  BY <1>2, <1>3, <1>4, <1>5, <1>7

\* add_scan of the matching builder.
LEMMA MatchingGrows ==
    ASSUME builder \in Builds, builder.nodes # <<>>, NEW od \in Int, NEW c \in Decisions
    PROVE  /\ \E s \in Edges, links \in Seq(Edges) : GrewBy(builder, MatchingAddScan(od, c), s, links)
           /\ MatchingAddScan(od, c).lastOdom = od
<1> DEFINE dx == MatchedDelta(od - builder.lastOdom, c)
           fb == ~c.converged
           b1 == Extended(builder, dx, fb)
           n == Len(builder.nodes)
           s == Edge(n, n + 1, dx, fb)
           links == IF Len(b1.nodes) > NearMinDiff THEN NearLinks(b1.nodes, c.near) ELSE <<>>
           streak == IF c.converged THEN 0 ELSE b1.failureStreak + 1
           all == b1.edges \o links
           nb == [b1 EXCEPT !.edges = all, !.lastOdom = od, !.failureStreak = streak]
<1>1. dx \in Int /\ fb \in BOOLEAN
  BY BuilderParts, MatchedDeltaIsInt
<1>2. MatchingAddScan(od, c) = [b1 EXCEPT !.edges = @ \o links, !.lastOdom = od,
                                          !.failureStreak = IF c.converged THEN 0 ELSE @ + 1]
  BY DEF MatchingAddScan
<1> HIDE DEF dx, fb
<1>3. /\ b1 \in Builds /\ b1.kind = builder.kind
      /\ Len(b1.nodes) = n + 1 /\ \A i \in 1..n : b1.nodes[i] = builder.nodes[i]
      /\ b1.nodes[n + 1].frame = builder.nodes[n].frame
      /\ s \in Edges /\ s.from = n /\ s.to = n + 1
      /\ b1.edges = Append(builder.edges, s)
  BY <1>1, ExtendedGrows
<1> HIDE DEF b1, s
<1>4. links \in Seq(Edges) /\ AreMeshLinks(links, n + 1)
  <2>1. CASE Len(b1.nodes) > NearMinDiff
    <3>1. b1.nodes \in Seq(Poses) /\ b1.nodes # <<>>
      <4>1. b1.nodes \in Seq(Poses) /\ n \in Nat
        BY <1>3, BuilderParts
      <4>2. Len(b1.nodes) # 0
        BY <1>3, <4>1
      <4> QED
        BY <4>1, <4>2
    <3>2. /\ NearLinks(b1.nodes, c.near) \in Seq(Edges)
          /\ AreMeshLinks(NearLinks(b1.nodes, c.near), Len(b1.nodes))
      BY <3>1, NearLinksAreMeshLinks
    <3> QED
      BY <1>3, <2>1, <3>2
  <2>2. CASE ~(Len(b1.nodes) > NearMinDiff)
    <3> DEFINE none == <<>>
    <3>1. none \in Seq(Edges) /\ AreMeshLinks(none, n + 1)
      BY DEF AreMeshLinks, Range
    <3>2. links = none
      BY <2>2
    <3> HIDE DEF none, links
    <3> QED
      BY <3>1, <3>2
  <2> QED
    BY <2>1, <2>2
<1> HIDE DEF links
<1>5. all \in Seq(Edges) /\ streak \in Int
  BY <1>3, <1>4, BuilderParts, RangeOfConcat
<1>6. MatchingAddScan(od, c) = nb
  BY <1>2, <1>3 DEF Builds
<1> HIDE DEF streak
<1>7. /\ nb \in Builds /\ nb.kind = b1.kind /\ nb.nodes = b1.nodes /\ nb.edges = all
      /\ nb.lastOdom = od
  BY <1>3, <1>5 DEF Builds
<1> HIDE DEF nb
<1>8. GrewBy(builder, nb, s, links)
  BY <1>3, <1>4, <1>7 DEF GrewBy
<1> QED
  BY <1>3, <1>4, <1>6, <1>7, <1>8

\* Whichever builder it is, a keyframe after the first extends the graph.
LEMMA KeyframeGrows ==
    ASSUME builder \in Builds, builder.nodes # <<>>, NEW od \in Int, NEW c \in Decisions
    PROVE  /\ \E s \in Edges, links \in Seq(Edges) : GrewBy(builder, BuilderAddScan(od, c), s, links)
           /\ BuilderAddScan(od, c).lastOdom = od
<1>1. CASE builder.kind = "odom"
  <2>1. BuilderAddScan(od, c) = OdomAddScan(od)
    BY <1>1 DEF BuilderAddScan
  <2> QED
    BY <2>1, OdomGrows
<1>2. CASE builder.kind # "odom"
  <2>1. BuilderAddScan(od, c) = MatchingAddScan(od, c)
    BY <1>2 DEF BuilderAddScan
  <2> QED
    BY <2>1, MatchingGrows
<1> QED
  BY <1>1, <1>2

\* The first keyframe: one node in the odometry frame, no edge.
LEMMA FirstKeyframe ==
    ASSUME builder \in Builds, builder.nodes = <<>>, orch.useGnss \in BOOLEAN,
           NEW od \in Int, NEW c
    PROVE  LET nb == BuilderAddScan(od, c) IN
           /\ nb \in Builds /\ nb.kind = builder.kind /\ nb.edges = builder.edges
           /\ nb.lastOdom = od /\ nb.nodes = <<Pose(OdomFrame, od)>>
           /\ Pose(OdomFrame, od) \in Poses
<1> DEFINE p == Pose(OdomFrame, od)
           nodes == <<p>>
           nb == [builder EXCEPT !.nodes = nodes, !.lastOdom = od]
<1>1. p \in Poses
  BY DEF Pose, OdomFrame, Poses
<1>2. BuilderAddScan(od, c) = nb
  BY DEF BuilderAddScan
<1> HIDE DEF p
<1>3. nodes \in Seq(Poses)
  BY <1>1
<1> HIDE DEF nodes
<1>4. /\ nb \in Builds /\ nb.kind = builder.kind /\ nb.edges = builder.edges
      /\ nb.lastOdom = od /\ nb.nodes = nodes
  BY <1>3 DEF Builds
<1> HIDE DEF nb
<1> QED
  BY <1>1, <1>2, <1>4 DEF nodes, p

(***************************************************************************)
(* The loop closure builder.                                               *)
(***************************************************************************)

\* Loop edges lead from the newest keyframe to some much older.
AreLoopEdges(list, n) ==
    \A e \in Range(list) : e.to = n /\ e.from >= 1 /\ Gap(e) >= LoopGap

\* The fields of the loop builder's records.
LEMMA ClosingParts ==
    ASSUME NEW l \in Closings
    PROVE  /\ l.cache \in Seq(Poses) /\ l.edges \in Seq(Edges) /\ l.tree \in Seq(Poses)
           /\ l.dirty \in BOOLEAN
BY DEF Closings

\* try_add_loop_edge for all candidates: new edges go to the end.
LEMMA LoopEdgesAreAppended ==
    ASSUME NEW l \in Closings, l.tree = l.cache, l.cache # <<>>, NEW accepted
    PROVE  LET nl == TryAddLoopEdges(l, accepted) IN
           /\ nl \in Closings /\ nl.cache = l.cache /\ nl.tree = l.tree /\ nl.dirty = l.dirty
           /\ \E new \in Seq(Edges) :
                nl.edges = l.edges \o new /\ AreLoopEdges(new, Len(l.cache))
<1> DEFINE cur == Len(l.cache)
           list == [j \in DOMAIN l.tree |-> j]
           K == {j \in LoopCandidates(l) \cap accepted :
                   /\ \A e \in Range(l.edges) : e.from # j
                   /\ CandidateSubmap(l, j) # {} /\ QuerySubmap(l) # {}}
           picked == Selected(list, K)
           new == [k \in DOMAIN picked |->
                     Edge(picked[k], cur, l.cache[cur].x - l.cache[picked[k]].x, FALSE)]
           all == l.edges \o new
           nl == [l EXCEPT !.edges = all]
<1>1. /\ l.cache \in Seq(Poses) /\ cur \in Nat /\ cur \in 1..cur /\ DOMAIN l.tree = 1..cur
  BY ClosingParts
<1>2. list \in Seq(1..cur)
  <2> HIDE DEF cur
  <2>1. list \in [1..cur -> 1..cur] /\ cur \in Nat
    BY <1>1
  <2> HIDE DEF list
  <2> QED
    BY <2>1
<1>3. picked \in Seq(1..cur) /\ Range(picked) \subseteq K
  <2> HIDE DEF K, list, cur
  <2> QED
    BY <1>2, SelectionKeeps
<1>4. \A j \in K : cur - j >= MinNodeGap
  BY DEF LoopCandidates
<1> HIDE DEF K, list
<1> HIDE DEF picked
<1>5. ASSUME NEW k \in DOMAIN picked
      PROVE  /\ new[k] \in Edges /\ new[k].to = cur /\ new[k].from >= 1
             /\ Gap(new[k]) >= LoopGap
  <2> DEFINE j == picked[k]  dx == l.cache[cur].x - l.cache[j].x  e == Edge(j, cur, dx, FALSE)
  <2>1. new[k] = e
    OBVIOUS
  <2>2. j \in 1..cur /\ j \in K
    BY <1>3 DEF Range
  <2>3. dx \in Int
    BY <1>1, <2>2, PositionsAreInts
  <2>4. cur - j >= LoopGap
    <3>1. cur - j >= MinNodeGap
      BY <1>4, <2>2
    <3> HIDE DEF cur, j
    <3> QED
      BY <1>1, <2>2, <3>1, GapsAssumption, GraphAssumption
  <2> HIDE DEF dx, j, new, cur
  <2>5. e \in Edges /\ e.to = cur /\ e.from >= 1 /\ Gap(e) >= LoopGap
    BY <1>1, <2>2, <2>3, <2>4 DEF Edge, Edges, Gap
  <2> HIDE DEF e
  <2> QED
    BY <2>1, <2>5
<1>6. new \in Seq(Edges) /\ AreLoopEdges(new, cur)
  <2>1. DOMAIN picked = 1..Len(picked) /\ Len(picked) \in Nat /\ DOMAIN new = DOMAIN picked
    BY <1>3
  <2> HIDE DEF cur
  <2>2. new = [k \in 1..Len(picked) |-> new[k]]
    BY <2>1
  <2> HIDE DEF new
  <2>3. new \in Seq(Edges)
    BY <1>5, <2>1, <2>2
  <2>4. AreLoopEdges(new, cur)
    BY <1>5, <2>1 DEF AreLoopEdges, Range
  <2> QED
    BY <2>3, <2>4
<1>7. TryAddLoopEdges(l, accepted) = [l EXCEPT !.edges = @ \o new]
  BY DEF TryAddLoopEdges, picked, list, K
<1> HIDE DEF new
<1>8. all \in Seq(Edges)
  BY <1>6, ClosingParts, RangeOfConcat
<1>9. TryAddLoopEdges(l, accepted) = nl
  BY <1>7 DEF Closings
<1>10. nl \in Closings /\ nl.cache = l.cache /\ nl.tree = l.tree /\ nl.dirty = l.dirty /\ nl.edges = all
  BY <1>8 DEF Closings
<1> HIDE DEF nl
<1> QED
  BY <1>6, <1>9, <1>10

\* The loop builder's picture of the graph of b.
LoopsInv(b, l) ==
    /\ l \in Closings
    /\ b.kind = "loop" => l.cache = b.nodes
    /\ b.kind # "loop" => l.edges = <<>>
    /\ ~l.dirty => l.tree = l.cache
    /\ \A e \in Range(l.edges) : e.from >= 1 /\ e.to <= Len(b.nodes) /\ Gap(e) >= LoopGap

\* A node put at the end of a list.
LEMMA GrownList ==
    ASSUME NEW E, NEW s \in Seq(E), NEW t \in Seq(E), Len(t) = Len(s) + 1,
           \A i \in 1..Len(s) : t[i] = s[i]
    PROVE  Append(s, t[Len(t)]) = t
<1> DEFINE n == Len(s)  e == t[Len(t)]  u == Append(s, e)
<1>1. n \in Nat /\ Len(t) = n + 1 /\ e \in E /\ e = t[n + 1]
  OBVIOUS
<1>2. \A i \in 1..n : t[i] = s[i]
  OBVIOUS
<1> HIDE DEF e
<1>3. u \in Seq(E) /\ Len(u) = n + 1 /\ u[n + 1] = e /\ \A i \in 1..n : u[i] = s[i]
  BY <1>1
<1> HIDE DEF n, u
<1>4. \A i \in 1..(n + 1) : i \in 1..n \/ i = n + 1
  BY <1>1
<1>5. \A i \in 1..(n + 1) : u[i] = t[i]
  BY <1>1, <1>2, <1>3, <1>4
<1>6. u = t
  BY <1>1, <1>3, <1>5
<1> QED
  BY <1>6 DEF u, e

\* add_scan of the loop builder after the inner one.
LEMMA LoopsGrow ==
    ASSUME builder \in Builds, LoopsInv(builder, loops),
           NEW nodes \in Seq(Poses), Len(nodes) = Len(builder.nodes) + 1,
           \A i \in 1..Len(builder.nodes) : nodes[i] = builder.nodes[i], NEW c
    PROVE  LET nl == LoopsAddScan(nodes, c) IN
           /\ nl \in Closings
           /\ builder.kind = "loop" => nl.cache = nodes
           /\ ~nl.dirty => nl.tree = nl.cache
           /\ \E new \in Seq(Edges) :
                /\ nl.edges = loops.edges \o new /\ AreLoopEdges(new, Len(nodes))
                /\ builder.kind # "loop" => new = <<>>
<1> DEFINE none == <<>>
<1>0. none \in Seq(Edges) /\ AreLoopEdges(none, Len(nodes))
  BY DEF AreLoopEdges, Range
<1>1. CASE builder.kind # "loop"
  <2>1. LoopsAddScan(nodes, c) = loops
    BY <1>1 DEF LoopsAddScan
  <2>2. loops \in Closings /\ loops.edges \in Seq(Edges)
    BY ClosingParts DEF LoopsInv
  <2>3. loops.edges = loops.edges \o none
    BY <2>2
  <2>4. \E new \in Seq(Edges) : /\ loops.edges = loops.edges \o new /\ AreLoopEdges(new, Len(nodes))
                                /\ new = <<>>
    <3>1. none = <<>>
      OBVIOUS
    <3> HIDE DEF none
    <3> QED
      BY <1>0, <2>3, <3>1
  <2> QED
    BY <1>1, <2>1, <2>2, <2>4 DEF LoopsInv
<1>2. CASE builder.kind = "loop"
  <2> DEFINE yes == TRUE
             l == [loops EXCEPT !.cache = nodes, !.dirty = yes]
             no == FALSE
             k == [l EXCEPT !.tree = nodes, !.dirty = no]
             nl == TryAddLoopEdges(k, c.loop)
  <2>1. loops \in Closings /\ loops.cache = builder.nodes /\ builder.nodes \in Seq(Poses)
    BY <1>2, BuilderParts DEF LoopsInv
  <2>2. Append(loops.cache, nodes[Len(nodes)]) = nodes
    BY <2>1, GrownList
  <2>3. yes \in BOOLEAN /\ no \in BOOLEAN /\ yes /\ ~no
    OBVIOUS
  <2>4. LoopsAddScan(nodes, c) = TryAddLoopEdges(EnsureNodeKdtree(l), c.loop)
    <3>1. LoopsAddScan(nodes, c) =
            TryAddLoopEdges(EnsureNodeKdtree([loops EXCEPT !.cache = Append(@, nodes[Len(nodes)]),
                                                           !.dirty = TRUE]), c.loop)
      BY <1>2 DEF LoopsAddScan
    <3>2. l = [loops EXCEPT !.cache = Append(@, nodes[Len(nodes)]), !.dirty = TRUE]
      BY <2>1, <2>2 DEF Closings
    <3> QED
      BY <3>1, <3>2
  <2> HIDE DEF yes
  <2>5. l \in Closings /\ l.cache = nodes /\ l.dirty = yes /\ l.edges = loops.edges
    BY <2>1, <2>3 DEF Closings
  <2>6. EnsureNodeKdtree(l) = k
    <3> HIDE DEF l
    <3> QED
      BY <2>3, <2>5 DEF EnsureNodeKdtree
  <2> HIDE DEF l, no
  <2>7. k \in Closings /\ k.cache = nodes /\ k.tree = nodes /\ k.dirty = no /\ k.edges = loops.edges
    BY <2>3, <2>5 DEF Closings
  <2>8. nodes # <<>>
    <3>1. Len(nodes) # 0
      BY <2>1
    <3> QED
      BY <3>1
  <2> HIDE DEF k
  <2>9. /\ nl \in Closings /\ nl.cache = nodes /\ nl.tree = nodes
        /\ \E new \in Seq(Edges) : nl.edges = loops.edges \o new /\ AreLoopEdges(new, Len(nodes))
    BY <2>7, <2>8, LoopEdgesAreAppended
  <2>10. LoopsAddScan(nodes, c) = nl
    BY <2>4, <2>6
  <2> HIDE DEF nl
  <2> QED
    BY <1>2, <2>9, <2>10
<1> QED
  BY <1>1, <1>2

\* replace_nodes() of the loop builder.
LEMMA LoopsReplaced ==
    ASSUME NEW b \in Builds, NEW l, LoopsInv(b, l),
           NEW nodes \in Seq(Poses), Len(nodes) = Len(b.nodes)
    PROVE  LET nl == LoopsReplaceNodes(l, nodes) IN
           /\ nl \in Closings /\ nl.edges = l.edges /\ nl.dirty
           /\ b.kind = "loop" => nl.cache = nodes
<1> DEFINE cache == [i \in DOMAIN l.cache |-> IF i \in DOMAIN nodes THEN nodes[i] ELSE l.cache[i]]
           yes == TRUE
           nl == [l EXCEPT !.cache = cache, !.dirty = yes]
<1>1. l \in Closings /\ l.cache \in Seq(Poses)
  BY ClosingParts DEF LoopsInv
<1>2. cache \in Seq(Poses) /\ (b.kind = "loop" => cache = nodes)
  <2> DEFINE old == l.cache  n == Len(old)
  <2>1. DOMAIN old = 1..n /\ n \in Nat /\ (\A i \in 1..n : old[i] \in Poses)
    BY <1>1
  <2>2. \A i \in DOMAIN nodes : nodes[i] \in Poses
    OBVIOUS
  <2>3. cache = [i \in 1..n |-> IF i \in DOMAIN nodes THEN nodes[i] ELSE old[i]]
    BY <2>1
  <2>4. b.kind = "loop" => old = b.nodes
    BY DEF LoopsInv
  <2> HIDE DEF old, n, cache
  <2>5. cache \in [1..n -> Poses]
    BY <2>1, <2>2, <2>3
  <2>6. cache \in Seq(Poses)
    BY <2>1, <2>5
  <2>7. ASSUME b.kind = "loop" PROVE cache = nodes
    <3>1. n = Len(nodes) /\ DOMAIN nodes = 1..n
      BY <2>4, <2>7 DEF n
    <3>2. cache = [i \in 1..n |-> nodes[i]]
      BY <2>3, <3>1
    <3> QED
      BY <3>1, <3>2
  <2> QED
    BY <2>6, <2>7
<1>3. LoopsReplaceNodes(l, nodes) = nl
  BY <1>1 DEF LoopsReplaceNodes, Closings
<1> HIDE DEF cache
<1>4. yes \in BOOLEAN /\ yes
  OBVIOUS
<1> HIDE DEF yes
<1>5. nl \in Closings /\ nl.edges = l.edges /\ nl.dirty = yes /\ nl.cache = cache
  BY <1>1, <1>2, <1>4 DEF Closings
<1> HIDE DEF nl
<1> QED
  BY <1>2, <1>3, <1>4, <1>5

(***************************************************************************)
(* LocalMapProvider.                                                       *)
(***************************************************************************)

\* The reference map holds keyframes where the graph has them.
ReferenceInv(nodes, r) ==
    /\ r = [window |-> r.window, last |-> r.last]
    /\ r.window \in Seq(Kept)
    /\ \A k \in DOMAIN r.window :
         r.window[k].i \in 1..Len(nodes) /\ r.window[k].p = nodes[r.window[k].i]

\* A keyframe more in the graph disturbs no cached one.
LEMMA ReferenceOfLonger ==
    ASSUME NEW nodes \in Seq(Poses), NEW more \in Seq(Poses), Len(more) = Len(nodes) + 1,
           \A i \in 1..Len(nodes) : more[i] = nodes[i], NEW r, ReferenceInv(nodes, r)
    PROVE  ReferenceInv(more, r)
<1>1. \A i \in 1..Len(nodes) : i \in 1..Len(more)
  <2>1. Len(nodes) \in Nat
    OBVIOUS
  <2> QED
    BY <2>1
<1> QED
  BY <1>1 DEF ReferenceInv

\* The elements of a list without its first one.
LEMMA TailHas ==
    ASSUME NEW E, NEW s \in Seq(E), s # <<>>
    PROVE  Tail(s) \in Seq(E) /\ Range(Tail(s)) \subseteq Range(s)
<1> DEFINE t == Tail(s)  n == Len(s)
<1>1. t \in Seq(E) /\ Len(t) = n - 1 /\ n \in Nat /\ n # 0
      /\ \A i \in 1..(n - 1) : t[i] = s[i + 1]
  OBVIOUS
<1>2. DOMAIN t = 1..(n - 1) /\ DOMAIN s = 1..n
  BY <1>1
<1> HIDE DEF t, n
<1>3. ASSUME NEW x \in Range(t) PROVE x \in Range(s)
  <2>1. PICK i \in 1..(n - 1) : x = t[i]
    BY <1>2 DEF Range
  <2>2. i + 1 \in 1..n /\ x = s[i + 1]
    BY <1>1, <2>1
  <2> QED
    BY <1>2, <2>2 DEF Range
<1> QED
  BY <1>1, <1>3 DEF t

\* The window as a set: what each cached keyframe is.
LEMMA ReferenceByRange ==
    ASSUME NEW nodes, NEW r, r = [window |-> r.window, last |-> r.last], r.window \in Seq(Kept)
    PROVE  ReferenceInv(nodes, r) <=>
             \A e \in Range(r.window) : e.i \in 1..Len(nodes) /\ e.p = nodes[e.i]
BY DEF ReferenceInv, Range

\* update(): the new keyframe comes in, the oldest one leaves.
LEMMA ReferenceUpdated ==
    ASSUME NEW nodes \in Seq(Poses), NEW r, ReferenceInv(nodes, r), NEW n \in 1..Len(nodes),
           Len(nodes) \in Nat
    PROVE  ReferenceInv(nodes, ReferenceUpdate(r, n, nodes[n]))
<1> DEFINE w == r.window
           e == [i |-> n, p |-> nodes[n]]
           rest == IF Len(w) >= Window THEN Tail(w) ELSE w
           o == <<e>>
           grown == rest \o o
           nr == [window |-> grown, last |-> e]
<1>1. ReferenceUpdate(r, n, nodes[n]) = nr
  BY DEF ReferenceUpdate
<1>2. e \in Kept /\ e.i = n /\ e.p = nodes[n]
  BY PositionsAreInts DEF Kept
<1> HIDE DEF e
<1>3. w \in Seq(Kept) /\ \A x \in Range(w) : x.i \in 1..Len(nodes) /\ x.p = nodes[x.i]
  BY DEF ReferenceInv, Range
<1>4. CASE w = <<>> /\ Len(w) >= Window
  BY <1>4, GraphAssumption
<1>5. CASE ~(w = <<>> /\ Len(w) >= Window)
  <2>1. rest \in Seq(Kept) /\ Range(rest) \subseteq Range(w)
    <3> HIDE DEF w
    <3> QED
      BY <1>3, <1>5, TailHas
  <2> HIDE DEF rest
  <2>2. o \in Seq(Kept) /\ Range(o) = {e}
    BY <1>2, RangeOfOne
  <2> HIDE DEF o
  <2>3. grown \in Seq(Kept) /\ Range(grown) = Range(rest) \cup {e}
    BY <2>1, <2>2, RangeOfConcat
  <2> HIDE DEF grown
  <2>4. \A x \in Range(grown) : x.i \in 1..Len(nodes) /\ x.p = nodes[x.i]
    BY <1>2, <1>3, <2>1, <2>3
  <2>5. nr = [window |-> nr.window, last |-> nr.last] /\ nr.window = grown
    OBVIOUS
  <2> HIDE DEF nr
  <2>6. ReferenceInv(nodes, nr)
    BY <2>3, <2>4, <2>5, ReferenceByRange
  <2> QED
    BY <1>1, <2>6
<1> QED
  BY <1>4, <1>5

\* sync_poses(): every cached keyframe goes where the graph has it.
LEMMA ReferenceSynced ==
    ASSUME NEW old \in Seq(Poses), NEW nodes \in Seq(Poses), Len(nodes) = Len(old),
           NEW r, ReferenceInv(old, r)
    PROVE  ReferenceInv(nodes, SyncPoses(r, nodes))
<1> DEFINE w == r.window
           n == Len(nodes)
<1>1. /\ w \in Seq(Kept) /\ n \in Nat /\ DOMAIN nodes = 1..n
      /\ \A k \in DOMAIN w : w[k].i \in 1..n /\ w[k] \in Kept
  BY DEF ReferenceInv
<1>2. CASE w = <<>>
  <2>1. SyncPoses(r, nodes) = r
    BY <1>2 DEF SyncPoses
  <2>2. DOMAIN w = {}
    BY <1>2
  <2> QED
    BY <2>1, <2>2 DEF ReferenceInv
<1>3. CASE w # <<>>
  <2>1. nodes # <<>>
    <3>1. 1 \in DOMAIN w
      BY <1>1, <1>3
    <3>2. n # 0
      BY <1>1, <3>1
    <3> QED
      BY <3>2
  <2> DEFINE nw == [k \in DOMAIN w |-> IF w[k].i \in DOMAIN nodes
                                       THEN [w[k] EXCEPT !.p = nodes[w[k].i]] ELSE w[k]]
             nl == IF r.last # None /\ r.last.i \in DOMAIN nodes
                   THEN [r.last EXCEPT !.p = nodes[r.last.i]] ELSE r.last
             nr == [window |-> nw, last |-> nl]
  <2>2. SyncPoses(r, nodes) = nr
    BY <1>3, <2>1 DEF SyncPoses
  <2>3. \A k \in DOMAIN w : nw[k] = [w[k] EXCEPT !.p = nodes[w[k].i]]
    BY <1>1
  <2>4. ASSUME NEW k \in DOMAIN w PROVE nw[k] \in Kept /\ nw[k].i \in 1..n /\ nw[k].p = nodes[nw[k].i]
    <3> DEFINE e == w[k]  p == nodes[e.i]
    <3>1. e \in Kept /\ e.i \in 1..n /\ nw[k] = [e EXCEPT !.p = p]
      BY <1>1, <2>3
    <3>2. p \in Poses
      BY <1>1, <3>1
    <3> HIDE DEF e, nw
    <3>3. nw[k] \in Kept /\ nw[k].i = e.i /\ nw[k].p = p
      <4> HIDE DEF p
      <4> QED
        BY <3>1, <3>2 DEF Kept
    <3> QED
      BY <3>1, <3>3
  <2>5. DOMAIN nw = DOMAIN w /\ DOMAIN w = 1..Len(w) /\ Len(w) \in Nat
    BY <1>1
  <2>6. nw \in Seq(Kept)
    <3>1. nw = [k \in 1..Len(w) |-> nw[k]]
      BY <2>5
    <3> HIDE DEF nw, w
    <3> QED
      BY <2>4, <2>5, <3>1
  <2> HIDE DEF nw, nl
  <2>7. nr = [window |-> nr.window, last |-> nr.last] /\ nr.window = nw
    OBVIOUS
  <2> HIDE DEF nr
  <2>8. ReferenceInv(nodes, nr)
    BY <2>4, <2>5, <2>6, <2>7 DEF ReferenceInv, n
  <2> QED
    BY <2>2, <2>8
<1> QED
  BY <1>2, <1>3

(***************************************************************************)
(* The state process_frame passes on.                                      *)
(***************************************************************************)

\* It has six parts.
IsState(g) == g \in [b : {g.b}, r : {g.r}, l : {g.l}, o : {g.o}, a : {g.a}, m : {g.m}]

\* Sequential edges and mesh links join keyframes that are close in index.
BuilderInv(b) ==
    /\ b \in Builds
    /\ \A e \in Range(b.edges) :
         e.from >= 1 /\ e.from < e.to /\ e.to <= Len(b.nodes) /\ Gap(e) < LoopGap

\* Graph, loop builder and reference map agree.
GraphInv(g) ==
    IsState(g) /\ BuilderInv(g.b) /\ LoopsInv(g.b, g.l) /\ ReferenceInv(g.b.nodes, g.r)

\* h is g with the poses of these nodes.
HasNodes(g, h, nodes) ==
    /\ h.b.nodes = nodes /\ h.b.edges = g.b.edges /\ h.b.kind = g.b.kind
    /\ h.b.lastOdom = g.b.lastOdom /\ h.l.edges = g.l.edges
    /\ h.o = g.o /\ h.a = g.a /\ h.m = g.m

\* replace_nodes() reaches every copy.
LEMMA ReplaceNodesReaches ==
    ASSUME NEW g, GraphInv(g), NEW nodes \in Seq(Poses), Len(nodes) = Len(g.b.nodes)
    PROVE  GraphInv(ReplaceNodes(g, nodes)) /\ HasNodes(g, ReplaceNodes(g, nodes), nodes)
<1> DEFINE b == [g.b EXCEPT !.nodes = nodes]
           r == SyncPoses(g.r, nodes)
           l == LoopsReplaceNodes(g.l, nodes)
           h == [g EXCEPT !.b = b, !.r = r, !.l = l]
<1>1. g.b \in Builds /\ g.b.nodes \in Seq(Poses)
  BY BuilderParts DEF GraphInv, BuilderInv
<1>2. /\ b \in Builds /\ b.nodes = nodes /\ b.edges = g.b.edges /\ b.kind = g.b.kind
      /\ b.lastOdom = g.b.lastOdom
  BY <1>1 DEF Builds
<1>3. ReplaceNodes(g, nodes) = h
  BY DEF ReplaceNodes, GraphInv, IsState
<1> HIDE DEF b
<1>4. /\ l \in Closings /\ l.edges = g.l.edges /\ l.dirty
      /\ g.b.kind = "loop" => l.cache = nodes
  BY <1>1, LoopsReplaced DEF GraphInv
<1> HIDE DEF l
<1>5. BuilderInv(b)
  BY <1>2 DEF GraphInv, BuilderInv
<1>6. LoopsInv(b, l)
  BY <1>2, <1>4 DEF GraphInv, LoopsInv
<1>7. ReferenceInv(b.nodes, r)
  BY <1>1, <1>2, ReferenceSynced DEF GraphInv
<1> HIDE DEF r
<1>8. IsState(h) /\ h.b = b /\ h.r = r /\ h.l = l /\ h.o = g.o /\ h.a = g.a /\ h.m = g.m
  BY DEF GraphInv, IsState
<1> HIDE DEF h
<1>9. GraphInv(h)
  BY <1>5, <1>6, <1>7, <1>8 DEF GraphInv
<1>10. HasNodes(g, h, nodes)
  BY <1>2, <1>4, <1>8 DEF HasNodes
<1> QED
  BY <1>3, <1>9, <1>10

\* The graph between two frames.
Now == [b |-> builder, r |-> reference, l |-> loops, o |-> optimizer, a |-> anchor, m |-> orch]

\* g has a keyframe more than the graph, and the edges that lead to it.
HasAdded(g) ==
    \E s \in Edges, links \in Seq(Edges), new \in Seq(Edges) :
      /\ g.b.edges = Append(builder.edges, s) \o links
      /\ g.l.edges = loops.edges \o new
      /\ s.from = Len(builder.nodes) /\ s.to = Len(g.b.nodes)
      /\ AreMeshLinks(links, Len(g.b.nodes)) /\ AreLoopEdges(new, Len(g.b.nodes))

\* Numbers of edges.
LEMMA EdgeParts ==
    ASSUME NEW e \in Edges
    PROVE  e.from \in Nat /\ e.to \in Nat /\ Gap(e) = e.to - e.from /\ Gap(e) \in Int
BY DEF Edges, Gap

\* The elements of a list of edges are edges.
LEMMA ListedEdge ==
    ASSUME NEW list \in Seq(Edges), NEW e \in Range(list)
    PROVE  e \in Edges
BY DEF Range

\* add_scan: the graph, the loop builder and the reference map grow together.
LEMMA AddScanGrows ==
    ASSUME GraphInv(Now), orch.useGnss \in BOOLEAN, NEW od \in Int, NEW c \in Decisions
    PROVE  LET g == AddScan(od, c) IN
           /\ GraphInv(g) /\ g.o = optimizer /\ g.a = anchor /\ g.m = orch
           /\ g.b.lastOdom = od /\ Len(g.b.nodes) = Len(builder.nodes) + 1
           /\ builder.nodes = <<>> => g.b.nodes[1].frame = OdomFrame
           /\ builder.nodes # <<>> =>
                /\ \A i \in 1..Len(builder.nodes) : g.b.nodes[i] = builder.nodes[i]
                /\ g.b.nodes[Len(g.b.nodes)].frame = builder.nodes[Len(builder.nodes)].frame
                /\ HasAdded(g)
<1> DEFINE b == BuilderAddScan(od, c)
           n == Len(b.nodes)
           r == IF b.kind = "odom" THEN reference ELSE ReferenceUpdate(reference, n, b.nodes[n])
           l == LoopsAddScan(b.nodes, c)
           g == [b |-> b, r |-> r, l |-> l, o |-> optimizer, a |-> anchor, m |-> orch]
           old == Len(builder.nodes)
<1>1. AddScan(od, c) = g
  BY DEF AddScan
<1>2. Now.b = builder /\ Now.r = reference /\ Now.l = loops
  BY DEF Now
<1>3. BuilderInv(builder) /\ LoopsInv(builder, loops) /\ ReferenceInv(builder.nodes, reference)
  BY <1>2 DEF GraphInv
<1>4. builder \in Builds /\ builder.nodes \in Seq(Poses) /\ builder.edges \in Seq(Edges) /\ old \in Nat
  BY <1>3, BuilderParts DEF BuilderInv
<1>5. \A e \in Range(builder.edges) : /\ e.from >= 1 /\ e.from < e.to /\ e.to <= old
                                      /\ Gap(e) < LoopGap
  BY <1>3 DEF BuilderInv
<1>6. /\ b \in Builds /\ b.kind = builder.kind /\ b.lastOdom = od
      /\ n = old + 1 /\ \A i \in 1..old : b.nodes[i] = builder.nodes[i]
      /\ builder.nodes = <<>> => b.nodes[1].frame = OdomFrame
  <2>1. CASE builder.nodes = <<>>
    <3> DEFINE p == Pose(OdomFrame, od)
    <3>1. b \in Builds /\ b.kind = builder.kind /\ b.lastOdom = od /\ b.nodes = <<p>>
      BY <1>4, <2>1, FirstKeyframe
    <3>2. p.frame = OdomFrame
      BY DEF Pose
    <3> HIDE DEF p, b
    <3>3. old = 0 /\ n = 1 /\ b.nodes[1] = p
      BY <2>1, <3>1
    <3> QED
      BY <3>1, <3>2, <3>3
  <2>2. CASE builder.nodes # <<>>
    BY <1>4, <2>2, KeyframeGrows DEF GrewBy
  <2> QED
    BY <2>1, <2>2
<1>7. b.nodes \in Seq(Poses) /\ n \in Nat /\ n \in 1..n
  BY <1>4, <1>6, BuilderParts
<1>8. builder.nodes = <<>> => b.edges = builder.edges
  BY <1>4, FirstKeyframe
<1>9. ASSUME builder.nodes # <<>>
      PROVE  \E s \in Edges, links \in Seq(Edges) : GrewBy(builder, b, s, links)
  BY <1>4, <1>9, KeyframeGrows
<1> HIDE DEF b
<1>10. \A e \in Range(b.edges) : e.from >= 1 /\ e.from < e.to /\ e.to <= n /\ Gap(e) < LoopGap
  <2>1. \A e \in Range(builder.edges) : e.to <= n
    <3> SUFFICES ASSUME NEW e \in Range(builder.edges) PROVE e.to <= n
      OBVIOUS
    <3>1. e.to \in Nat /\ e.to <= old
      BY <1>4, <1>5, ListedEdge, EdgeParts
    <3> QED
      BY <1>4, <1>6, <3>1
  <2>2. CASE builder.nodes = <<>>
    BY <1>5, <1>8, <2>1, <2>2
  <2>3. CASE builder.nodes # <<>>
    <3>1. PICK s \in Edges, links \in Seq(Edges) : GrewBy(builder, b, s, links)
      BY <1>9, <2>3
    <3>2. /\ s.from = old /\ s.to = n /\ AreMeshLinks(links, n)
          /\ b.edges = Append(builder.edges, s) \o links
      BY <1>6, <3>1 DEF GrewBy
    <3> DEFINE es == Append(builder.edges, s)
    <3>3. es \in Seq(Edges) /\ Range(es) = Range(builder.edges) \cup {s}
      BY <1>4, RangeOfAppend
    <3> HIDE DEF es
    <3>4. Range(es \o links) = Range(es) \cup Range(links)
      BY <3>3, RangeOfConcat
    <3>5. Range(b.edges) = Range(builder.edges) \cup {s} \cup Range(links)
      BY <3>2, <3>3, <3>4 DEF es
    <3>6. s.from >= 1 /\ s.from < s.to /\ s.to <= n /\ Gap(s) < LoopGap
      <4>1. old # 0
        BY <1>4, <2>3
      <4>2. Gap(s) = n - old
        BY <3>2, EdgeParts
      <4> QED
        BY <1>4, <1>6, <3>2, <4>1, <4>2, GapsAssumption, GraphAssumption
    <3>7. ASSUME NEW e \in Range(links)
          PROVE  e.from >= 1 /\ e.from < e.to /\ e.to <= n /\ Gap(e) < LoopGap
      <4>1. e.from \in Nat /\ e.to \in Nat /\ Gap(e) = e.to - e.from
        BY ListedEdge, EdgeParts
      <4>2. e.to = n /\ e.from >= 1 /\ Gap(e) > 1 /\ Gap(e) < LoopGap
        BY <3>2 DEF AreMeshLinks
      <4> QED
        BY <1>7, <4>1, <4>2
    <3> QED
      BY <1>5, <2>1, <3>5, <3>6, <3>7
  <2> QED
    BY <2>2, <2>3
<1>11. BuilderInv(b)
  BY <1>6, <1>10 DEF BuilderInv
<1>12. /\ l \in Closings
       /\ builder.kind = "loop" => l.cache = b.nodes
       /\ ~l.dirty => l.tree = l.cache
       /\ \E new \in Seq(Edges) :
            /\ l.edges = loops.edges \o new /\ AreLoopEdges(new, n)
            /\ builder.kind # "loop" => new = <<>>
  BY <1>3, <1>4, <1>6, <1>7, LoopsGrow
<1> HIDE DEF l
<1>13. PICK new \in Seq(Edges) : /\ l.edges = loops.edges \o new /\ AreLoopEdges(new, n)
                                 /\ builder.kind # "loop" => new = <<>>
  BY <1>12
<1>14. loops.edges \in Seq(Edges)
  BY <1>3, ClosingParts DEF LoopsInv
<1>15. LoopsInv(b, l)
  <2>1. Range(l.edges) = Range(loops.edges) \cup Range(new)
    BY <1>13, <1>14, RangeOfConcat
  <2>2. ASSUME NEW e \in Range(loops.edges)
        PROVE  e.from >= 1 /\ e.to <= n /\ Gap(e) >= LoopGap
    <3>1. e.from >= 1 /\ e.to <= old /\ Gap(e) >= LoopGap /\ e.to \in Nat
      BY <1>3, <1>14, ListedEdge, EdgeParts DEF LoopsInv
    <3> QED
      BY <1>4, <1>6, <3>1
  <2>3. ASSUME NEW e \in Range(new)
        PROVE  e.from >= 1 /\ e.to <= n /\ Gap(e) >= LoopGap
    BY <1>7, <1>13 DEF AreLoopEdges
  <2>4. \A e \in Range(l.edges) : e.from >= 1 /\ e.to <= n /\ Gap(e) >= LoopGap
    BY <2>1, <2>2, <2>3
  <2>5. b.kind # "loop" => l.edges = <<>>
    <3>1. b.kind # "loop" => loops.edges = <<>> /\ new = <<>>
      BY <1>3, <1>6, <1>13 DEF LoopsInv
    <3>2. <<>> \o <<>> = <<>>
      OBVIOUS
    <3> QED
      BY <1>13, <3>1, <3>2
  <2> QED
    BY <1>6, <1>12, <2>4, <2>5 DEF LoopsInv
<1>16. ReferenceInv(b.nodes, r)
  <2>1. ReferenceInv(b.nodes, reference)
    BY <1>3, <1>4, <1>6, <1>7, ReferenceOfLonger
  <2>2. CASE b.kind = "odom"
    BY <2>1, <2>2
  <2>3. CASE b.kind # "odom"
    <3>1. ReferenceInv(b.nodes, ReferenceUpdate(reference, n, b.nodes[n]))
      BY <1>7, <2>1, ReferenceUpdated
    <3> QED
      BY <2>3, <3>1
  <2> QED
    BY <2>2, <2>3
<1> HIDE DEF r
<1>17. /\ IsState(g) /\ g.b = b /\ g.r = r /\ g.l = l /\ g.o = optimizer
       /\ g.a = anchor /\ g.m = orch
  BY DEF IsState
<1> HIDE DEF g
<1>18. GraphInv(g)
  BY <1>11, <1>15, <1>16, <1>17 DEF GraphInv
<1>19. ASSUME builder.nodes # <<>>
       PROVE  HasAdded(g) /\ b.nodes[n].frame = builder.nodes[old].frame
  <2>1. PICK s \in Edges, links \in Seq(Edges) : GrewBy(builder, b, s, links)
    BY <1>9, <1>19
  <2>2. /\ s.from = old /\ s.to = n /\ AreMeshLinks(links, n)
        /\ b.edges = Append(builder.edges, s) \o links
        /\ b.nodes[n].frame = builder.nodes[old].frame
    BY <1>6, <2>1 DEF GrewBy
  <2> QED
    BY <1>13, <1>17, <2>2 DEF HasAdded
<1> QED
  BY <1>1, <1>6, <1>17, <1>18, <1>19

(***************************************************************************)
(* GraphOrchestrator.                                                      *)
(***************************************************************************)

Anchors == {None} \cup [utm : Int]

\* The orchestrator's members; those named by their own value may be anything.
IsOrchestrator(m) ==
    m \in [useGnss : BOOLEAN, state : {"INITIALIZING", "RUNNING"}, initialized : BOOLEAN,
           lastNode : Nat, lastLoops : Nat, rot : {m.rot}, rendered : {m.rendered}, lastTs : Nat,
           lastPos : {m.lastPos}, firstRender : {m.firstRender}, reanchored : BOOLEAN,
           samples : {m.samples}]

\* With GNSS the graph runs once it is aligned, without it from the first keyframe.
ModeInv(n, m) ==
    /\ IsOrchestrator(m)
    /\ m.useGnss => (m.state = "RUNNING" <=> m.initialized)
    /\ ~m.useGnss => m.state = "RUNNING" /\ (m.initialized <=> n # 0)
    /\ m.initialized => n # 0
    /\ ~m.initialized => m.lastLoops = 0

\* An aligned graph is in the frame of the map.
FramesInv(nodes, m) ==
    m.state = "RUNNING" => \A i \in 1..Len(nodes) : nodes[i].frame = "map"

\* The optimiser knows the nodes 1..n and has these edges as factors.
HasFactors(n, edges, o) ==
    /\ Known(o) = 1..n /\ DOMAIN o.pendingValues \cap DOMAIN o.estimate = {}
    /\ \A e \in Range(o.pendingGraph) : e.from \in 1..n /\ e.to \in 1..n
    /\ Len(o.geom) = Len(edges) /\ Range(o.geom) = Range(edges)

\* The two cursors stand at the end: everything in the graph was handed over.
OptimizerInv(n, edges, k, o, m) ==
    /\ o \in Optimizers /\ o.init = m.initialized
    /\ o.init => m.lastNode = n /\ m.lastLoops = k /\ HasFactors(n, edges, o)

\* Fixes are used in the order of their stamps.
FixesInv(o, m, fix) ==
    /\ \A i \in DOMAIN o.gnss : o.gnss[i].ts <= m.lastTs
    /\ \A i, j \in DOMAIN o.gnss : o.gnss[i].ts = o.gnss[j].ts => i = j
    /\ m.lastTs <= fix

\* What holds of the state between two frames.
StateInv(g, fix) ==
    /\ GraphInv(g) /\ g.a \in Anchors
    /\ ModeInv(Len(g.b.nodes), g.m) /\ FramesInv(g.b.nodes, g.m)
    /\ OptimizerInv(Len(g.b.nodes), AllEdges(g.b, g.l), Len(g.l.edges), g.o, g.m)
    /\ FixesInv(g.o, g.m, fix)

\* The numbers and the fix of a frame.
LEMMA DecisionParts ==
    ASSUME NEW c \in Decisions
    PROVE  /\ c.fix \in 0..Len(Fixes) /\ c.fix \in Nat /\ c.rot \in Int /\ c.shift \in Int
           /\ HasFix(c) => Fixes[c.fix].x \in Int
<1> DEFINE F == [x : Int, status : Int, sigma : Int]
<1>1. Fixes \in Seq(F)
  BY GraphAssumption
<1>2. c.fix \in 0..Len(Fixes) /\ c.rot \in Int /\ c.shift \in Int
  BY DEF Decisions
<1>3. \A f \in F : f.x \in Int
  OBVIOUS
<1> HIDE DEF F
<1>4. Len(Fixes) \in Nat
  BY <1>1
<1>5. \A i \in 1..Len(Fixes) : Fixes[i] \in F
  BY <1>1
<1>6. HasFix(c) => c.fix \in 1..Len(Fixes)
  BY <1>2, <1>4 DEF HasFix
<1> QED
  BY <1>2, <1>3, <1>4, <1>5, <1>6

\* An anchor once set stays.
LEMMA AnchorIsSet ==
    ASSUME NEW a \in Anchors, NEW c \in Decisions, HasFix(c)
    PROVE  TrySetAnchor(a, c) \in Anchors /\ (a # None => TrySetAnchor(a, c) = a)
<1>1. Fixes[c.fix].x \in Int
  BY DecisionParts
<1> QED
  BY <1>1 DEF TrySetAnchor, Anchors

\* rebase_and_rotate_nodes: every pose in the frame of the map.
LEMMA RebasedNodes ==
    ASSUME NEW nodes \in Seq(Poses), nodes # <<>>
    PROVE  /\ RebaseAndRotate(nodes) \in Seq(Poses) /\ Len(RebaseAndRotate(nodes)) = Len(nodes)
           /\ \A i \in 1..Len(nodes) : /\ RebaseAndRotate(nodes)[i] \in MapPoses
                                       /\ RebaseAndRotate(nodes)[i].frame = "map"
<1> DEFINE n == Len(nodes)
           p(i) == Pose("map", nodes[i].x - nodes[1].x)
           t == [i \in 1..n |-> p(i)]
<1>1. n \in Nat /\ n # 0 /\ DOMAIN nodes = 1..n /\ 1 \in 1..n
  OBVIOUS
<1>2. RebaseAndRotate(nodes) = t
  BY <1>1 DEF RebaseAndRotate
<1>3. ASSUME NEW i \in 1..n PROVE p(i) \in Poses /\ p(i).frame = "map"
  <2> DEFINE x == nodes[i].x - nodes[1].x
  <2>1. x \in Int
    BY <1>1, PositionsAreInts
  <2> HIDE DEF x
  <2>2. Pose("map", x) \in Poses /\ Pose("map", x).frame = "map"
    BY <2>1 DEF Pose, Poses
  <2> QED
    BY <2>2 DEF x
<1> HIDE DEF p
<1>4. t \in [1..n -> Poses] /\ \A i \in 1..n : t[i] = p(i)
  BY <1>3
<1> HIDE DEF t, n
<1>5. t \in Seq(Poses) /\ Len(t) = n
  BY <1>1, <1>4
<1> QED
  BY <1>2, <1>3, <1>4, <1>5 DEF n, MapPoses

\* A state with the same graph.
SameGraph(g, h) == IsState(h) /\ h.b = g.b /\ h.r = g.r /\ h.l = g.l

\* The graph's invariants are about the graph.
LEMMA SameGraphInv ==
    ASSUME NEW g, GraphInv(g), NEW h, SameGraph(g, h)
    PROVE  GraphInv(h)
BY DEF SameGraph, GraphInv

\* The edges of the graph join its nodes, and the loop edges are the last ones.
LEMMA EdgesAreInside ==
    ASSUME NEW g, GraphInv(g)
    PROVE  /\ AllEdges(g.b, g.l) \in Seq(Edges)
           /\ \A e \in Range(AllEdges(g.b, g.l)) :
                e.from \in 1..Len(g.b.nodes) /\ e.to \in 1..Len(g.b.nodes)
           /\ LoopEdgesOf(AllEdges(g.b, g.l)) = g.l.edges
           /\ g.b.nodes \in Seq(Poses) /\ g.b.edges \in Seq(Edges) /\ g.l.edges \in Seq(Edges)
           /\ Len(g.b.nodes) \in Nat /\ Len(g.l.edges) \in Nat
<1> DEFINE p == g.b.edges
           q == g.l.edges
           n == Len(g.b.nodes)
<1>1. g.b \in Builds /\ \A e \in Range(p) :
        e.from >= 1 /\ e.from < e.to /\ e.to <= n /\ Gap(e) < LoopGap
  BY DEF GraphInv, BuilderInv
<1>2. g.l \in Closings /\ \A e \in Range(q) : e.from >= 1 /\ e.to <= n /\ Gap(e) >= LoopGap
  BY DEF GraphInv, LoopsInv
<1>3. g.b.nodes \in Seq(Poses) /\ p \in Seq(Edges) /\ q \in Seq(Edges)
  BY <1>1, <1>2, BuilderParts, ClosingParts
<1>4. n \in Nat /\ Len(q) \in Nat
  BY <1>3
<1>5. LoopGap \in Int /\ LoopGap > 1
  BY GapsAssumption, GraphAssumption
<1> HIDE DEF p, q, n
<1>6. AllEdges(g.b, g.l) = p \o q
  BY DEF AllEdges, p, q
<1>7. p \o q \in Seq(Edges) /\ Range(p \o q) = Range(p) \cup Range(q)
  BY <1>3, RangeOfConcat
<1>8. ASSUME NEW e \in Range(p) PROVE e \in Edges /\ ~(Gap(e) >= LoopGap) /\ e.from \in 1..n /\ e.to \in 1..n
  <2>1. e \in Edges
    BY <1>3, ListedEdge
  <2>2. e.from \in Nat /\ e.to \in Nat /\ Gap(e) \in Int
    BY <2>1, EdgeParts
  <2> QED
    BY <2>1, <2>2, <1>1, <1>4, <1>5
<1>9. ASSUME NEW e \in Range(q) PROVE e \in Edges /\ Gap(e) >= LoopGap /\ e.from \in 1..n /\ e.to \in 1..n
  <2>1. e \in Edges
    BY <1>3, ListedEdge
  <2>2. e.from \in Nat /\ e.to \in Nat /\ Gap(e) = e.to - e.from
    BY <2>1, EdgeParts
  <2> QED
    BY <2>1, <2>2, <1>2, <1>4, <1>5
<1>10. LoopEdgesOf(p \o q) = q
  BY <1>3, <1>8, <1>9, LoopEdgesAreFound
<1> QED
  BY <1>3, <1>4, <1>6, <1>7, <1>8, <1>9, <1>10 DEF p, q, n

\* The optimiser of an aligned graph: every node has a value, every edge is a
\* factor.
LEMMA AlignedOptimizer ==
    ASSUME NEW n \in Nat, n # 0, NEW nodes \in Seq(Poses), Len(nodes) = n,
           \A i \in 1..n : nodes[i] \in MapPoses,
           NEW edges \in Seq(Edges),
           \A e \in Range(edges) : e.from \in 1..n /\ e.to \in 1..n
    PROVE  LET o1 == [Initialize(1, Pose("map", 0)) EXCEPT
                        !.pendingValues = Over(@, [i \in 2 .. Len(nodes) |-> nodes[i]])]
               o == FoldLeft(AddBetweenFactor, o1, edges)
           IN o \in Optimizers /\ o.init /\ o.gnss = <<>> /\ HasFactors(n, edges, o)
<1> DEFINE o0 == Initialize(1, Pose("map", 0))
           t == [i \in 2 .. n |-> nodes[i]]
           values == Over(o0.pendingValues, t)
           o1 == [o0 EXCEPT !.pendingValues = values]
           first == Edge(1, 1, 0, FALSE)
<1>1. Pose("map", 0) \in MapPoses /\ 1 \in Nat
  BY DEF Pose, MapPoses, Poses
<1>2. /\ o0 \in Optimizers /\ o0.init
      /\ o0.pendingValues = Only(1, Pose("map", 0)) /\ o0.estimate = Empty
      /\ o0.pendingGraph = <<first>> /\ o0.geom = <<>> /\ o0.gnss = <<>>
  BY <1>1, InitializeStarts
<1>3. t \in PoseMaps /\ DOMAIN t = 2..n
  <2>1. t \in [2..n -> MapPoses] /\ 2..n \in SUBSET Nat
    OBVIOUS
  <2> HIDE DEF t
  <2> QED
    BY <2>1, PoseMapMade
<1>4. o0.pendingValues \in PoseMaps /\ DOMAIN o0.pendingValues = {1}
  <2> DEFINE p == Pose("map", 0)
             f == Only(1, p)
  <2> HIDE DEF p
  <2>1. p \in MapPoses /\ 1 \in Nat
    BY <1>1 DEF p
  <2>2. f \in PoseMaps /\ DOMAIN f = {1}
    BY <2>1, OnlyMakes
  <2>3. o0.pendingValues = f
    BY <1>2 DEF p
  <2> HIDE DEF f, o0
  <2> QED
    BY <2>2, <2>3
<1> HIDE DEF t
<1>5. values \in PoseMaps /\ DOMAIN values = {1} \cup 2..n
  BY <1>3, <1>4, OverMakes
<1>6. {1} \cup 2..n = 1..n
  OBVIOUS
<1> HIDE DEF o0, values
<1>7. /\ o1 \in Optimizers /\ o1.init /\ o1.pendingValues = values /\ o1.estimate = Empty
      /\ o1.pendingGraph = <<first>> /\ o1.geom = <<>> /\ o1.gnss = <<>>
  BY <1>2, <1>5 DEF Optimizers
<1> HIDE DEF o1
<1> DEFINE o == FoldLeft(AddBetweenFactor, o1, edges)
<1>8. HasJoined(o1, o, Range(edges), Len(edges))
  BY <1>7, BetweenFactorsJoin
<1> HIDE DEF o
<1>9. first \in Edges /\ first.from = 1 /\ first.to = 1
  BY DEF Edge, Edges
<1> HIDE DEF first
<1>10. Range(<<first>>) = {first}
  BY <1>9, RangeOfOne
<1>11. DOMAIN Empty = {} /\ Range(<<>>) = {} /\ Len(<<>>) = 0
  BY EmptyIsAMap DEF Range
<1>12. o \in Optimizers /\ o.init /\ o.gnss = <<>>
  BY <1>7, <1>8 DEF HasJoined
<1>13. DOMAIN o.pendingValues = 1..n /\ DOMAIN o.estimate = {}
  BY <1>5, <1>6, <1>7, <1>8, <1>11 DEF HasJoined
<1>14. Range(o.pendingGraph) = {first} \cup Range(edges)
  BY <1>7, <1>8, <1>10 DEF HasJoined
<1>15. \A e \in Range(o.pendingGraph) : e.from \in 1..n /\ e.to \in 1..n
  BY <1>9, <1>14
<1>16. Range(o.geom) = Range(edges)
  BY <1>7, <1>8, <1>11 DEF HasJoined
<1>17. Len(o.geom) = Len(edges)
  <2>1. Len(o.geom) = 0 + Len(edges) /\ Len(edges) \in Nat
    BY <1>7, <1>8, <1>11 DEF HasJoined
  <2> QED
    BY <2>1
<1>18. HasFactors(n, edges, o)
  BY <1>13, <1>15, <1>16, <1>17 DEF HasFactors, Known
<1>19. o1 = [o0 EXCEPT !.pendingValues = Over(@, [i \in 2 .. Len(nodes) |-> nodes[i]])]
  BY DEF o1, values, t
<1> QED
  BY <1>12, <1>18, <1>19 DEF o, o0

\* What the optimiser and the orchestrator are once the graph is optimised:
\* everything in the graph was handed over.
AllHandedOver(g) ==
    /\ GraphInv(g) /\ g.a \in Anchors /\ IsOrchestrator(g.m)
    /\ g.m.state = "RUNNING" /\ g.m.initialized /\ FramesInv(g.b.nodes, g.m)
    /\ OptimizerInv(Len(g.b.nodes), AllEdges(g.b, g.l), Len(g.l.edges), g.o, g.m)

\* h is g with other poses, an anchor and another optimiser.
SameEdges(g, h) ==
    /\ h.b.kind = g.b.kind /\ h.b.lastOdom = g.b.lastOdom /\ h.b.edges = g.b.edges
    /\ Len(h.b.nodes) = Len(g.b.nodes) /\ h.l.edges = g.l.edges
    /\ h.m.useGnss = g.m.useGnss /\ h.m.lastTs = g.m.lastTs /\ h.m.reanchored = g.m.reanchored

\* Members of the orchestrator set by the alignment.
StartedUp(m, rot, n, k) ==
    [[[[[m EXCEPT !.state = "RUNNING"] EXCEPT !.initialized = TRUE]
         EXCEPT !.rot = rot] EXCEPT !.lastNode = n] EXCEPT !.lastLoops = k]

\* The graph runs, with both cursors at the end.
LEMMA AlignedOrchestrator ==
    ASSUME NEW m, IsOrchestrator(m), NEW rot, NEW n \in Nat, NEW k \in Nat
    PROVE  LET w == StartedUp(m, rot, n, k) IN
           /\ IsOrchestrator(w) /\ w.state = "RUNNING" /\ w.initialized
           /\ w.lastNode = n /\ w.lastLoops = k
           /\ w.useGnss = m.useGnss /\ w.lastTs = m.lastTs /\ w.reanchored = m.reanchored
<1>1. m \in [useGnss : BOOLEAN, state : {"INITIALIZING", "RUNNING"}, initialized : BOOLEAN,
             lastNode : Nat, lastLoops : Nat, rot : {m.rot, rot}, rendered : {m.rendered},
             lastTs : Nat, lastPos : {m.lastPos}, firstRender : {m.firstRender},
             reanchored : BOOLEAN, samples : {m.samples}]
  BY DEF IsOrchestrator
<1> DEFINE yes == TRUE
           m1 == [m EXCEPT !.state = "RUNNING"]
           m2 == [m1 EXCEPT !.initialized = yes]
           m3 == [m2 EXCEPT !.rot = rot]
           m4 == [m3 EXCEPT !.lastNode = n]
           m5 == [m4 EXCEPT !.lastLoops = k]
           S == [useGnss : BOOLEAN, state : {"INITIALIZING", "RUNNING"}, initialized : BOOLEAN,
             lastNode : Nat, lastLoops : Nat, rot : {m.rot, rot}, rendered : {m.rendered},
             lastTs : Nat, lastPos : {m.lastPos}, firstRender : {m.firstRender},
             reanchored : BOOLEAN, samples : {m.samples}]
           Same(w) == w.useGnss = m.useGnss /\ w.lastTs = m.lastTs /\ w.reanchored = m.reanchored
<1>2. yes = TRUE /\ yes \in BOOLEAN
  OBVIOUS
<1> HIDE DEF yes
<1>3. m1 \in S /\ Same(m1) /\ m1.state = "RUNNING"
  BY <1>1
<1> HIDE DEF m1
<1>4. m2 \in S /\ Same(m2) /\ m2.state = "RUNNING" /\ m2.initialized = yes
  BY <1>2, <1>3
<1> HIDE DEF m2
<1>5. m3 \in S /\ Same(m3) /\ m3.state = "RUNNING" /\ m3.initialized = yes
  BY <1>4
<1> HIDE DEF m3
<1>6. m4 \in S /\ Same(m4) /\ m4.state = "RUNNING" /\ m4.initialized = yes /\ m4.lastNode = n
  BY <1>5
<1> HIDE DEF m4
<1>7. /\ m5 \in S /\ Same(m5) /\ m5.state = "RUNNING" /\ m5.initialized = yes
      /\ m5.lastNode = n /\ m5.lastLoops = k
  BY <1>6
<1> HIDE DEF m5
<1>8. IsOrchestrator(m5)
  BY <1>7 DEF IsOrchestrator
<1> QED
  BY <1>2, <1>7, <1>8 DEF StartedUp, m1, m2, m3, m4, m5, yes

\* The alignment hands the whole graph to a fresh optimiser.
LEMMA AlignGraphAligns ==
    ASSUME NEW g, GraphInv(g), g.a \in Anchors, IsOrchestrator(g.m), g.b.nodes # <<>>, NEW rot
    PROVE  LET h == AlignGraph(g, rot) IN
           AllHandedOver(h) /\ h.a = g.a /\ SameEdges(g, h) /\ h.o.gnss = <<>>
<1> DEFINE n == Len(g.b.nodes)
           nodes == RebaseAndRotate(g.b.nodes)
           edges == AllEdges(g.b, g.l)
           found == Len(LoopEdgesOf(edges))
           o1 == [Initialize(1, Pose("map", 0)) EXCEPT
                    !.pendingValues = Over(@, [i \in 2 .. Len(nodes) |-> nodes[i]])]
           o == FoldLeft(AddBetweenFactor, o1, edges)
           g1 == ReplaceNodes(g, nodes)
           m == StartedUp(g.m, rot, Len(nodes), found)
           h == AlignGraph(g, rot)
<1>1. /\ edges \in Seq(Edges) /\ g.b.nodes \in Seq(Poses) /\ n \in Nat
      /\ \A e \in Range(edges) : e.from \in 1..n /\ e.to \in 1..n
      /\ found = Len(g.l.edges) /\ found \in Nat
  BY EdgesAreInside
<1>2. n # 0
  BY <1>1
<1>3. /\ nodes \in Seq(Poses) /\ Len(nodes) = n
      /\ \A i \in 1..n : nodes[i] \in MapPoses /\ nodes[i].frame = "map"
  BY <1>1, RebasedNodes
<1> HIDE DEF n, nodes, edges, found
<1>4. o \in Optimizers /\ o.init /\ o.gnss = <<>> /\ HasFactors(n, edges, o)
  BY <1>1, <1>2, <1>3, AlignedOptimizer
<1>5. GraphInv(g1) /\ HasNodes(g, g1, nodes)
  BY <1>3, ReplaceNodesReaches DEF n
<1>6. /\ IsOrchestrator(m) /\ m.state = "RUNNING" /\ m.initialized
      /\ m.lastNode = n /\ m.lastLoops = found
      /\ m.useGnss = g.m.useGnss /\ m.lastTs = g.m.lastTs /\ m.reanchored = g.m.reanchored
  <2> DEFINE k == Len(nodes)
  <2>1. k \in Nat /\ k = n
    BY <1>1, <1>3
  <2> HIDE DEF k
  <2>2. /\ IsOrchestrator(m) /\ m.state = "RUNNING" /\ m.initialized
        /\ m.lastNode = k /\ m.lastLoops = found
        /\ m.useGnss = g.m.useGnss /\ m.lastTs = g.m.lastTs /\ m.reanchored = g.m.reanchored
    BY <1>1, <2>1, AlignedOrchestrator DEF k
  <2> QED
    BY <2>1, <2>2
<1>7. g1.m = g.m /\ IsState(g1)
  BY <1>5 DEF HasNodes, GraphInv
<1>8. h = [[g1 EXCEPT !.o = o] EXCEPT !.m = m]
  <2> HIDE DEF o, g1
  <2>1. AlignGraph(g, rot) =
          [g1 EXCEPT !.o = o, !.m.state = "RUNNING", !.m.initialized = TRUE, !.m.rot = rot,
                     !.m.lastNode = Len(nodes), !.m.lastLoops = found]
    BY DEF AlignGraph, g1, o, nodes, edges, found
  <2> QED
    BY <2>1, <1>7 DEF IsState, StartedUp
<1> HIDE DEF o, g1, m, h
<1>9. SameGraph(g1, h) /\ h.a = g1.a /\ h.o = o /\ h.m = m
  BY <1>7, <1>8 DEF IsState, SameGraph
<1>10. GraphInv(h)
  BY <1>5, <1>9, SameGraphInv
<1>11. /\ h.b.nodes = nodes /\ h.b.edges = g.b.edges /\ h.l.edges = g.l.edges
       /\ h.b.kind = g.b.kind /\ h.b.lastOdom = g.b.lastOdom /\ h.a = g.a
  BY <1>5, <1>9 DEF SameGraph, HasNodes
<1>12. AllEdges(h.b, h.l) = edges
  BY <1>11 DEF AllEdges, edges
<1>13. OptimizerInv(n, edges, found, o, m)
  BY <1>4, <1>6 DEF OptimizerInv
<1>14. FramesInv(nodes, m)
  BY <1>3 DEF FramesInv
<1>15. AllHandedOver(h)
  BY <1>1, <1>3, <1>6, <1>9, <1>10, <1>11, <1>12, <1>13, <1>14 DEF AllHandedOver
<1> QED
  BY <1>3, <1>4, <1>6, <1>9, <1>11, <1>15 DEF SameEdges, n, h

\* h is g, but for an anchor that may have been set.
Waiting(g, h) ==
    /\ SameGraph(g, h) /\ h.o = g.o /\ h.m = g.m
    /\ h.a \in Anchors /\ (g.a # None => h.a = g.a)

\* h is g aligned with the map.
AlignedNow(g, h) ==
    /\ g.m.state = "INITIALIZING" /\ AllHandedOver(h) /\ SameEdges(g, h)
    /\ (g.a # None => h.a = g.a) /\ h.o.gnss = <<>>

\* initialize_with_gnss_if_ready: nothing but the anchor, or the alignment.
LEMMA ReadyOrWaiting ==
    ASSUME NEW g, GraphInv(g), g.a \in Anchors, IsOrchestrator(g.m), g.b.nodes # <<>>,
           NEW c \in Decisions
    PROVE  LET h == InitializeWithGnssIfReady(g, c) IN Waiting(g, h) \/ AlignedNow(g, h)
<1> DEFINE a == TrySetAnchor(g.a, c)
           g1 == [g EXCEPT !.a = a]
           h == InitializeWithGnssIfReady(g, c)
<1>1. IsState(g)
  BY DEF GraphInv
<1>2. CASE g.m.state # "INITIALIZING" \/ ~HasFix(c)
  <2>1. h = g
    BY <1>2 DEF InitializeWithGnssIfReady
  <2> HIDE DEF h
  <2>2. Waiting(g, h)
    BY <1>1, <2>1 DEF Waiting, SameGraph
  <2> QED
    BY <2>2 DEF h
<1>3. CASE g.m.state = "INITIALIZING" /\ HasFix(c)
  <2>1. a \in Anchors /\ (g.a # None => a = g.a)
    BY <1>3, AnchorIsSet
  <2> HIDE DEF a
  <2>2. SameGraph(g, g1) /\ g1.a = a /\ g1.o = g.o /\ g1.m = g.m
    BY <1>1 DEF IsState, SameGraph
  <2>3. GraphInv(g1)
    BY <2>2, SameGraphInv
  <2>4. h = g1 \/ h = AlignGraph(g1, c.rot)
    BY <1>3 DEF InitializeWithGnssIfReady, a
  <2> HIDE DEF g1, h
  <2>5. Waiting(g, g1)
    BY <2>1, <2>2 DEF Waiting
  <2>6. g1.a \in Anchors /\ IsOrchestrator(g1.m) /\ g1.b.nodes # <<>>
    BY <2>1, <2>2 DEF SameGraph
  <2> DEFINE k == AlignGraph(g1, c.rot)
  <2>7. AllHandedOver(k) /\ k.a = g1.a /\ SameEdges(g1, k) /\ k.o.gnss = <<>>
    BY <2>3, <2>6, AlignGraphAligns
  <2> HIDE DEF k
  <2>8. SameEdges(g, k)
    BY <2>2, <2>7 DEF SameEdges, SameGraph
  <2>9. AlignedNow(g, k)
    BY <1>3, <2>1, <2>2, <2>7, <2>8 DEF AlignedNow
  <2> QED
    BY <2>4, <2>5, <2>9 DEF k, h
<1> QED
  BY <1>2, <1>3

\* Edges within the known nodes that join the optimiser are factors of it.
LEMMA FactorsAreAdded ==
    ASSUME NEW n, NEW edges, NEW o, HasFactors(n, edges, o), NEW p, NEW E, NEW k \in Nat,
           HasJoined(o, p, E, k), \A e \in E : e.from \in 1..n /\ e.to \in 1..n,
           NEW more, Len(more) = Len(edges) + k, Range(more) = Range(edges) \cup E
    PROVE  HasFactors(n, more, p)
<1>1. Known(p) = 1..n /\ DOMAIN p.pendingValues \cap DOMAIN p.estimate = {}
  BY DEF HasFactors, HasJoined, Known
<1>2. \A e \in Range(p.pendingGraph) : e.from \in 1..n /\ e.to \in 1..n
  BY DEF HasFactors, HasJoined
<1>3. Len(p.geom) = Len(more) /\ Range(p.geom) = Range(more)
  BY DEF HasFactors, HasJoined
<1> QED
  BY <1>1, <1>2, <1>3 DEF HasFactors

\* The initial estimate makes a new node known.
LEMMA NodeIsAdded ==
    ASSUME NEW n \in Nat, n # 0, NEW o \in Optimizers, o.init, NEW edges,
           HasFactors(n - 1, edges, o), NEW guess \in MapPoses
    PROVE  LET q == AddInitialEstimate(o, n, guess) IN
           q \in Optimizers /\ q.init /\ q.gnss = o.gnss /\ HasFactors(n, edges, q)
<1> DEFINE q == AddInitialEstimate(o, n, guess)
           k == n - 1
<1>1. k \in Nat /\ n \notin 1..k /\ 1..n = 1..k \cup {n} /\ 1..k \subseteq 1..n
  OBVIOUS
<1> HIDE DEF k
<1>2. /\ Known(o) = 1..k /\ DOMAIN o.pendingValues \cap DOMAIN o.estimate = {}
      /\ \A e \in Range(o.pendingGraph) : e.from \in 1..k /\ e.to \in 1..k
      /\ Len(o.geom) = Len(edges) /\ Range(o.geom) = Range(edges)
  BY DEF HasFactors, k
<1>3. n \notin DOMAIN o.pendingValues /\ n \notin DOMAIN o.estimate
  BY <1>1, <1>2 DEF Known
<1>4. /\ q \in Optimizers /\ q.init = o.init /\ q.geom = o.geom /\ q.gnss = o.gnss
      /\ q.pendingGraph = o.pendingGraph /\ q.estimate = o.estimate
      /\ DOMAIN q.pendingValues = DOMAIN o.pendingValues \cup {n}
  BY <1>3, InitialEstimateAdds
<1> HIDE DEF q
<1>5. Known(q) = 1..n /\ DOMAIN q.pendingValues \cap DOMAIN q.estimate = {}
  BY <1>1, <1>2, <1>3, <1>4 DEF Known
<1>6. HasFactors(n, edges, q)
  BY <1>1, <1>2, <1>4, <1>5 DEF HasFactors
<1> QED
  BY <1>4, <1>6 DEF q

\* A running graph with one keyframe that was not handed over yet: its edges s,
\* links and new come after p and after q.
Extending(g, p, q, s, links, new) ==
    /\ GraphInv(g) /\ g.a \in Anchors /\ IsOrchestrator(g.m)
    /\ g.m.state = "RUNNING" /\ g.m.initialized /\ FramesInv(g.b.nodes, g.m)
    /\ g.b.edges = Append(p, s) \o links /\ g.l.edges = q \o new
    /\ \A e \in Range(p) : e.to # Len(g.b.nodes)
    /\ s.to = Len(g.b.nodes) /\ s.from = Len(g.b.nodes) - 1
    /\ AreMeshLinks(links, Len(g.b.nodes)) /\ AreLoopEdges(new, Len(g.b.nodes))
    /\ g.m.lastNode = Len(g.b.nodes) - 1 /\ g.m.lastLoops = Len(q)
    /\ g.o \in Optimizers /\ g.o.init /\ HasFactors(Len(g.b.nodes) - 1, p \o q, g.o)

\* h is g with other factors and cursors.
SameButCursors(g, h) ==
    /\ SameGraph(g, h) /\ h.a = g.a /\ IsOrchestrator(h.m)
    /\ h.m.state = g.m.state /\ h.m.initialized = g.m.initialized
    /\ h.m.useGnss = g.m.useGnss /\ h.m.lastTs = g.m.lastTs /\ h.m.reanchored = g.m.reanchored
    /\ h.o \in Optimizers /\ h.o.init /\ h.o.gnss = g.o.gnss

\* Two sets and an element between them.
Together(E, e, F) == (E \cup {e}) \cup F

\* They are those of the graph and the new ones.
LEMMA LongerHas ==
    ASSUME NEW p \in Seq(Edges), NEW q \in Seq(Edges), NEW s \in Edges, NEW links \in Seq(Edges)
    PROVE  LET u == Longer(p, s, links, q) IN
           /\ u \in Seq(Edges) /\ p \o q \in Seq(Edges)
           /\ Len(u) = Len(p \o q) + 1 + Len(links)
           /\ Range(u) = Together(Range(p \o q), s, Range(links))
           /\ Len(p \o q) \in Nat /\ Len(links) \in Nat
<1> DEFINE a == Append(p, s)
           al == a \o links
           pq == p \o q
           u == al \o q
<1>0. \A x, y \in Seq(Edges) :
        /\ x \o y \in Seq(Edges) /\ Len(x \o y) = Len(x) + Len(y)
        /\ Range(x \o y) = Range(x) \cup Range(y)
  BY RangeOfConcat
<1>1. a \in Seq(Edges) /\ Range(a) = Range(p) \cup {s} /\ Len(a) = Len(p) + 1
  <2>1. a \in Seq(Edges)
    OBVIOUS
  <2> QED
    BY <2>1, RangeOfAppend
<1> HIDE DEF a
<1>2. al \in Seq(Edges) /\ Len(al) = Len(a) + Len(links) /\ Range(al) = Range(a) \cup Range(links)
  BY <1>0, <1>1
<1>3. pq \in Seq(Edges) /\ Len(pq) = Len(p) + Len(q) /\ Range(pq) = Range(p) \cup Range(q)
  BY <1>0
<1> HIDE DEF al, pq
<1>4. u \in Seq(Edges) /\ Len(u) = Len(al) + Len(q) /\ Range(u) = Range(al) \cup Range(q)
  BY <1>0, <1>2
<1> HIDE DEF u
<1>5. Len(p) \in Nat /\ Len(q) \in Nat /\ Len(links) \in Nat /\ Len(pq) \in Nat
  BY <1>3
<1>6. Len(u) = Len(pq) + 1 + Len(links)
  BY <1>1, <1>2, <1>3, <1>4, <1>5
<1>7. Range(u) = (Range(pq) \cup {s}) \cup Range(links)
  BY <1>1, <1>2, <1>3, <1>4
<1> QED
  BY <1>3, <1>4, <1>5, <1>6, <1>7 DEF Longer, Together, a, al, pq, u

\* A list with more at its end.
IsLongerBy(v, u, new) == Len(v) = Len(u) + Len(new) /\ Range(v) = Range(u) \cup Range(new)

\* New loop edges come at the end.
LEMMA LongerByLoops ==
    ASSUME NEW p \in Seq(Edges), NEW q \in Seq(Edges), NEW s \in Edges,
           NEW links \in Seq(Edges), NEW new \in Seq(Edges)
    PROVE  LET u == Longer(p, s, links, q)
               v == Longer(p, s, links, q \o new)
           IN u \in Seq(Edges) /\ IsLongerBy(v, u, new)
<1> DEFINE al == Append(p, s) \o links
           qn == q \o new
           u == al \o q
           v == al \o qn
<1>0. \A x, y \in Seq(Edges) :
        /\ x \o y \in Seq(Edges) /\ Len(x \o y) = Len(x) + Len(y)
        /\ Range(x \o y) = Range(x) \cup Range(y)
  BY RangeOfConcat
<1>1. al \in Seq(Edges)
  OBVIOUS
<1>2. qn \in Seq(Edges) /\ Len(qn) = Len(q) + Len(new) /\ Range(qn) = Range(q) \cup Range(new)
  BY <1>0
<1> HIDE DEF al, qn
<1>3. u \in Seq(Edges) /\ Len(u) = Len(al) + Len(q) /\ Range(u) = Range(al) \cup Range(q)
  BY <1>0, <1>1
<1>4. v \in Seq(Edges) /\ Len(v) = Len(al) + Len(qn) /\ Range(v) = Range(al) \cup Range(qn)
  BY <1>0, <1>1, <1>2
<1> HIDE DEF u, v
<1>5. Len(q) \in Nat /\ Len(new) \in Nat /\ Len(al) \in Nat
  BY <1>1
<1> QED
  BY <1>2, <1>3, <1>4, <1>5 DEF Longer, IsLongerBy, al, qn, u, v

\* Mesh links and loop edges of a new node join known nodes.
LEMMA NewEdgesAreInside ==
    ASSUME NEW n \in Nat, NEW list \in Seq(Edges),
           AreMeshLinks(list, n) \/ AreLoopEdges(list, n)
    PROVE  \A e \in Range(list) : e.from \in 1..n /\ e.to \in 1..n
<1> SUFFICES ASSUME NEW e \in Range(list) PROVE e.from \in 1..n /\ e.to \in 1..n
  OBVIOUS
<1>1. e.from \in Nat /\ e.to \in Nat /\ Gap(e) = e.to - e.from
  BY ListedEdge, EdgeParts
<1>2. e.to = n /\ e.from >= 1 /\ Gap(e) > 1
  BY <1>1, GapsAssumption, GraphAssumption DEF AreMeshLinks, AreLoopEdges
<1> QED
  BY <1>1, <1>2

\* The optimiser's share of add_latest_seq_edge.
Handed(o, n, guess, s, links) ==
    FoldLeft(AddBetweenFactor, AddBetweenFactor(AddInitialEstimate(o, n, guess), s), Reverse(links))

\* n is the node after those the optimiser has.
NextNode(n, p, q, s, links, o) ==
    /\ s.to = n /\ s.from = n - 1 /\ s.from \in 1..n
    /\ AreMeshLinks(links, n) /\ o.init /\ HasFactors(n - 1, p \o q, o)

\* The new node and its edges are known to it.
LEMMA LatestJoins ==
    ASSUME NEW n \in Nat, NEW p \in Seq(Edges), NEW q \in Seq(Edges), NEW s \in Edges,
           NEW links \in Seq(Edges), NEW o \in Optimizers, NEW guess \in MapPoses,
           NextNode(n, p, q, s, links, o)
    PROVE  LET o2 == Handed(o, n, guess, s, links) IN
           /\ o2 \in Optimizers /\ o2.init /\ o2.gnss = o.gnss
           /\ HasFactors(n, Longer(p, s, links, q), o2)
<1> DEFINE pq == p \o q
           pqs == Append(pq, s)
           u == Longer(p, s, links, q)
           o0 == AddInitialEstimate(o, n, guess)
           o1 == AddBetweenFactor(o0, s)
           back == Reverse(links)
           o2 == FoldLeft(AddBetweenFactor, o1, back)
<1>0. /\ s.to = n /\ s.from = n - 1 /\ s.from \in 1..n
      /\ AreMeshLinks(links, n) /\ o.init /\ HasFactors(n - 1, p \o q, o)
  BY DEF NextNode
<1>1. /\ pq \in Seq(Edges) /\ Len(u) = Len(pq) + 1 + Len(links) /\ Len(pq) \in Nat
      /\ Range(u) = (Range(pq) \cup {s}) \cup Range(links) /\ Len(links) \in Nat
  <2>1. /\ pq \in Seq(Edges) /\ Len(u) = Len(pq) + 1 + Len(links) /\ Len(pq) \in Nat
        /\ Range(u) = Together(Range(pq), s, Range(links)) /\ Len(links) \in Nat
    BY LongerHas
  <2> QED
    BY <2>1 DEF Together
<1>2. back \in Seq(Edges) /\ Len(back) = Len(links) /\ Range(back) = Range(links)
  BY RangeOfReverse
<1> HIDE DEF pq, u, back
<1>3. n # 0
  BY <1>0
<1>4. o0 \in Optimizers /\ o0.init /\ o0.gnss = o.gnss /\ HasFactors(n, pq, o0)
  BY <1>0, <1>3, NodeIsAdded DEF pq
<1> HIDE DEF o0
<1>5. HasJoined(o0, o1, {s}, 1)
  BY <1>4, BetweenFactorJoins
<1> HIDE DEF o1
<1>6. o1 \in Optimizers /\ o1.init /\ o1.gnss = o.gnss
  BY <1>4, <1>5 DEF HasJoined
<1>7. HasJoined(o1, o2, Range(back), Len(back))
  BY <1>2, <1>6, BetweenFactorsJoin
<1> HIDE DEF o2
<1>8. Len(pqs) = Len(pq) + 1 /\ Range(pqs) = Range(pq) \cup {s}
  BY <1>1, RangeOfAppend
<1> HIDE DEF pqs
<1>9. \A e \in {s} : e.from \in 1..n /\ e.to \in 1..n
  BY <1>0
<1>10. HasFactors(n, pqs, o1)
  BY <1>4, <1>5, <1>8, <1>9, FactorsAreAdded
<1>11. \A e \in Range(back) : e.from \in 1..n /\ e.to \in 1..n
  BY <1>0, <1>2, NewEdgesAreInside
<1>12. Len(u) = Len(pqs) + Len(back) /\ Range(u) = Range(pqs) \cup Range(back) /\ Len(back) \in Nat
  BY <1>1, <1>2, <1>8
<1>13. HasFactors(n, u, o2)
  BY <1>7, <1>10, <1>11, <1>12, FactorsAreAdded
<1>14. o2 \in Optimizers /\ o2.init /\ o2.gnss = o.gnss
  BY <1>6, <1>7 DEF HasJoined
<1> QED
  BY <1>13, <1>14 DEF Handed, o2, o1, o0, back, u

\* The optimiser's share of add_new_loop_edges.
LEMMA LoopsJoin ==
    ASSUME NEW n \in Nat, NEW u \in Seq(Edges), NEW v, NEW new \in Seq(Edges),
           Len(v) = Len(u) + Len(new), Range(v) = Range(u) \cup Range(new),
           AreLoopEdges(new, n), NEW o \in Optimizers, o.init, HasFactors(n, u, o)
    PROVE  LET o2 == FoldLeft(AddBetweenFactor, o, new) IN
           o2 \in Optimizers /\ o2.init /\ o2.gnss = o.gnss /\ HasFactors(n, v, o2)
<1> DEFINE o2 == FoldLeft(AddBetweenFactor, o, new)
<1>1. HasJoined(o, o2, Range(new), Len(new))
  BY BetweenFactorsJoin
<1> HIDE DEF o2
<1>2. \A e \in Range(new) : e.from \in 1..n /\ e.to \in 1..n
  BY NewEdgesAreInside
<1>3. Len(new) \in Nat
  OBVIOUS
<1>4. HasFactors(n, v, o2)
  BY <1>1, <1>2, <1>3, FactorsAreAdded
<1>5. o2 \in Optimizers /\ o2.init /\ o2.gnss = o.gnss
  BY <1>1 DEF HasJoined
<1> QED
  BY <1>4, <1>5 DEF o2

\* The cursor over the nodes moves.
NodeHanded(g, o, n) == [g EXCEPT !.o = o, !.m.lastNode = n]

\* Nothing else does.
LEMMA NodeCursorMoves ==
    ASSUME NEW g, IsState(g), IsOrchestrator(g.m), NEW n \in Nat,
           NEW o \in Optimizers, o.init, o.gnss = g.o.gnss
    PROVE  LET h == NodeHanded(g, o, n) IN
           /\ SameButCursors(g, h) /\ h.o = o /\ h.m.lastNode = n /\ h.m.lastLoops = g.m.lastLoops
<1> DEFINE m == [g.m EXCEPT !.lastNode = n]
           h == NodeHanded(g, o, n)
<1>1. /\ IsOrchestrator(m) /\ m.lastNode = n /\ m.lastLoops = g.m.lastLoops
      /\ m.state = g.m.state /\ m.initialized = g.m.initialized
      /\ m.useGnss = g.m.useGnss /\ m.lastTs = g.m.lastTs /\ m.reanchored = g.m.reanchored
  BY DEF IsOrchestrator
<1>2. h = [[g EXCEPT !.o = o] EXCEPT !.m = m]
  BY DEF IsState, NodeHanded
<1> HIDE DEF m, h
<1>3. SameGraph(g, h) /\ h.a = g.a /\ h.o = o /\ h.m = m
  BY <1>2 DEF IsState, SameGraph
<1> QED
  BY <1>1, <1>3 DEF SameButCursors, h

\* The cursor over the loop edges moves.
LoopsHanded(g, o, k) == [g EXCEPT !.o = o, !.m.lastLoops = k]

\* Nothing else does.
LEMMA LoopCursorMoves ==
    ASSUME NEW g, IsState(g), IsOrchestrator(g.m), NEW k \in Nat,
           NEW o \in Optimizers, o.init, o.gnss = g.o.gnss
    PROVE  LET h == LoopsHanded(g, o, k) IN
           /\ SameButCursors(g, h) /\ h.o = o /\ h.m.lastLoops = k /\ h.m.lastNode = g.m.lastNode
<1> DEFINE m == [g.m EXCEPT !.lastLoops = k]
           h == LoopsHanded(g, o, k)
<1>1. /\ IsOrchestrator(m) /\ m.lastLoops = k /\ m.lastNode = g.m.lastNode
      /\ m.state = g.m.state /\ m.initialized = g.m.initialized
      /\ m.useGnss = g.m.useGnss /\ m.lastTs = g.m.lastTs /\ m.reanchored = g.m.reanchored
  BY DEF IsOrchestrator
<1>2. h = [[g EXCEPT !.o = o] EXCEPT !.m = m]
  BY DEF IsState, LoopsHanded
<1> HIDE DEF m, h
<1>3. SameGraph(g, h) /\ h.a = g.a /\ h.o = o /\ h.m = m
  BY <1>2 DEF IsState, SameGraph
<1> QED
  BY <1>1, <1>3 DEF SameButCursors, h

\* A pose of the map for a new node.
LEMMA GuessIsAPose ==
    ASSUME NEW o \in Optimizers, NEW e \in Edges, NEW p \in MapPoses
    PROVE  (IF e.from \in DOMAIN o.estimate THEN Shift(o.estimate[e.from], e.dx) ELSE p) \in MapPoses
<1>1. CASE e.from \in DOMAIN o.estimate
  <2> DEFINE f == o.estimate
             d == e.dx
             x == f[e.from]
  <2>1. f \in PoseMaps /\ d \in Int
    BY DEF Optimizers, Edges
  <2> HIDE DEF f, d
  <2>2. x \in MapPoses
    BY <1>1, <2>1, PoseMapParts DEF f
  <2> HIDE DEF x
  <2>3. Shift(x, d) \in MapPoses
    <3>1. x \in Poses /\ x.frame = "map"
      BY <2>2 DEF MapPoses
    <3> QED
      BY <2>1, <3>1, ShiftKeepsFrame DEF MapPoses
  <2> QED
    BY <1>1, <2>3 DEF x, f, d
<1> QED
  BY <1>1

\* add_latest_seq_edge: the new node, its sequential edge and its mesh links.
LEMMA LatestIsHandedOver ==
    ASSUME NEW g, NEW p \in Seq(Edges), NEW q \in Seq(Edges), NEW s \in Edges,
           NEW links \in Seq(Edges), NEW new \in Seq(Edges), Extending(g, p, q, s, links, new)
    PROVE  LET h == AddLatestSeqEdge(g) IN
           /\ SameButCursors(g, h) /\ h.m.lastNode = Len(g.b.nodes) /\ h.m.lastLoops = Len(q)
           /\ HasFactors(Len(g.b.nodes), Longer(p, s, links, q), h.o)
<1> DEFINE n == Len(g.b.nodes)
           qn == q \o new
           edges == AllEdges(g.b, g.l)
           nth == g.b.nodes[n]
           guess == IF s.from \in DOMAIN g.o.estimate
                    THEN Shift(g.o.estimate[s.from], s.dx) ELSE nth
           o2 == Handed(g.o, n, guess, s, links)
           h == NodeHanded(g, o2, n)
<1>1. /\ g.b.nodes \in Seq(Poses) /\ n \in Nat /\ edges \in Seq(Edges)
      /\ \A e \in Range(edges) : e.from \in 1..n /\ e.to \in 1..n
  BY EdgesAreInside DEF Extending
<1>2. edges = Longer(p, s, links, qn)
  BY DEF Extending, AllEdges, Longer
<1>3. qn \in Seq(Edges) /\ Range(qn) = Range(q) \cup Range(new)
  BY RangeOfConcat
<1>4. \A e \in Range(qn) : Gap(e) >= LoopGap
  <2>1. qn = g.l.edges
    BY DEF Extending
  <2> QED
    BY <2>1 DEF Extending, GraphInv, LoopsInv
<1>5. /\ s.to = n /\ s.from = n - 1 /\ AreMeshLinks(links, n) /\ g.m.lastNode = n - 1
      /\ \A e \in Range(p) : e.to # n
      /\ g.o \in Optimizers /\ g.o.init /\ HasFactors(n - 1, p \o q, g.o)
      /\ IsState(g) /\ IsOrchestrator(g.m) /\ g.m.lastLoops = Len(q)
  BY DEF Extending, GraphInv
<1>6. s \in Range(edges)
  <2> HIDE DEF qn
  <2>1. Range(Longer(p, s, links, qn)) = Together(Range(p \o qn), s, Range(links))
    <3>1. /\ p \in Seq(Edges) /\ s \in Edges /\ links \in Seq(Edges) /\ qn \in Seq(Edges)
      BY <1>3
    <3> QED
      BY ONLY <3>1, LongerHas
  <2> HIDE DEF edges
  <2> QED
    BY <1>2, <2>1 DEF Together
<1>7. s.from \in 1..n
  BY <1>1, <1>6
<1>8. nth \in MapPoses
  <2>1. n \in 1..n
    BY <1>1, <1>5, <1>7
  <2>2. nth \in Poses
    BY <1>1, <2>1
  <2>3. nth.frame = "map"
    BY <2>1 DEF Extending, FramesInv
  <2> QED
    BY <2>2, <2>3 DEF MapPoses
<1> HIDE DEF nth
<1>9. guess \in MapPoses
  BY <1>5, <1>8, GuessIsAPose
<1>10. Gap(s) = 1
  BY <1>1, <1>5 DEF Gap
<1>11. \A e \in Range(links) : e.to = n /\ Gap(e) > 1 /\ Gap(e) < LoopGap
  BY <1>5 DEF AreMeshLinks
<1> HIDE DEF n, qn, guess
<1>o. NewestEdges(n, p, s, links, qn)
  BY <1>4, <1>5, <1>10, <1>11 DEF NewestEdges
<1>12. /\ Selected(edges, SequentialTo(edges, n)) = <<s>>
       /\ Selected(edges, MeshTo(edges, n)) = links
  <2>2. /\ n \in Nat /\ p \in Seq(Edges) /\ s \in Edges /\ links \in Seq(Edges)
        /\ qn \in Seq(Edges) /\ NewestEdges(n, p, s, links, qn)
    BY <1>1, <1>3, <1>o
  <2> DEFINE u == Longer(p, s, links, qn)
  <2>1. /\ Selected(u, SequentialTo(u, n)) = <<s>>
        /\ Selected(u, MeshTo(u, n)) = links
    BY ONLY <2>2, NewEdgesAreFound
  <2> QED
    BY <1>2, <2>1
<1>13. o2 \in Optimizers /\ o2.init /\ o2.gnss = g.o.gnss
       /\ HasFactors(n, Longer(p, s, links, q), o2)
  <2> DEFINE o == g.o
  <2>1. o \in Optimizers /\ o.init /\ HasFactors(n - 1, p \o q, o)
    BY <1>5
  <2>3. NextNode(n, p, q, s, links, o)
    BY <1>5, <1>7, <2>1 DEF NextNode
  <2> DEFINE r == Handed(o, n, guess, s, links)
  <2> HIDE DEF o
  <2>2. r \in Optimizers /\ r.init /\ r.gnss = o.gnss /\ HasFactors(n, Longer(p, s, links, q), r)
    BY <1>1, <1>9, <2>1, <2>3, LatestJoins
  <2> QED
    BY <2>2 DEF o
<1>14. ~(n <= g.m.lastNode) /\ <<s>> # <<>> /\ Last1(<<s>>) = s
  BY <1>1, <1>5 DEF Last1
<1>15. AddLatestSeqEdge(g) = h
  BY <1>12, <1>14 DEF AddLatestSeqEdge, SequentialTo, MeshTo, Handed, NodeHanded, n, edges, guess, nth
<1> HIDE DEF o2
<1>16. /\ SameButCursors(g, h) /\ h.o = o2 /\ h.m.lastNode = n
       /\ h.m.lastLoops = g.m.lastLoops
  BY <1>1, <1>5, <1>13, NodeCursorMoves
<1> QED
  BY <1>5, <1>13, <1>15, <1>16 DEF n

\* The list behind another one.
BehindIs(s, t) == SubSeq(s \o t, Len(s) + 1, Len(s \o t)) = t

\* It is the rest of the two.
LEMMA RestOfList ==
    ASSUME NEW E, NEW s \in Seq(E), NEW t \in Seq(E)
    PROVE  BehindIs(s, t)
BY DEF BehindIs

\* Nothing behind a list.
LEMMA NothingBehind ==
    ASSUME NEW E, NEW s \in Seq(E), NEW t \in Seq(E), Len(s \o t) <= Len(s)
    PROVE  t = <<>>
OBVIOUS

\* add_new_loop_edges: the loop edges behind the cursor.
LEMMA LoopsAreHandedOver ==
    ASSUME NEW g, GraphInv(g), IsOrchestrator(g.m), g.o \in Optimizers, g.o.init,
           NEW q \in Seq(Edges), NEW new \in Seq(Edges), g.l.edges = q \o new,
           g.m.lastLoops = Len(q), AreLoopEdges(new, Len(g.b.nodes)),
           NEW u \in Seq(Edges), HasFactors(Len(g.b.nodes), u, g.o),
           Len(AllEdges(g.b, g.l)) = Len(u) + Len(new),
           Range(AllEdges(g.b, g.l)) = Range(u) \cup Range(new)
    PROVE  LET h == AddNewLoopEdges(g) IN
           /\ SameButCursors(g, h) /\ h.m.lastNode = g.m.lastNode
           /\ h.m.lastLoops = Len(g.l.edges)
           /\ HasFactors(Len(g.b.nodes), AllEdges(g.b, g.l), h.o)
<1> DEFINE n == Len(g.b.nodes)
           edges == AllEdges(g.b, g.l)
           all == LoopEdgesOf(edges)
           qn == q \o new
           o2 == FoldLeft(AddBetweenFactor, g.o, new)
           h == AddNewLoopEdges(g)
<1>1. n \in Nat /\ all = qn /\ IsState(g) /\ edges \in Seq(Edges)
  <2>1. all = g.l.edges /\ n \in Nat /\ edges \in Seq(Edges)
    BY EdgesAreInside
  <2> QED
    BY <2>1 DEF GraphInv
<1>2. Len(q) \in Nat /\ Len(qn) \in Nat /\ Len(new) \in Nat /\ BehindIs(q, new)
  <2>1. BehindIs(q, new)
    BY RestOfList
  <2> QED
    BY <2>1
<1>3. CASE Len(qn) <= Len(q)
  <2>1. new = <<>>
    BY <1>3, NothingBehind
  <2>2. Range(new) = {} /\ Len(new) = 0
    BY <2>1 DEF Range
  <2>3. Len(edges) = Len(u) /\ Range(edges) = Range(u)
    <3>1. Len(edges) = Len(u) + 0 /\ Len(u) \in Nat
      BY <2>2
    <3> QED
      BY <2>2, <3>1
  <2> HIDE DEF edges, n
  <2>4. HasFactors(n, edges, g.o)
    <3>1. HasFactors(n, u, g.o)
      BY DEF n
    <3> QED
      BY <2>3, <3>1 DEF HasFactors
  <2>5. h = g
    BY <1>1, <1>3 DEF AddNewLoopEdges, edges
  <2>6. Len(qn) = Len(q)
    BY <2>1
  <2> HIDE DEF h
  <2>7. SameButCursors(g, g)
    BY <1>1 DEF SameButCursors, SameGraph
  <2> QED
    BY <2>4, <2>5, <2>6, <2>7 DEF h, n, edges
<1>4. CASE ~(Len(qn) <= Len(q))
  <2>1. o2 \in Optimizers /\ o2.init /\ o2.gnss = g.o.gnss /\ HasFactors(n, edges, o2)
    <3> DEFINE o == g.o
    <3>1. o \in Optimizers /\ o.init /\ HasFactors(n, u, o)
      OBVIOUS
    <3> HIDE DEF o, n, edges
    <3>2. /\ AreLoopEdges(new, n) /\ Len(edges) = Len(u) + Len(new)
          /\ Range(edges) = Range(u) \cup Range(new)
      BY DEF n, edges
    <3>3. LET w == FoldLeft(AddBetweenFactor, o, new) IN
            w \in Optimizers /\ w.init /\ w.gnss = o.gnss /\ HasFactors(n, edges, w)
      BY <1>1, <3>1, <3>2, LoopsJoin
    <3> QED
      BY <3>3 DEF o
  <2>2. h = LoopsHanded(g, o2, Len(qn))
    BY <1>1, <1>2, <1>4 DEF AddNewLoopEdges, LoopsHanded, edges, BehindIs
  <2> HIDE DEF o2, h, n, edges
  <2> DEFINE w == LoopsHanded(g, o2, Len(qn))
  <2>3. /\ SameButCursors(g, w) /\ w.o = o2 /\ w.m.lastLoops = Len(qn)
        /\ w.m.lastNode = g.m.lastNode
    BY <1>1, <1>2, <2>1, LoopCursorMoves
  <2> HIDE DEF w
  <2> QED
    BY <2>1, <2>2, <2>3 DEF w, h, n, edges
<1> QED
  BY <1>3, <1>4

\* What process_frame does with a keyframe of a running graph before it looks
\* at the fix.
HandOver(g) == AddNewLoopEdges(AddLatestSeqEdge(InitializeOptimizerIfNeeded(g)))

\* The whole graph was handed over, and nothing else changed.
Delivered(g, h) ==
    /\ AllHandedOver(h) /\ SameGraph(g, h) /\ h.a = g.a
    /\ h.m.useGnss = g.m.useGnss /\ h.m.lastTs = g.m.lastTs /\ h.m.reanchored = g.m.reanchored
    /\ h.o.gnss = g.o.gnss \/ h.o.gnss = <<>>

\* What makes a state one that was handed over.
LEMMA HandedOverFrom ==
    ASSUME NEW g, GraphInv(g), g.a \in Anchors, g.m.state = "RUNNING", FramesInv(g.b.nodes, g.m),
           NEW h, SameButCursors(g, h), h.m.initialized,
           h.m.lastNode = Len(g.b.nodes), h.m.lastLoops = Len(g.l.edges),
           HasFactors(Len(g.b.nodes), AllEdges(g.b, g.l), h.o)
    PROVE  Delivered(g, h)
<1>1. /\ SameGraph(g, h) /\ h.a = g.a /\ IsOrchestrator(h.m) /\ h.m.state = "RUNNING"
      /\ h.o \in Optimizers /\ h.o.init /\ h.o.gnss = g.o.gnss
      /\ h.m.useGnss = g.m.useGnss /\ h.m.lastTs = g.m.lastTs /\ h.m.reanchored = g.m.reanchored
  BY DEF SameButCursors
<1>2. h.b = g.b /\ h.l = g.l
  BY <1>1 DEF SameGraph
<1>3. GraphInv(h)
  BY <1>1, SameGraphInv
<1>4. OptimizerInv(Len(h.b.nodes), AllEdges(h.b, h.l), Len(h.l.edges), h.o, h.m)
  <2>1. HasFactors(Len(h.b.nodes), AllEdges(h.b, h.l), h.o)
    BY <1>2
  <2>2. h.m.lastNode = Len(h.b.nodes) /\ h.m.lastLoops = Len(h.l.edges)
    BY <1>2
  <2>3. h.o.init = h.m.initialized
    <3>1. h.o.init \in BOOLEAN /\ h.m.initialized \in BOOLEAN
      BY <1>1 DEF Optimizers, IsOrchestrator
    <3> QED
      BY <1>1, <3>1
  <2> QED
    BY <1>1, <2>1, <2>2, <2>3 DEF OptimizerInv
<1>5. FramesInv(h.b.nodes, h.m)
  BY <1>1, <1>2 DEF FramesInv
<1> QED
  BY <1>1, <1>2, <1>3, <1>4, <1>5 DEF Delivered, AllHandedOver

\* One step after another.
LEMMA SameButCursorsTwice ==
    ASSUME NEW f, NEW g, NEW h, SameButCursors(f, g), SameButCursors(g, h)
    PROVE  SameButCursors(f, h)
BY DEF SameButCursors, SameGraph

\* A graph that ran before: the new keyframe and its edges are handed over.
LEMMA ExtendingIsDelivered ==
    ASSUME NEW g, NEW p \in Seq(Edges), NEW q \in Seq(Edges), NEW s \in Edges,
           NEW links \in Seq(Edges), NEW new \in Seq(Edges), Extending(g, p, q, s, links, new)
    PROVE  Delivered(g, HandOver(g))
<1> DEFINE n == Len(g.b.nodes)
           g1 == AddLatestSeqEdge(g)
           g2 == AddNewLoopEdges(g1)
           u == Longer(p, s, links, q)
           edges == AllEdges(g.b, g.l)
<1>1. /\ GraphInv(g) /\ g.a \in Anchors /\ g.m.state = "RUNNING" /\ FramesInv(g.b.nodes, g.m)
      /\ g.m.initialized /\ g.l.edges = q \o new /\ AreLoopEdges(new, n)
  BY DEF Extending
<1>2. HandOver(g) = g2
  BY <1>1 DEF HandOver, InitializeOptimizerIfNeeded
<1>3. /\ SameButCursors(g, g1) /\ g1.m.lastNode = n /\ g1.m.lastLoops = Len(q)
      /\ HasFactors(n, u, g1.o)
  BY LatestIsHandedOver
<1>4. edges = Longer(p, s, links, q \o new)
  BY DEF Extending, AllEdges, Longer
<1>5. u \in Seq(Edges) /\ Len(edges) = Len(u) + Len(new) /\ Range(edges) = Range(u) \cup Range(new)
  <2> DEFINE v == Longer(p, s, links, q \o new)
  <2>1. u \in Seq(Edges) /\ IsLongerBy(v, u, new)
    BY LongerByLoops
  <2>2. edges = v
    BY <1>4
  <2> HIDE DEF u, v, edges
  <2> QED
    BY <2>1, <2>2 DEF IsLongerBy
<1> HIDE DEF g1, u
<1>6. /\ g1.b = g.b /\ g1.l = g.l /\ IsOrchestrator(g1.m) /\ g1.o \in Optimizers /\ g1.o.init
      /\ SameGraph(g, g1)
  BY <1>3 DEF SameButCursors, SameGraph
<1>7. GraphInv(g1)
  BY <1>1, <1>6, SameGraphInv
<1>8. /\ SameButCursors(g1, g2) /\ g2.m.lastNode = g1.m.lastNode
      /\ g2.m.lastLoops = Len(g1.l.edges)
      /\ HasFactors(Len(g1.b.nodes), AllEdges(g1.b, g1.l), g2.o)
  BY <1>1, <1>3, <1>5, <1>6, <1>7, LoopsAreHandedOver
<1> HIDE DEF g2
<1>9. SameButCursors(g, g2)
  BY <1>3, <1>8, SameButCursorsTwice
<1>10. g2.m.initialized
  BY <1>1, <1>9 DEF SameButCursors
<1>11. /\ g2.m.lastNode = Len(g.b.nodes) /\ g2.m.lastLoops = Len(g.l.edges)
       /\ HasFactors(Len(g.b.nodes), AllEdges(g.b, g.l), g2.o)
  BY <1>3, <1>6, <1>8
<1>12. Delivered(g, g2)
  BY <1>1, <1>9, <1>10, <1>11, HandedOverFrom
<1> QED
  BY <1>2, <1>12

\* A graph aligned in this frame: nothing is left to hand over.
LEMMA AlignedIsDelivered ==
    ASSUME NEW g, AllHandedOver(g)
    PROVE  Delivered(g, HandOver(g))
<1> DEFINE n == Len(g.b.nodes)
           edges == AllEdges(g.b, g.l)
<1>1. /\ GraphInv(g) /\ g.m.initialized
      /\ OptimizerInv(n, edges, Len(g.l.edges), g.o, g.m) /\ IsState(g)
  BY DEF AllHandedOver, GraphInv
<1>2. g.m.lastNode = n /\ g.m.lastLoops = Len(g.l.edges)
  BY <1>1 DEF OptimizerInv
<1>3. LoopEdgesOf(edges) = g.l.edges /\ n \in Nat /\ Len(g.l.edges) \in Nat
  BY <1>1, EdgesAreInside
<1>4. n <= g.m.lastNode /\ Len(LoopEdgesOf(edges)) <= g.m.lastLoops
  BY <1>2, <1>3
<1>5. InitializeOptimizerIfNeeded(g) = g
  BY <1>1 DEF InitializeOptimizerIfNeeded
<1>6. AddLatestSeqEdge(g) = g
  BY <1>4 DEF AddLatestSeqEdge
<1>7. AddNewLoopEdges(g) = g
  BY <1>4 DEF AddNewLoopEdges
<1>8. HandOver(g) = g
  BY <1>5, <1>6, <1>7 DEF HandOver
<1>9. Delivered(g, g)
  BY <1>1 DEF Delivered, SameGraph
<1> QED
  BY <1>8, <1>9

\* The optimiser started with the first node.
LEMMA FirstOptimizer ==
    ASSUME NEW p \in MapPoses
    PROVE  LET o == Update(Initialize(1, p), [from |-> 1, by |-> 0]) IN
           o \in Optimizers /\ o.init /\ o.gnss = <<>> /\ HasFactors(1, <<>>, o)
<1> DEFINE o0 == Initialize(1, p)
           bend == [from |-> 1, by |-> 0]
           o == Update(o0, bend)
           first == Edge(1, 1, 0, FALSE)
           f == Only(1, p)
<1>1. f \in PoseMaps /\ DOMAIN f = {1}
  BY OnlyMakes
<1> HIDE DEF f
<1>2. /\ o0 \in Optimizers /\ o0.init /\ o0.pendingValues = f /\ o0.estimate = Empty
      /\ o0.pendingGraph = <<first>> /\ o0.geom = <<>> /\ o0.gnss = <<>>
  BY InitializeStarts DEF f
<1>3. bend \in [from : Int, by : Int]
  OBVIOUS
<1> HIDE DEF o0, bend
<1>4. Continues(o0, o)
  BY <1>2, <1>3, UpdateContinues
<1> HIDE DEF o
<1>5. first \in Edges /\ first.from = 1 /\ first.to = 1
  BY DEF Edge, Edges
<1> HIDE DEF first
<1>6. Range(<<first>>) = {first}
  BY <1>5, RangeOfOne
<1>7. DOMAIN Empty = {}
  BY EmptyIsAMap
<1>8. o \in Optimizers /\ o.init /\ o.gnss = <<>> /\ o.geom = <<>>
  BY <1>2, <1>4 DEF Continues
<1>9. Known(o0) = {1} /\ DOMAIN o0.pendingValues \cap DOMAIN o0.estimate = {}
  BY <1>1, <1>2, <1>7 DEF Known
<1>10. 1..1 = {1} /\ 1 \in 1..1
  OBVIOUS
<1>11. Known(o) = 1..1 /\ DOMAIN o.pendingValues \cap DOMAIN o.estimate = {}
  BY <1>4, <1>9, <1>10 DEF Continues
<1>12. \A e \in Range(o.pendingGraph) : e.from \in 1..1 /\ e.to \in 1..1
  <2>1. Range(o.pendingGraph) \subseteq {first}
    BY <1>2, <1>4, <1>6 DEF Continues
  <2> QED
    BY <1>5, <1>10, <2>1
<1>13. HasFactors(1, <<>>, o)
  BY <1>8, <1>11, <1>12 DEF HasFactors
<1> QED
  BY <1>8, <1>13 DEF o, o0, bend

\* An orchestrator that starts without GNSS.
WithOptimizer(g, o, n) == [g EXCEPT !.o = o, !.m.initialized = TRUE, !.m.lastNode = n]

\* It has the cursor over the nodes at its first one.
LEMMA OptimizerStarts ==
    ASSUME NEW g, IsState(g), IsOrchestrator(g.m), NEW n \in Nat, NEW o
    PROVE  LET h == WithOptimizer(g, o, n) IN
           /\ SameGraph(g, h) /\ h.a = g.a /\ h.o = o /\ IsOrchestrator(h.m)
           /\ h.m.initialized /\ h.m.lastNode = n /\ h.m.lastLoops = g.m.lastLoops
           /\ h.m.state = g.m.state /\ h.m.useGnss = g.m.useGnss /\ h.m.lastTs = g.m.lastTs
           /\ h.m.reanchored = g.m.reanchored
<1> DEFINE yes == TRUE
           m1 == [g.m EXCEPT !.initialized = yes]
           m == [m1 EXCEPT !.lastNode = n]
           h == WithOptimizer(g, o, n)
<1>1. yes \in BOOLEAN /\ yes
  OBVIOUS
<1>2. h = [[g EXCEPT !.o = o] EXCEPT !.m = m]
  BY DEF IsState, WithOptimizer
<1> HIDE DEF yes, h
<1>3. /\ IsOrchestrator(m1) /\ m1.initialized = yes /\ m1.lastLoops = g.m.lastLoops
      /\ m1.state = g.m.state /\ m1.useGnss = g.m.useGnss /\ m1.lastTs = g.m.lastTs
      /\ m1.reanchored = g.m.reanchored
  BY <1>1 DEF IsOrchestrator
<1> HIDE DEF m1
<1>4. /\ IsOrchestrator(m) /\ m.initialized = yes /\ m.lastLoops = g.m.lastLoops
      /\ m.lastNode = n
      /\ m.state = g.m.state /\ m.useGnss = g.m.useGnss /\ m.lastTs = g.m.lastTs
      /\ m.reanchored = g.m.reanchored
  BY <1>3 DEF IsOrchestrator
<1> HIDE DEF m
<1>5. SameGraph(g, h) /\ h.a = g.a /\ h.o = o /\ h.m = m
  BY <1>2 DEF IsState, SameGraph
<1> QED
  BY <1>1, <1>4, <1>5 DEF h

\* The first keyframe without GNSS: the optimiser starts with it.
LEMMA FirstIsDelivered ==
    ASSUME NEW g, GraphInv(g), g.a \in Anchors, IsOrchestrator(g.m), g.m.state = "RUNNING",
           ~g.m.initialized, g.m.lastLoops = 0, FramesInv(g.b.nodes, g.m), Len(g.b.nodes) = 1
    PROVE  Delivered(g, HandOver(g))
<1> DEFINE n == Len(g.b.nodes)
           edges == AllEdges(g.b, g.l)
           p == g.b.nodes[1]
           o == Update(Initialize(1, p), [from |-> 1, by |-> 0])
           h == WithOptimizer(g, o, 1)
<1>1. /\ edges \in Seq(Edges) /\ LoopEdgesOf(edges) = g.l.edges /\ g.l.edges \in Seq(Edges)
      /\ g.b.nodes \in Seq(Poses)
  BY EdgesAreInside
<1>2. p \in MapPoses
  <2>1. p \in Poses
    BY <1>1
  <2>2. p.frame = "map"
    BY DEF FramesInv
  <2> QED
    BY <2>1, <2>2 DEF MapPoses
<1>3. edges = <<>> /\ g.l.edges = <<>>
  <2>1. g.b.edges \in Seq(Edges) /\ g.l.edges \in Seq(Edges)
    BY EdgesAreInside
  <2>2. Range(g.b.edges) = {}
    <3>1. \A e \in Range(g.b.edges) : e.from >= 1 /\ e.from < e.to /\ e.to <= 1
      BY DEF GraphInv, BuilderInv
    <3>2. \A e \in Range(g.b.edges) : e.from \in Nat /\ e.to \in Nat
      BY <2>1, ListedEdge, EdgeParts
    <3> QED
      BY <3>1, <3>2
  <2>3. Range(g.l.edges) = {}
    <3>1. \A e \in Range(g.l.edges) : e.from >= 1 /\ e.to <= 1 /\ Gap(e) >= LoopGap
      BY DEF GraphInv, LoopsInv
    <3>2. \A e \in Range(g.l.edges) : e.from \in Nat /\ e.to \in Nat /\ Gap(e) = e.to - e.from
      BY <2>1, ListedEdge, EdgeParts
    <3>3. LoopGap \in Int /\ LoopGap > 1
      BY GapsAssumption, GraphAssumption
    <3> QED
      BY <3>1, <3>2, <3>3
  <2>4. \A s \in Seq(Edges) : Range(s) = {} => s = <<>>
    <3> SUFFICES ASSUME NEW s \in Seq(Edges), Range(s) = {} PROVE s = <<>>
      OBVIOUS
    <3>1. DOMAIN s = {}
      BY DEF Range
    <3>2. Len(s) = 0
      BY <3>1
    <3> QED
      BY <3>2
  <2>5. g.b.edges = <<>> /\ g.l.edges = <<>>
    BY <2>1, <2>2, <2>3, <2>4
  <2> QED
    BY <2>5 DEF AllEdges
<1>4. o \in Optimizers /\ o.init /\ o.gnss = <<>> /\ HasFactors(1, <<>>, o)
  BY <1>2, FirstOptimizer
<1>5. InitializeOptimizerIfNeeded(g) = h
  BY DEF InitializeOptimizerIfNeeded, WithOptimizer
<1>6. IsState(g)
  BY DEF GraphInv
<1> HIDE DEF o
<1>7. /\ SameGraph(g, h) /\ h.a = g.a /\ h.o = o /\ IsOrchestrator(h.m)
      /\ h.m.initialized /\ h.m.lastNode = 1 /\ h.m.lastLoops = g.m.lastLoops
      /\ h.m.state = g.m.state /\ h.m.useGnss = g.m.useGnss /\ h.m.lastTs = g.m.lastTs
      /\ h.m.reanchored = g.m.reanchored
  BY <1>6, OptimizerStarts
<1> HIDE DEF h
<1>8. h.b = g.b /\ h.l = g.l
  BY <1>7 DEF SameGraph
<1>9. Range(<<>>) = {} /\ Len(<<>>) = 0
  BY DEF Range
<1>10. Selected(edges, {e \in Range(edges) : Gap(e) = 1 /\ e.to = Len(h.b.nodes)}) = <<>>
  <2> DEFINE none == {e \in Range(edges) : Gap(e) = 1 /\ e.to = Len(h.b.nodes)}
  <2>1. \A e \in Range(edges) : e \notin none
    BY <1>3, <1>9
  <2> HIDE DEF none
  <2>2. Selected(edges, none) = <<>>
    BY <1>1, <2>1, SelectedNone
  <2> QED
    BY <2>2 DEF none
<1>11. AddLatestSeqEdge(h) = h
  BY <1>8, <1>10 DEF AddLatestSeqEdge
<1>12. AddNewLoopEdges(h) = h
  BY <1>1, <1>3, <1>7, <1>8, <1>9 DEF AddNewLoopEdges
<1>13. HandOver(g) = h
  BY <1>5, <1>11, <1>12 DEF HandOver
<1>14. GraphInv(h)
  BY <1>7, SameGraphInv
<1>15. OptimizerInv(1, edges, 0, o, h.m)
  <2>1. o.init = h.m.initialized
    <3>1. o.init \in BOOLEAN /\ h.m.initialized \in BOOLEAN
      BY <1>4, <1>7 DEF Optimizers, IsOrchestrator
    <3> QED
      BY <1>4, <1>7, <3>1
  <2> QED
    BY <1>3, <1>4, <1>7, <2>1 DEF OptimizerInv
<1>16. AllHandedOver(h)
  <2>1. AllEdges(h.b, h.l) = edges /\ Len(h.l.edges) = 0 /\ Len(h.b.nodes) = 1
    BY <1>3, <1>8, <1>9
  <2>2. FramesInv(h.b.nodes, h.m)
    BY <1>7, <1>8 DEF FramesInv
  <2> QED
    BY <1>7, <1>14, <1>15, <2>1, <2>2 DEF AllHandedOver
<1>17. Delivered(g, h)
  BY <1>4, <1>7, <1>16 DEF Delivered
<1> QED
  BY <1>13, <1>17

\* h is g with another anchor, and what re-anchoring remembers.
Moved(g, h) ==
    /\ SameGraph(g, h) /\ h.o = g.o /\ IsOrchestrator(h.m)
    /\ h.a \in Anchors /\ (g.a # None => h.a # None)
    /\ h.m.state = g.m.state /\ h.m.initialized = g.m.initialized
    /\ h.m.lastNode = g.m.lastNode /\ h.m.lastLoops = g.m.lastLoops
    /\ h.m.useGnss = g.m.useGnss /\ h.m.lastTs = g.m.lastTs

\* A state after a sample was collected, and after the anchor moved.
Collected(g, s) == [g EXCEPT !.m.samples = s]
AnchorMoved(g, d) == [g EXCEPT !.a.utm = @ + d, !.m.lastPos = None, !.m.reanchored = TRUE]

\* Collecting a sample changes only the samples.
LEMMA CollectedMoves ==
    ASSUME NEW g, IsState(g), IsOrchestrator(g.m), g.a \in Anchors, NEW s
    PROVE  Moved(g, Collected(g, s)) /\ Collected(g, s).a = g.a
<1> DEFINE m == [g.m EXCEPT !.samples = s]
           h == Collected(g, s)
<1>1. g.m \in [useGnss : BOOLEAN, state : {"INITIALIZING", "RUNNING"}, initialized : BOOLEAN,
               lastNode : Nat, lastLoops : Nat, rot : {g.m.rot}, rendered : {g.m.rendered},
               lastTs : Nat, lastPos : {g.m.lastPos}, firstRender : {g.m.firstRender},
               reanchored : BOOLEAN, samples : {g.m.samples, s}]
  BY DEF IsOrchestrator
<1>2. /\ IsOrchestrator(m) /\ m.state = g.m.state /\ m.initialized = g.m.initialized
      /\ m.lastNode = g.m.lastNode /\ m.lastLoops = g.m.lastLoops
      /\ m.useGnss = g.m.useGnss /\ m.lastTs = g.m.lastTs
  BY <1>1 DEF IsOrchestrator
<1>3. h = [g EXCEPT !.m = m]
  BY DEF IsState, Collected
<1> HIDE DEF m, h
<1>4. SameGraph(g, h) /\ h.a = g.a /\ h.o = g.o /\ h.m = m
  BY <1>3 DEF IsState, SameGraph
<1> QED
  BY <1>2, <1>4 DEF Moved, h

\* Moving the anchor changes only what re-anchoring remembers.
LEMMA AnchorMoves ==
    ASSUME NEW g, IsState(g), IsOrchestrator(g.m), g.a \in Anchors, g.a # None, NEW d \in Int
    PROVE  Moved(g, AnchorMoved(g, d))
<1> DEFINE yes == TRUE
           a == [g.a EXCEPT !.utm = @ + d]
           m1 == [g.m EXCEPT !.lastPos = None]
           m == [m1 EXCEPT !.reanchored = yes]
           h == AnchorMoved(g, d)
           S == [useGnss : BOOLEAN, state : {"INITIALIZING", "RUNNING"}, initialized : BOOLEAN,
                 lastNode : Nat, lastLoops : Nat, rot : {g.m.rot}, rendered : {g.m.rendered},
                 lastTs : Nat, lastPos : {g.m.lastPos, None}, firstRender : {g.m.firstRender},
                 reanchored : BOOLEAN, samples : {g.m.samples}]
           Same(w) == /\ w.state = g.m.state /\ w.initialized = g.m.initialized
                      /\ w.lastNode = g.m.lastNode /\ w.lastLoops = g.m.lastLoops
                      /\ w.useGnss = g.m.useGnss /\ w.lastTs = g.m.lastTs
<1>1. yes \in BOOLEAN
  OBVIOUS
<1>2. h = [[g EXCEPT !.a = a] EXCEPT !.m = m]
  BY DEF IsState, AnchorMoved
<1>3. a \in [utm : Int]
  BY DEF Anchors
<1>4. \A w \in [utm : Int] : w # None
  BY DEF None
<1> HIDE DEF yes, h, a
<1>5. g.m \in S
  BY DEF IsOrchestrator
<1>6. m1 \in S /\ Same(m1)
  BY <1>5
<1> HIDE DEF m1
<1>7. m \in S /\ Same(m)
  BY <1>1, <1>6
<1> HIDE DEF m
<1>8. IsOrchestrator(m)
  BY <1>7 DEF IsOrchestrator
<1>9. SameGraph(g, h) /\ h.o = g.o /\ h.a = a /\ h.m = m
  BY <1>2 DEF IsState, SameGraph
<1>10. a \in Anchors /\ a # None
  BY <1>3, <1>4 DEF Anchors
<1> QED
  BY <1>7, <1>8, <1>9, <1>10 DEF Moved, h

\* One after the other.
LEMMA MovedTwice ==
    ASSUME NEW f, NEW g, NEW h, Moved(f, g), Moved(g, h)
    PROVE  Moved(f, h)
BY DEF Moved, SameGraph

\* try_dynamic_reanchor: the graph and the optimiser stay.
LEMMA ReanchorMoves ==
    ASSUME NEW g, IsState(g), IsOrchestrator(g.m), g.a \in Anchors, NEW x, NEW c \in Decisions
    PROVE  Moved(g, TryDynamicReanchor(g, x, c))
<1> DEFINE s == CollectSample(g.m.samples, x)
           g1 == Collected(g, s)
           g2 == AnchorMoved(g1, c.shift)
           h == TryDynamicReanchor(g, x, c)
<1>1. c.shift \in Int
  BY DecisionParts
<1>2. h = g \/ (g.a # None /\ (h = g1 \/ h = g2))
  BY DEF TryDynamicReanchor, Collected, AnchorMoved
<1> HIDE DEF s, h
<1>3. Moved(g, g1) /\ g1.a = g.a
  BY CollectedMoves
<1> HIDE DEF g1
<1>4. ASSUME g.a # None PROVE Moved(g1, g2)
  <2>1. IsState(g1) /\ IsOrchestrator(g1.m) /\ g1.a \in Anchors /\ g1.a # None
    BY <1>3, <1>4 DEF Moved, SameGraph
  <2> QED
    BY <1>1, <2>1, AnchorMoves
<1> HIDE DEF g2
<1>5. g.a # None => Moved(g, g2)
  BY <1>3, <1>4, MovedTwice
<1>6. Moved(g, g)
  BY DEF Moved, SameGraph
<1> QED
  BY <1>2, <1>3, <1>5, <1>6 DEF h

\* An optimised graph stays one when the anchor moves.
LEMMA MovedIsHandedOver ==
    ASSUME NEW g, AllHandedOver(g), NEW h, Moved(g, h)
    PROVE  AllHandedOver(h)
<1>1. GraphInv(h)
  BY SameGraphInv DEF AllHandedOver, Moved
<1>2. h.b = g.b /\ h.l = g.l /\ h.o = g.o
  BY DEF Moved, SameGraph
<1>3. FramesInv(h.b.nodes, h.m)
  BY <1>2 DEF AllHandedOver, FramesInv, Moved
<1>4. OptimizerInv(Len(h.b.nodes), AllEdges(h.b, h.l), Len(h.l.edges), h.o, h.m)
  <2>1. OptimizerInv(Len(h.b.nodes), AllEdges(h.b, h.l), Len(h.l.edges), h.o, g.m)
    BY <1>2 DEF AllHandedOver
  <2> QED
    BY <2>1 DEF OptimizerInv, Moved
<1> QED
  BY <1>1, <1>3, <1>4 DEF AllHandedOver, Moved

\* A state after a fix was added as a prior on the newest node.
PriorAdded(g, x, ts) ==
    [g EXCEPT !.o = AddGnssFactor(@, Len(g.b.nodes), x, ts), !.m.lastTs = ts,
              !.m.lastPos = [x |-> x]]

\* h is g with a prior at most.
Constrained(g, h) ==
    /\ AllHandedOver(h) /\ SameGraph(g, h) /\ h.a = g.a
    /\ h.m.useGnss = g.m.useGnss /\ h.m.reanchored = g.m.reanchored

\* The orchestrator remembers the fix it used.
FixUsed(m, ts, p) == [[m EXCEPT !.lastTs = ts] EXCEPT !.lastPos = p]

\* It remembers nothing else.
LEMMA FixIsRemembered ==
    ASSUME NEW m, IsOrchestrator(m), NEW ts \in Nat, NEW p
    PROVE  LET w == FixUsed(m, ts, p) IN
           /\ IsOrchestrator(w) /\ w.lastTs = ts
           /\ w.state = m.state /\ w.initialized = m.initialized
           /\ w.lastNode = m.lastNode /\ w.lastLoops = m.lastLoops
           /\ w.useGnss = m.useGnss /\ w.reanchored = m.reanchored
<1> DEFINE S == [useGnss : BOOLEAN, state : {"INITIALIZING", "RUNNING"}, initialized : BOOLEAN,
                 lastNode : Nat, lastLoops : Nat, rot : {m.rot}, rendered : {m.rendered},
                 lastTs : Nat, lastPos : {m.lastPos, p}, firstRender : {m.firstRender},
                 reanchored : BOOLEAN, samples : {m.samples}]
           m1 == [m EXCEPT !.lastTs = ts]
           w == [m1 EXCEPT !.lastPos = p]
           Same(v) == /\ v.state = m.state /\ v.initialized = m.initialized
                      /\ v.lastNode = m.lastNode /\ v.lastLoops = m.lastLoops
                      /\ v.useGnss = m.useGnss /\ v.reanchored = m.reanchored
<1>1. m \in S
  BY DEF IsOrchestrator
<1>2. m1 \in S /\ Same(m1) /\ m1.lastTs = ts
  BY <1>1
<1> HIDE DEF m1
<1>3. w \in S /\ Same(w) /\ w.lastTs = ts
  BY <1>2
<1> HIDE DEF w
<1>4. IsOrchestrator(w)
  BY <1>3 DEF IsOrchestrator
<1> QED
  BY <1>3, <1>4 DEF FixUsed, w, m1

\* A prior on a known node, from a fix newer than those used, is one factor
\* more and keeps the edges.
LEMMA PriorJoins ==
    ASSUME NEW n \in Nat, n # 0, NEW edges, NEW o \in Optimizers, o.init, HasFactors(n, edges, o),
           NEW x \in Int, NEW ts \in Nat
    PROVE  LET q == AddGnssFactor(o, n, x, ts) IN
           /\ q \in Optimizers /\ q.init /\ HasFactors(n, edges, q)
           /\ q.gnss = Append(o.gnss, [node |-> n, x |-> x, ts |-> ts])
<1> DEFINE q == AddGnssFactor(o, n, x, ts)
           e == Edge(n, n, 0, FALSE)
           old == o.pendingGraph
<1>1. /\ q \in Optimizers /\ q.init = o.init /\ q.geom = o.geom
      /\ q.pendingValues = o.pendingValues /\ q.estimate = o.estimate
      /\ q.gnss = Append(o.gnss, [node |-> n, x |-> x, ts |-> ts])
      /\ q.pendingGraph = Append(old, e)
  BY GnssFactorAdds
<1>2. e \in Edges /\ e.from = n /\ e.to = n
  BY DEF Edge, Edges
<1>3. old \in Seq(Edges)
  BY DEF Optimizers
<1> HIDE DEF q, e, old
<1>4. Range(Append(old, e)) = Range(old) \cup {e}
  BY <1>2, <1>3, RangeOfAppend
<1>5. n \in 1..n
  OBVIOUS
<1>6. \A f \in Range(q.pendingGraph) : f.from \in 1..n /\ f.to \in 1..n
  <2>1. \A f \in Range(old) : f.from \in 1..n /\ f.to \in 1..n
    BY DEF HasFactors, old
  <2>2. Range(q.pendingGraph) = Range(old) \cup {e}
    BY <1>1, <1>4
  <2> QED
    BY <1>2, <1>5, <2>1, <2>2
<1>7. HasFactors(n, edges, q)
  BY <1>1, <1>6 DEF HasFactors, Known
<1> QED
  BY <1>1, <1>7 DEF q

\* The fixes used, one more of them.
LEMMA FixIsNew ==
    ASSUME NEW o \in Optimizers, NEW m, NEW old, NEW q, NEW n, NEW x, NEW ts \in Nat, NEW w,
           FixesInv(o, m, old), m.lastTs \in Nat, m.lastTs < ts, w.lastTs = ts,
           q.gnss = Append(o.gnss, [node |-> n, x |-> x, ts |-> ts])
    PROVE  FixesInv(q, w, ts)
<1> DEFINE s == o.gnss
           e == [node |-> n, x |-> x, ts |-> ts]
           t == Append(s, e)
<1>1. s \in Seq(Priors) /\ \A i \in DOMAIN s : s[i].ts <= m.lastTs
  BY DEF Optimizers, FixesInv
<1>2. \A i, j \in DOMAIN s : s[i].ts = s[j].ts => i = j
  BY DEF FixesInv
<1>3. e.ts = ts
  OBVIOUS
<1> HIDE DEF s, e
<1>4. /\ DOMAIN t = DOMAIN s \cup {Len(s) + 1} /\ t[Len(s) + 1] = e
      /\ \A i \in DOMAIN s : t[i] = s[i]
  BY <1>1
<1>5. \A i \in DOMAIN s : s[i].ts \in Nat
  <2> SUFFICES ASSUME NEW i \in DOMAIN s PROVE s[i].ts \in Nat
    OBVIOUS
  <2>1. s[i] \in Priors
    BY <1>1
  <2> QED
    BY <2>1 DEF Priors
<1> HIDE DEF t
<1>6. \A i \in DOMAIN s : t[i].ts < ts /\ t[i].ts # ts
  <2> SUFFICES ASSUME NEW i \in DOMAIN s PROVE s[i].ts < ts /\ s[i].ts # ts
    BY <1>4
  <2>1. s[i].ts \in Nat /\ s[i].ts <= m.lastTs
    BY <1>1, <1>5
  <2> QED
    BY <2>1
<1>7. t[Len(s) + 1].ts = ts
  BY <1>3, <1>4
<1>8. \A i \in DOMAIN t : t[i].ts <= ts
  <2> SUFFICES ASSUME NEW i \in DOMAIN t PROVE t[i].ts <= ts
    OBVIOUS
  <2>1. CASE i \in DOMAIN s
    <3>1. t[i].ts = s[i].ts /\ s[i].ts \in Nat /\ t[i].ts < ts
      BY <1>4, <1>5, <1>6, <2>1
    <3> QED
      BY <3>1
  <2>2. CASE i = Len(s) + 1
    BY <1>7, <2>2
  <2> QED
    BY <1>4, <2>1, <2>2
<1>9. \A i, j \in DOMAIN t : t[i].ts = t[j].ts => i = j
  <2> SUFFICES ASSUME NEW i \in DOMAIN t, NEW j \in DOMAIN t, t[i].ts = t[j].ts PROVE i = j
    OBVIOUS
  <2>1. CASE i \in DOMAIN s /\ j \in DOMAIN s
    BY <1>2, <1>4, <2>1
  <2>2. CASE i \in DOMAIN s /\ j = Len(s) + 1
    BY <1>6, <1>7, <2>2
  <2>3. CASE i = Len(s) + 1 /\ j \in DOMAIN s
    BY <1>6, <1>7, <2>3
  <2>4. CASE i = Len(s) + 1 /\ j = Len(s) + 1
    BY <2>4
  <2> QED
    BY <1>4, <2>1, <2>2, <2>3, <2>4
<1>10. q.gnss = t
  BY DEF t, s, e
<1>11. w.lastTs <= ts
  OBVIOUS
<1>12. \A i \in DOMAIN q.gnss : q.gnss[i].ts <= w.lastTs
  BY <1>8, <1>10
<1>13. \A i, j \in DOMAIN q.gnss : q.gnss[i].ts = q.gnss[j].ts => i = j
  BY <1>9, <1>10
<1> QED
  BY <1>11, <1>12, <1>13 DEF FixesInv

\* add_gnss_prior: a fix enters the optimisation once.
LEMMA PriorIsAdded ==
    ASSUME NEW g, AllHandedOver(g), g.b.nodes # <<>>, NEW c \in Decisions, NEW old \in Nat, FixesInv(g.o, g.m, old),
           HasFix(c) => old <= c.fix, NEW x
    PROVE  LET h == AddGnssPrior(g, x, c) IN
           Constrained(g, h) /\ FixesInv(h.o, h.m, IF HasFix(c) THEN c.fix ELSE old)
<1> DEFINE n == Len(g.b.nodes)
           edges == AllEdges(g.b, g.l)
           gx == ToLocal(g.a, c)
           o == AddGnssFactor(g.o, n, gx, c.fix)
           m == FixUsed(g.m, c.fix, [x |-> gx])
           more == PriorAdded(g, gx, c.fix)
           h == AddGnssPrior(g, x, c)
           latest == IF HasFix(c) THEN c.fix ELSE old
<1>1. /\ GraphInv(g) /\ IsState(g) /\ g.a \in Anchors /\ IsOrchestrator(g.m)
      /\ g.m.state = "RUNNING" /\ g.m.initialized /\ FramesInv(g.b.nodes, g.m)
      /\ OptimizerInv(n, edges, Len(g.l.edges), g.o, g.m)
  BY DEF AllHandedOver, GraphInv
<1>2. c.fix \in Nat /\ (HasFix(c) => Fixes[c.fix].x \in Int)
  BY DecisionParts
<1>3. g.m.lastTs \in Nat /\ g.m.lastTs <= old
  BY <1>1 DEF IsOrchestrator, FixesInv
<1>4. latest \in Nat /\ old <= latest /\ g.m.lastTs <= latest
  BY <1>2, <1>3
<1>5. CASE h = g
  <2>1. FixesInv(g.o, g.m, latest)
    BY <1>4 DEF FixesInv
  <2>2. Constrained(g, g)
    BY <1>1 DEF Constrained, SameGraph
  <2> HIDE DEF h
  <2> QED
    BY <1>5, <2>1, <2>2 DEF h
<1>6. CASE HasFix(c) /\ g.a # None /\ c.fix # g.m.lastTs /\ h = more
  <2>1. gx \in Int
    <3>1. g.a.utm \in Int
      BY <1>1, <1>6 DEF Anchors
    <3> QED
      BY <1>2, <1>6, <3>1 DEF ToLocal
  <2>2. g.m.lastTs < c.fix /\ latest = c.fix
    BY <1>2, <1>3, <1>6
  <2>3. /\ g.o \in Optimizers /\ g.o.init /\ HasFactors(n, edges, g.o)
        /\ g.m.lastNode = n /\ g.m.lastLoops = Len(g.l.edges)
    BY <1>1 DEF OptimizerInv
  <2>4. n \in Nat
    BY <1>1, EdgesAreInside
  <2>5. n # 0
    <3>1. g.b.nodes \in Seq(Poses)
      BY <1>1, EdgesAreInside
    <3> QED
      BY <3>1
  <2>6. /\ IsOrchestrator(m) /\ m.lastTs = c.fix
        /\ m.state = g.m.state /\ m.initialized = g.m.initialized
        /\ m.lastNode = g.m.lastNode /\ m.lastLoops = g.m.lastLoops
        /\ m.useGnss = g.m.useGnss /\ m.reanchored = g.m.reanchored
    <3> DEFINE om == g.m
               ts == c.fix
               p == [x |-> gx]
               w == FixUsed(om, ts, p)
    <3>1. IsOrchestrator(om) /\ ts \in Nat
      BY <1>1, <1>2
    <3> HIDE DEF om, ts, p
    <3>2. /\ IsOrchestrator(w) /\ w.lastTs = ts
          /\ w.state = om.state /\ w.initialized = om.initialized
          /\ w.lastNode = om.lastNode /\ w.lastLoops = om.lastLoops
          /\ w.useGnss = om.useGnss /\ w.reanchored = om.reanchored
      BY <3>1, FixIsRemembered
    <3> QED
      BY <3>2 DEF om, ts, p
  <2>7. more = [[g EXCEPT !.o = o] EXCEPT !.m = m]
    BY <1>1 DEF IsState, PriorAdded, FixUsed
  <2> DEFINE q == AddGnssFactor(g.o, n, gx, c.fix)
  <2>8. /\ q \in Optimizers /\ q.init /\ HasFactors(n, edges, q)
        /\ q.gnss = Append(g.o.gnss, [node |-> n, x |-> gx, ts |-> c.fix])
    <3> DEFINE p == g.o
    <3>1. p \in Optimizers /\ p.init /\ HasFactors(n, edges, p)
      BY <2>3
    <3> DEFINE r == AddGnssFactor(p, n, gx, c.fix)
    <3> HIDE DEF p, n, edges, gx
    <3>2. /\ r \in Optimizers /\ r.init /\ HasFactors(n, edges, r)
          /\ r.gnss = Append(p.gnss, [node |-> n, x |-> gx, ts |-> c.fix])
      BY <1>2, <2>1, <2>4, <2>5, <3>1, PriorJoins
    <3> QED
      BY <3>2 DEF p
  <2> HIDE DEF q, m, gx
  <2>9. FixesInv(q, m, c.fix)
    <3> DEFINE ts == c.fix
               om == g.m
               p == g.o
    <3>1. /\ p \in Optimizers /\ FixesInv(p, om, old) /\ om.lastTs \in Nat /\ om.lastTs < ts
          /\ ts \in Nat /\ m.lastTs = ts
          /\ q.gnss = Append(p.gnss, [node |-> n, x |-> gx, ts |-> ts])
      BY <1>2, <1>3, <2>2, <2>3, <2>6, <2>8
    <3> HIDE DEF ts, om, p, n
    <3>2. FixesInv(q, m, ts)
      BY <3>1, FixIsNew
    <3> QED
      BY <3>2 DEF ts
  <2> HIDE DEF more
  <2>10. SameGraph(g, more) /\ more.a = g.a /\ more.o = q /\ more.m = m
    BY <1>1, <2>7 DEF IsState, SameGraph, q
  <2>11. GraphInv(more)
    BY <1>1, <2>10, SameGraphInv
  <2>12. more.b = g.b /\ more.l = g.l
    BY <2>10 DEF SameGraph
  <2>13. FramesInv(more.b.nodes, more.m)
    BY <1>1, <2>6, <2>10, <2>12 DEF FramesInv
  <2>14. OptimizerInv(n, edges, Len(g.l.edges), q, m)
    <3>1. q.init = m.initialized
      <4>1. q.init \in BOOLEAN /\ m.initialized \in BOOLEAN
        BY <2>6, <2>8 DEF Optimizers, IsOrchestrator
      <4> QED
        BY <1>1, <2>6, <2>8, <4>1
    <3> QED
      BY <2>3, <2>6, <2>8, <3>1 DEF OptimizerInv
  <2>15. AllHandedOver(more)
    BY <1>1, <2>6, <2>10, <2>11, <2>12, <2>13, <2>14 DEF AllHandedOver
  <2>16. Constrained(g, more)
    BY <2>6, <2>10, <2>15 DEF Constrained
  <2>17. FixesInv(more.o, more.m, latest)
    BY <2>2, <2>9, <2>10
  <2> HIDE DEF h
  <2> QED
    BY <1>6, <2>16, <2>17 DEF h
<1>7. h = g \/ (HasFix(c) /\ g.a # None /\ c.fix # g.m.lastTs /\ h = more)
  BY DEF AddGnssPrior, PriorAdded
<1> QED
  BY <1>5, <1>6, <1>7

\* The bookkeeping of the fixes reads nothing else.
LEMMA SameFixes ==
    ASSUME NEW o, NEW m, NEW fix, FixesInv(o, m, fix), m.lastTs \in Nat, NEW p, NEW w,
           w.lastTs = m.lastTs, p.gnss = o.gnss \/ p.gnss = <<>>
    PROVE  FixesInv(p, w, fix)
<1>1. CASE p.gnss = o.gnss
  BY <1>1 DEF FixesInv
<1>2. CASE p.gnss = <<>>
  BY <1>2 DEF FixesInv
<1> QED
  BY <1>1, <1>2

\* No variable twice, no factor on an unknown variable.
LEMMA FactorsAreWellPosed ==
    ASSUME NEW g, AllHandedOver(g)
    PROVE  WellPosed(g.o)
<1> DEFINE n == Len(g.b.nodes)
           o == g.o
<1>1. HasFactors(n, AllEdges(g.b, g.l), o)
  BY DEF AllHandedOver, OptimizerInv
<1> HIDE DEF n, o
<1>2. /\ Known(o) = 1..n /\ DOMAIN o.pendingValues \cap DOMAIN o.estimate = {}
      /\ \A e \in Range(o.pendingGraph) : e.from \in 1..n /\ e.to \in 1..n
  BY <1>1 DEF HasFactors
<1>3. \A f \in Range(o.pendingGraph) :
        {f.from, f.to} \subseteq DOMAIN o.pendingValues \cup DOMAIN o.estimate
  BY <1>2 DEF Known
<1>4. WellPosed(o)
  BY <1>2, <1>3 DEF WellPosed
<1> QED
  BY <1>4 DEF o

\* g is what process_frame hands to the optimiser for the graph of ready.
BeforeInv(ready, g, fix) ==
    /\ AllHandedOver(g) /\ SameGraph(ready, g)
    /\ g.m.useGnss = ready.m.useGnss /\ (ready.a # None => g.a # None)
    /\ FixesInv(g.o, g.m, fix)

\* From the new keyframe to optimizer_.update().
LEMMA BeforeUpdateIsReady ==
    ASSUME NEW ready, Delivered(ready, HandOver(ready)), NEW old \in Nat,
           ready.m.lastTs \in Nat, FixesInv(ready.o, ready.m, old), ready.b.nodes # <<>>,
           NEW c \in Decisions, HasFix(c) => old <= c.fix, NEW x
    PROVE  BeforeInv(ready, BeforeUpdate(ready, x, c), IF HasFix(c) THEN c.fix ELSE old)
<1> DEFINE g2 == HandOver(ready)
           g3 == TryDynamicReanchor(g2, x, c)
           held == IF g3.m.reanchored # g2.m.reanchored THEN Last1(g3.b.nodes).x ELSE x
           g == AddGnssPrior(g3, held, c)
           latest == IF HasFix(c) THEN c.fix ELSE old
<1>1. /\ AllHandedOver(g2) /\ SameGraph(ready, g2) /\ g2.a = ready.a
      /\ g2.m.useGnss = ready.m.useGnss /\ g2.m.lastTs = ready.m.lastTs
      /\ g2.o.gnss = ready.o.gnss \/ g2.o.gnss = <<>>
  BY DEF Delivered
<1>2. FixesInv(g2.o, g2.m, old)
  BY <1>1, SameFixes
<1>3. BeforeUpdate(ready, x, c) = g
  BY DEF BeforeUpdate, HandOver
<1>4. IsState(g2) /\ IsOrchestrator(g2.m) /\ g2.a \in Anchors
  BY <1>1 DEF AllHandedOver, GraphInv
<1> HIDE DEF g2
<1>5. Moved(g2, g3)
  BY <1>4, ReanchorMoves
<1> HIDE DEF g3
<1>6. AllHandedOver(g3)
  BY <1>1, <1>5, MovedIsHandedOver
<1>7. FixesInv(g3.o, g3.m, old)
  <2>1. g3.o = g2.o /\ g3.m.lastTs = g2.m.lastTs /\ g2.m.lastTs \in Nat
    BY <1>1, <1>5 DEF Moved
  <2>2. g3.o.gnss = g2.o.gnss
    BY <2>1
  <2> QED
    BY <1>2, <2>1, <2>2, SameFixes
<1>8. g3.b.nodes # <<>>
  BY <1>1, <1>5 DEF Moved, SameGraph
<1> HIDE DEF held
<1>9. Constrained(g3, g) /\ FixesInv(g.o, g.m, latest)
  BY <1>6, <1>7, <1>8, PriorIsAdded
<1> HIDE DEF g, latest
<1>10. SameGraph(ready, g)
  BY <1>1, <1>5, <1>9 DEF Constrained, Moved, SameGraph
<1>11. g.m.useGnss = ready.m.useGnss /\ (ready.a # None => g.a # None)
  BY <1>1, <1>5, <1>9 DEF Constrained, Moved
<1>12. AllHandedOver(g)
  BY <1>9 DEF Constrained
<1> QED
  BY <1>3, <1>9, <1>10, <1>11, <1>12 DEF BeforeInv, latest

\* What the numerical code and the GNSS receiver may decide in a frame.
LEMMA OutcomesAreDecisions ==
    ASSUME NEW c \in Outcomes, input.fix \in Nat
    PROVE  c \in Decisions /\ (HasFix(c) => input.fix <= c.fix)
<1> DEFINE S == [fix : {0}, turn : Nat, matchTurn : Nat, converged : BOOLEAN, error : Int,
                 info : Nat, near : SUBSET Nat, loop : SUBSET Nat, rot : Int, shift : Int, fits : BOOLEAN]
           some == IF orch.useGnss
                   THEN FixLoss \cup ((0 .. Len(Fixes)) \cap (input.fix .. input.fix + 1)) ELSE {0}
<1>1. PICK n \in Numerics, f \in some : c = [n EXCEPT !.fix = f]
  BY DEF Outcomes
<1>2. n \in S
  BY GraphAssumption
<1>3. f \in 0..Len(Fixes) /\ (f # 0 => input.fix <= f)
  <2> DEFINE k == Len(Fixes)
  <2>1. k \in Nat /\ FixLoss \subseteq {0}
    <3> HIDE DEF k
    <3>1. Fixes \in Seq([x : Int, status : Int, sigma : Int]) /\ FixLoss \subseteq {0}
      BY GraphAssumption
    <3>2. k \in Nat
      BY ONLY <3>1 DEF k
    <3> QED
      BY ONLY <3>1, <3>2
  <2> HIDE DEF k
  <2>2. f \in FixLoss \cup ((0 .. k) \cap (input.fix .. input.fix + 1)) \cup {0}
    BY DEF k
  <2>3. f \in 0..k /\ (f # 0 => input.fix <= f)
    BY <2>1, <2>2
  <2> QED
    BY <2>3 DEF k
<1> HIDE DEF some
<1>4. c \in Decisions
  <2>1. c \in [fix : 0 .. Len(Fixes), turn : Nat, matchTurn : Nat, converged : BOOLEAN,
               error : Int, info : Nat, near : SUBSET Nat, loop : SUBSET Nat, rot : Int, shift : Int, fits : BOOLEAN]
    BY <1>1, <1>2, <1>3
  <2> QED
    BY <2>1 DEF Decisions
<1>5. c.fix = f
  BY <1>1, <1>2
<1> QED
  BY <1>3, <1>4, <1>5 DEF HasFix

\* A graph that ran before and has one keyframe more.
LEMMA AddedExtends ==
    ASSUME GraphInv(Now), ModeInv(Len(builder.nodes), orch),
           OptimizerInv(Len(builder.nodes), AllEdges(builder, loops), Len(loops.edges), optimizer, orch),
           orch.initialized,
           NEW g, GraphInv(g), HasAdded(g), Len(g.b.nodes) = Len(builder.nodes) + 1,
           g.a \in Anchors, g.o = optimizer, g.m = orch, orch.state = "RUNNING",
           FramesInv(g.b.nodes, g.m)
    PROVE  Delivered(g, HandOver(g))
<1>1. PICK s \in Edges, links \in Seq(Edges), new \in Seq(Edges) :
        /\ g.b.edges = Append(builder.edges, s) \o links
        /\ g.l.edges = loops.edges \o new
        /\ s.from = Len(builder.nodes) /\ s.to = Len(g.b.nodes)
        /\ AreMeshLinks(links, Len(g.b.nodes)) /\ AreLoopEdges(new, Len(g.b.nodes))
  BY DEF HasAdded
<1> DEFINE p == builder.edges
           q == loops.edges
           k == Len(builder.nodes)
           n == Len(g.b.nodes)
<1>2. /\ p \in Seq(Edges) /\ q \in Seq(Edges) /\ k \in Nat /\ n \in Nat
      /\ \A e \in Range(p) : e.from >= 1 /\ e.from < e.to /\ e.to <= k
  <2>1. p \in Seq(Edges) /\ q \in Seq(Edges) /\ k \in Nat
    BY EdgesAreInside DEF Now
  <2>2. n \in Nat
    BY EdgesAreInside
  <2>3. \A e \in Range(p) : e.from >= 1 /\ e.from < e.to /\ e.to <= k
    BY DEF GraphInv, BuilderInv, Now
  <2> QED
    BY <2>1, <2>2, <2>3
<1>3. n = k + 1 /\ k = n - 1
  BY <1>2
<1>4. \A e \in Range(p) : e.to # n
  <2> SUFFICES ASSUME NEW e \in Range(p) PROVE e.to # n
    OBVIOUS
  <2>1. e.to \in Nat
    BY <1>2, ListedEdge, EdgeParts
  <2> QED
    BY <1>2, <1>3, <2>1
<1>5. /\ orch.lastNode = k /\ orch.lastLoops = Len(q) /\ optimizer \in Optimizers
      /\ optimizer.init /\ HasFactors(k, p \o q, optimizer)
  BY DEF OptimizerInv, AllEdges
<1>6. IsOrchestrator(orch)
  BY DEF ModeInv
<1> HIDE DEF p, q, k
<1>7. s.from = n - 1
  BY <1>1, <1>3 DEF k
<1>8. HasFactors(n - 1, p \o q, g.o)
  BY <1>3, <1>5
<1>9. Extending(g, p, q, s, links, new)
  BY <1>1, <1>3, <1>4, <1>5, <1>6, <1>7, <1>8 DEF Extending, p, q
<1> QED
  BY <1>2, <1>9, ExtendingIsDelivered

\* The state process_frame has after initialize_with_gnss_if_ready.
ReadyInv(g, od, old) ==
    /\ GraphInv(g) /\ g.b.nodes # <<>> /\ g.b.lastOdom = od /\ g.a \in Anchors
    /\ Len(g.b.nodes) = Len(builder.nodes) + 1
    /\ (anchor # None => g.a # None)
    /\ g.m.lastTs \in Nat /\ FixesInv(g.o, g.m, old)
    /\ g.m.state = "RUNNING" => Delivered(g, HandOver(g))
    /\ g.m.state # "RUNNING" => StateInv(g, old)

\* A keyframe of a running graph is in the frame of the map.
LEMMA AddedFrames ==
    ASSUME builder.nodes \in Seq(Poses), builder.nodes # <<>>, FramesInv(builder.nodes, orch),
           NEW nodes \in Seq(Poses), Len(nodes) = Len(builder.nodes) + 1,
           \A i \in 1..Len(builder.nodes) : nodes[i] = builder.nodes[i],
           nodes[Len(nodes)].frame = builder.nodes[Len(builder.nodes)].frame
    PROVE  FramesInv(nodes, orch)
<1> DEFINE k == Len(builder.nodes)
<1>1. k \in Nat /\ k # 0
  OBVIOUS
<1> SUFFICES ASSUME orch.state = "RUNNING", NEW i \in 1..Len(nodes)
             PROVE  nodes[i].frame = "map"
  BY DEF FramesInv
<1>2. \A j \in 1..k : builder.nodes[j].frame = "map"
  BY DEF FramesInv
<1>3. k \in 1..k /\ (i \in 1..k \/ i = Len(nodes))
  BY <1>1
<1>4. CASE i \in 1..k
  <2>1. nodes[i] = builder.nodes[i]
    BY <1>4
  <2> QED
    BY <1>2, <1>4, <2>1
<1>5. CASE i = Len(nodes)
  <2>1. builder.nodes[k].frame = "map"
    BY <1>2, <1>3
  <2> QED
    BY <1>5, <2>1
<1> QED
  BY <1>3, <1>4, <1>5

\* A frame that is still waiting for the alignment changes the graph only.
LEMMA WaitingIsState ==
    ASSUME StateInv(Now, input.fix), orch.state # "RUNNING",
           NEW g, GraphInv(g), g.a \in Anchors, g.o = optimizer, g.m = orch
    PROVE  StateInv(g, input.fix)
<1>1. /\ ModeInv(Len(builder.nodes), orch) /\ FixesInv(optimizer, orch, input.fix)
      /\ OptimizerInv(Len(builder.nodes), AllEdges(builder, loops), Len(loops.edges), optimizer, orch)
  BY DEF StateInv, Now
<1>2. ModeInv(Len(g.b.nodes), orch) /\ ~orch.initialized
  BY <1>1 DEF ModeInv, IsOrchestrator
<1>3. FramesInv(g.b.nodes, g.m)
  BY DEF FramesInv
<1>4. ~optimizer.init /\ optimizer \in Optimizers /\ optimizer.init = orch.initialized
  BY <1>1, <1>2 DEF OptimizerInv
<1>5. OptimizerInv(Len(g.b.nodes), AllEdges(g.b, g.l), Len(g.l.edges), optimizer, orch)
  BY <1>4 DEF OptimizerInv
<1> QED
  BY <1>1, <1>2, <1>3, <1>5 DEF StateInv

\* add_scan and initialize_with_gnss_if_ready of a keyframe.
LEMMA FrameIsReady ==
    ASSUME StateInv(Now, input.fix), input.fix \in Nat, NEW od \in Int, NEW c \in Decisions
    PROVE  ReadyInv(InitializeWithGnssIfReady(AddScan(od, c), c), od, input.fix)
<1> DEFINE added == AddScan(od, c)
           g == InitializeWithGnssIfReady(added, c)
           k == Len(builder.nodes)
           n == Len(added.b.nodes)
<1> SUFFICES ReadyInv(g, od, input.fix)
  OBVIOUS
<1>1. /\ GraphInv(Now) /\ anchor \in Anchors /\ ModeInv(k, orch) /\ FramesInv(builder.nodes, orch)
      /\ OptimizerInv(k, AllEdges(builder, loops), Len(loops.edges), optimizer, orch)
      /\ FixesInv(optimizer, orch, input.fix)
  BY DEF StateInv, Now
<1>2. IsOrchestrator(orch) /\ orch.useGnss \in BOOLEAN /\ orch.lastTs \in Nat
  BY <1>1 DEF ModeInv, IsOrchestrator
<1>3. /\ GraphInv(added) /\ added.o = optimizer /\ added.a = anchor /\ added.m = orch
      /\ added.b.lastOdom = od /\ n = k + 1
      /\ builder.nodes = <<>> => added.b.nodes[1].frame = OdomFrame
      /\ builder.nodes # <<>> =>
           /\ \A i \in 1..k : added.b.nodes[i] = builder.nodes[i]
           /\ added.b.nodes[n].frame = builder.nodes[k].frame
           /\ HasAdded(added)
  BY <1>1, <1>2, AddScanGrows
<1> HIDE DEF added
<1>4. builder.nodes \in Seq(Poses) /\ added.b.nodes \in Seq(Poses) /\ k \in Nat
  <2>1. Now.b = builder
    BY DEF Now
  <2> QED
    BY <1>1, <1>3, <2>1, EdgesAreInside
<1>5. added.b.nodes # <<>>
  BY <1>3, <1>4
<1>6. Waiting(added, g) \/ AlignedNow(added, g)
  <2>1. added.a \in Anchors /\ IsOrchestrator(added.m)
    BY <1>1, <1>2, <1>3
  <2> QED
    BY <1>3, <1>5, <2>1, ReadyOrWaiting
<1> HIDE DEF g
<1>7. CASE AlignedNow(added, g)
  <2>1. AllHandedOver(g) /\ SameEdges(added, g) /\ g.o.gnss = <<>> /\ (anchor # None => g.a # None)
    BY <1>3, <1>7 DEF AlignedNow
  <2>2. Delivered(g, HandOver(g))
    BY <2>1, AlignedIsDelivered
  <2>3. g.b.lastOdom = od /\ Len(g.b.nodes) = k + 1 /\ g.m.lastTs = orch.lastTs
    BY <1>3, <2>1 DEF SameEdges
  <2>4. g.b.nodes # <<>>
    BY <1>4, <2>3
  <2>5. FixesInv(g.o, g.m, input.fix)
    BY <1>1, <1>2, <2>1, <2>3, SameFixes
  <2>6. GraphInv(g) /\ g.a \in Anchors /\ g.m.state = "RUNNING" /\ g.m.lastTs \in Nat
    BY <1>2, <2>1, <2>3 DEF AllHandedOver
  <2>7. Len(g.b.nodes) = Len(builder.nodes) + 1 /\ g.b.lastOdom = od
    BY <2>3
  <2> QED
    BY <2>1, <2>2, <2>4, <2>5, <2>6, <2>7 DEF ReadyInv
<1>8. CASE Waiting(added, g)
  <2>1. /\ SameGraph(added, g) /\ g.o = optimizer /\ g.m = orch
        /\ g.a \in Anchors /\ (anchor # None => g.a # None)
    BY <1>3, <1>8 DEF Waiting
  <2>2. g.b = added.b /\ g.l = added.l /\ GraphInv(g)
    BY <1>3, <2>1, SameGraphInv DEF SameGraph
  <2>3. /\ g.b.nodes # <<>> /\ g.b.lastOdom = od /\ Len(g.b.nodes) = k + 1
        /\ g.m.lastTs \in Nat /\ FixesInv(g.o, g.m, input.fix)
    BY <1>1, <1>2, <1>3, <1>5, <2>1, <2>2
  <2>4. ASSUME orch.state # "RUNNING" PROVE StateInv(g, input.fix)
    BY <2>1, <2>2, <2>4, WaitingIsState
  <2>5. ASSUME orch.state = "RUNNING", orch.initialized PROVE Delivered(g, HandOver(g))
    <3>1. k # 0 /\ builder.nodes # <<>>
      BY <1>1, <1>4, <2>5 DEF ModeInv
    <3>2. FramesInv(added.b.nodes, orch)
      BY <1>1, <1>3, <1>4, <3>1, AddedFrames
    <3>3. HasAdded(g) /\ FramesInv(g.b.nodes, g.m) /\ Len(g.b.nodes) = k + 1
      BY <1>3, <2>1, <2>2, <3>1, <3>2 DEF HasAdded
    <3> QED
      BY <1>1, <2>1, <2>2, <2>5, <3>3, AddedExtends
  <2>6. ASSUME orch.state = "RUNNING", ~orch.initialized PROVE Delivered(g, HandOver(g))
    <3>1. ~orch.useGnss /\ k = 0 /\ orch.lastLoops = 0
      BY <1>1, <1>2, <1>4, <2>6 DEF ModeInv
    <3>2. builder.nodes = <<>> /\ Len(g.b.nodes) = 1
      BY <1>4, <2>3, <3>1
    <3>3. g.b.nodes[1].frame = "map"
      BY <1>3, <2>2, <3>1, <3>2 DEF OdomFrame
    <3>4. FramesInv(g.b.nodes, g.m)
      BY <3>2, <3>3 DEF FramesInv
    <3>5. ~g.m.initialized /\ g.m.lastLoops = 0 /\ g.m.state = "RUNNING" /\ IsOrchestrator(g.m)
      BY <1>2, <2>1, <2>6, <3>1
    <3> QED
      BY <2>1, <2>2, <3>2, <3>4, <3>5, FirstIsDelivered
  <2>7. Len(g.b.nodes) = Len(builder.nodes) + 1 /\ g.b.lastOdom = od /\ g.b.nodes # <<>>
    BY <2>3
  <2>8. g.m.lastTs \in Nat /\ FixesInv(g.o, g.m, input.fix)
    BY <2>3
  <2>9. orch.initialized \in BOOLEAN
    BY <1>2 DEF IsOrchestrator
  <2>10. g.m.state = "RUNNING" => Delivered(g, HandOver(g))
    BY <2>1, <2>5, <2>6, <2>9
  <2>11. g.m.state # "RUNNING" => StateInv(g, input.fix)
    BY <2>1, <2>4
  <2>12. GraphInv(g) /\ g.a \in Anchors /\ (anchor # None => g.a # None)
    BY <2>1, <2>2
  <2> QED
    BY <2>7, <2>8, <2>10, <2>11, <2>12 DEF ReadyInv
<1> QED
  BY <1>6, <1>7, <1>8

\* Where the optimiser puts the nodes.
LEMMA OptimisedNodes ==
    ASSUME NEW g, g.b.nodes \in Seq(Poses), g.o \in Optimizers
    PROVE  /\ Optimised(g) \in Seq(Poses) /\ Len(Optimised(g)) = Len(g.b.nodes)
           /\ \A i \in 1..Len(g.b.nodes) :
                g.b.nodes[i].frame = "map" => Optimised(g)[i].frame = "map"
<1> DEFINE nodes == g.b.nodes
           n == Len(nodes)
           f == g.o.estimate
           p(i) == IF i \in DOMAIN f THEN f[i] ELSE nodes[i]
           t == [i \in 1..n |-> p(i)]
<1>1. n \in Nat /\ DOMAIN nodes = 1..n /\ nodes \in Seq(Poses)
  OBVIOUS
<1>2. f \in PoseMaps
  BY DEF Optimizers
<1>3. Optimised(g) = t
  BY <1>1 DEF Optimised
<1> HIDE DEF f
<1>4. ASSUME NEW i \in 1..n
      PROVE  p(i) \in Poses /\ (nodes[i].frame = "map" => p(i).frame = "map")
  <2>1. CASE i \in DOMAIN f
    <3>1. f[i] \in MapPoses
      BY <1>2, <2>1, PoseMapParts
    <3> QED
      BY <2>1, <3>1 DEF MapPoses
  <2>2. CASE i \notin DOMAIN f
    <3>1. nodes[i] \in Poses
      BY <1>1
    <3> QED
      BY <2>2, <3>1
  <2> QED
    BY <2>1, <2>2
<1> HIDE DEF p, nodes
<1>5. t \in [1..n -> Poses] /\ \A i \in 1..n : t[i] = p(i)
  BY <1>4
<1> HIDE DEF t, n
<1>6. t \in Seq(Poses) /\ Len(t) = n
  BY <1>1, <1>5
<1> QED
  BY <1>3, <1>4, <1>5, <1>6 DEF n, nodes

\* An optimisation keeps the factors.
LEMMA FactorsContinue ==
    ASSUME NEW n, NEW edges, NEW k, NEW o, NEW m, OptimizerInv(n, edges, k, o, m),
           NEW p, Continues(o, p)
    PROVE  OptimizerInv(n, edges, k, p, m)
<1>1. o.init => HasFactors(n, edges, p)
  <2> SUFFICES ASSUME o.init PROVE HasFactors(n, edges, p)
    OBVIOUS
  <2>1. HasFactors(n, edges, o)
    BY DEF OptimizerInv
  <2>2. Known(p) = 1..n /\ DOMAIN p.pendingValues \cap DOMAIN p.estimate = {}
    BY <2>1 DEF HasFactors, Continues
  <2>3. \A e \in Range(p.pendingGraph) : e.from \in 1..n /\ e.to \in 1..n
    BY <2>1 DEF HasFactors, Continues
  <2>4. Len(p.geom) = Len(edges) /\ Range(p.geom) = Range(edges)
    BY <2>1 DEF HasFactors, Continues
  <2> QED
    BY <2>2, <2>3, <2>4 DEF HasFactors
<1>2. p \in Optimizers /\ p.init = o.init
  BY DEF Continues
<1> QED
  BY <1>1, <1>2 DEF OptimizerInv

\* A graph that was handed over is a state between two frames.
LEMMA HandedOverIsState ==
    ASSUME NEW g, AllHandedOver(g), g.b.nodes # <<>>, NEW fix, FixesInv(g.o, g.m, fix)
    PROVE  StateInv(g, fix)
<1>1. Len(g.b.nodes) # 0
  <2>1. g.b.nodes \in Seq(Poses)
    BY EdgesAreInside DEF AllHandedOver
  <2> QED
    BY <2>1
<1>2. ModeInv(Len(g.b.nodes), g.m)
  BY <1>1 DEF AllHandedOver, ModeInv
<1> QED
  BY <1>2 DEF AllHandedOver, StateInv

\* h is g with other poses, another estimate and other drawing records.
Redrawn(g, h, nodes, fix) ==
    /\ StateInv(h, fix) /\ h.b.nodes = nodes /\ h.b.lastOdom = g.b.lastOdom
    /\ h.b.kind = g.b.kind /\ h.a = g.a

\* The poses of an optimisation go to every copy of the graph.
LEMMA PosesAreApplied ==
    ASSUME NEW g, NEW fix, StateInv(g, fix), NEW m, IsOrchestrator(m),
           m.useGnss = g.m.useGnss, m.state = g.m.state, m.initialized = g.m.initialized,
           m.lastNode = g.m.lastNode, m.lastLoops = g.m.lastLoops, m.lastTs = g.m.lastTs
    PROVE  Redrawn(g, [ReplaceNodes(g, Optimised(g)) EXCEPT !.m = m], Optimised(g), fix)
<1> DEFINE nodes == Optimised(g)
           g1 == ReplaceNodes(g, nodes)
           h == [g1 EXCEPT !.m = m]
<1>1. /\ GraphInv(g) /\ g.a \in Anchors
      /\ ModeInv(Len(g.b.nodes), g.m) /\ FramesInv(g.b.nodes, g.m)
      /\ OptimizerInv(Len(g.b.nodes), AllEdges(g.b, g.l), Len(g.l.edges), g.o, g.m)
      /\ FixesInv(g.o, g.m, fix)
  BY DEF StateInv
<1>2. g.b.nodes \in Seq(Poses) /\ g.o \in Optimizers
  BY <1>1, EdgesAreInside DEF OptimizerInv
<1>3. /\ nodes \in Seq(Poses) /\ Len(nodes) = Len(g.b.nodes)
      /\ \A i \in 1..Len(g.b.nodes) : g.b.nodes[i].frame = "map" => nodes[i].frame = "map"
  BY <1>2, OptimisedNodes
<1> HIDE DEF nodes
<1>4. GraphInv(g1) /\ HasNodes(g, g1, nodes)
  BY <1>1, <1>3, ReplaceNodesReaches
<1> HIDE DEF g1
<1>5. SameGraph(g1, h) /\ h.a = g1.a /\ h.o = g1.o /\ h.m = m
  BY <1>4 DEF GraphInv, IsState, SameGraph
<1> HIDE DEF h
<1>6. GraphInv(h)
  BY <1>4, <1>5, SameGraphInv
<1>7. /\ h.b.nodes = nodes /\ h.b.edges = g.b.edges /\ h.l.edges = g.l.edges
      /\ h.b.kind = g.b.kind /\ h.b.lastOdom = g.b.lastOdom /\ h.a = g.a /\ h.o = g.o
  BY <1>4, <1>5 DEF SameGraph, HasNodes
<1>8. ModeInv(Len(h.b.nodes), m)
  BY <1>1, <1>3, <1>7 DEF ModeInv
<1>9. FramesInv(h.b.nodes, m)
  BY <1>1, <1>3, <1>7 DEF FramesInv
<1>10. AllEdges(h.b, h.l) = AllEdges(g.b, g.l)
  BY <1>7 DEF AllEdges
<1>11. OptimizerInv(Len(h.b.nodes), AllEdges(h.b, h.l), Len(h.l.edges), h.o, m)
  <2>1. OptimizerInv(Len(g.b.nodes), AllEdges(g.b, g.l), Len(g.l.edges), g.o, m)
    BY <1>1 DEF OptimizerInv
  <2> QED
    BY <1>3, <1>7, <1>10, <2>1
<1>12. FixesInv(h.o, m, fix)
  BY <1>1, <1>7 DEF FixesInv
<1>13. StateInv(h, fix)
  BY <1>1, <1>5, <1>6, <1>7, <1>8, <1>9, <1>11, <1>12 DEF StateInv
<1>14. Redrawn(g, h, nodes, fix)
  BY <1>7, <1>13 DEF Redrawn
<1> QED
  BY <1>14 DEF h, g1, nodes

\* The last steps of process_frame.
Optimising(g, bend) == [g EXCEPT !.o = Update(@, bend)]

\* update() and apply_optimized_poses().
Applied(g, bend, node, force) == ApplyOptimizedPoses(Optimising(g, bend), node, force).g

\* An optimisation leaves the graph consistent.
LEMMA ContinuedIsState ==
    ASSUME NEW g, NEW fix, StateInv(g, fix), NEW h, SameGraph(g, h), h.a = g.a, h.m = g.m,
           Continues(g.o, h.o)
    PROVE  StateInv(h, fix)
<1>1. /\ GraphInv(g) /\ g.a \in Anchors
      /\ ModeInv(Len(g.b.nodes), g.m) /\ FramesInv(g.b.nodes, g.m)
      /\ OptimizerInv(Len(g.b.nodes), AllEdges(g.b, g.l), Len(g.l.edges), g.o, g.m)
      /\ FixesInv(g.o, g.m, fix)
  BY DEF StateInv
<1>2. h.b = g.b /\ h.l = g.l /\ GraphInv(h)
  BY <1>1, SameGraphInv DEF SameGraph
<1>3. OptimizerInv(Len(h.b.nodes), AllEdges(h.b, h.l), Len(h.l.edges), h.o, h.m)
  <2> DEFINE n == Len(g.b.nodes)
             edges == AllEdges(g.b, g.l)
             k == Len(g.l.edges)
             o == g.o
             p == h.o
  <2>1. OptimizerInv(n, edges, k, o, g.m) /\ Continues(o, p)
    BY <1>1
  <2> HIDE DEF n, edges, k, o, p
  <2>2. OptimizerInv(n, edges, k, p, g.m)
    BY <2>1, FactorsContinue
  <2> QED
    BY <1>2, <2>2 DEF n, edges, k, p
<1>4. FixesInv(h.o, h.m, fix)
  <2>1. h.o.gnss = g.o.gnss
    BY DEF Continues
  <2> QED
    BY <1>1, <2>1 DEF FixesInv
<1> QED
  BY <1>1, <1>2, <1>3, <1>4 DEF StateInv

\* The graph takes the poses and stays consistent.
LEMMA OptimisedIsState ==
    ASSUME NEW g, AllHandedOver(g), g.b.nodes # <<>>, NEW fix, FixesInv(g.o, g.m, fix),
           NEW bend \in [from : Int, by : Int], NEW node, NEW force
    PROVE  LET h == Applied(g, bend, node, force) IN
           /\ StateInv(h, fix) /\ h.b.lastOdom = g.b.lastOdom /\ h.a = g.a
           /\ Len(h.b.nodes) = Len(g.b.nodes)
<1> DEFINE o == Update(g.o, bend)
           h1 == Optimising(g, bend)
           nodes == Optimised(h1)
           redraw == force \/ FirstRender(h1) \/ (RerenderThreshold > 0 /\ MovedTooFar(h1, nodes))
           seen == h1.m.firstRender \/ FirstRender(h1)
           drawn == IF redraw THEN nodes ELSE Over(Only(Len(nodes), node), h1.m.rendered)
           m == [[h1.m EXCEPT !.firstRender = seen] EXCEPT !.rendered = drawn]
           h == [ReplaceNodes(h1, nodes) EXCEPT !.m = m]
<1>1. StateInv(g, fix)
  BY HandedOverIsState
<1>2. /\ GraphInv(g) /\ IsState(g) /\ g.a \in Anchors
      /\ ModeInv(Len(g.b.nodes), g.m) /\ FramesInv(g.b.nodes, g.m)
      /\ OptimizerInv(Len(g.b.nodes), AllEdges(g.b, g.l), Len(g.l.edges), g.o, g.m)
      /\ FixesInv(g.o, g.m, fix)
  BY <1>1 DEF StateInv, GraphInv
<1>3. Continues(g.o, o)
  <2> DEFINE p == g.o
  <2>1. p \in Optimizers
    BY <1>2 DEF OptimizerInv
  <2> HIDE DEF p
  <2>2. Continues(p, Update(p, bend))
    BY <2>1, UpdateContinues
  <2> QED
    BY <2>2 DEF p
<1>4. h1 = [g EXCEPT !.o = o]
  BY DEF Optimising
<1> HIDE DEF o, h1
<1>5. SameGraph(g, h1) /\ h1.a = g.a /\ h1.o = o /\ h1.m = g.m
  BY <1>2, <1>4 DEF IsState, SameGraph
<1>6. StateInv(h1, fix)
  BY <1>1, <1>3, <1>5, ContinuedIsState
<1>7. h1.b = g.b
  BY <1>5 DEF SameGraph
<1>10. nodes = Optimised(h1)
  OBVIOUS
<1> HIDE DEF nodes, redraw, seen, drawn
<1>11. /\ IsOrchestrator(m) /\ m.useGnss = h1.m.useGnss /\ m.state = h1.m.state
       /\ m.initialized = h1.m.initialized /\ m.lastNode = h1.m.lastNode
       /\ m.lastLoops = h1.m.lastLoops /\ m.lastTs = h1.m.lastTs
  <2> DEFINE w == h1.m
             S == [useGnss : BOOLEAN, state : {"INITIALIZING", "RUNNING"}, initialized : BOOLEAN,
                   lastNode : Nat, lastLoops : Nat, rot : {w.rot}, rendered : {w.rendered, drawn},
                   lastTs : Nat, lastPos : {w.lastPos}, firstRender : {w.firstRender, seen},
                   reanchored : BOOLEAN, samples : {w.samples}]
             Same(v) == /\ v.state = w.state /\ v.initialized = w.initialized
                        /\ v.lastNode = w.lastNode /\ v.lastLoops = w.lastLoops
                        /\ v.useGnss = w.useGnss /\ v.lastTs = w.lastTs
             m1 == [w EXCEPT !.firstRender = seen]
             m2 == [m1 EXCEPT !.rendered = drawn]
  <2>1. w \in S
    BY <1>6 DEF StateInv, ModeInv, IsOrchestrator
  <2> HIDE DEF w
  <2>2. m1 \in S /\ Same(m1)
    BY <2>1
  <2> HIDE DEF m1
  <2>3. m2 \in S /\ Same(m2)
    BY <2>2
  <2> HIDE DEF m2
  <2>4. IsOrchestrator(m2)
    BY <2>3 DEF IsOrchestrator
  <2> QED
    BY <2>3, <2>4 DEF w, m1, m2
<1>12. ApplyOptimizedPoses(h1, node, force).g = h
  BY DEF ApplyOptimizedPoses, nodes, redraw, seen, drawn
<1> HIDE DEF m
<1>13. Redrawn(h1, h, nodes, fix)
  <2>1. Redrawn(h1, [ReplaceNodes(h1, Optimised(h1)) EXCEPT !.m = m], Optimised(h1), fix)
    BY <1>6, <1>11, PosesAreApplied
  <2> QED
    BY <1>10, <2>1
<1> HIDE DEF h
<1>14. Len(nodes) = Len(g.b.nodes)
  <2>1. h1.b.nodes \in Seq(Poses) /\ h1.o \in Optimizers
    BY <1>6, EdgesAreInside DEF StateInv, OptimizerInv
  <2>2. Len(Optimised(h1)) = Len(h1.b.nodes)
    BY <2>1, OptimisedNodes
  <2> QED
    BY <1>7, <1>10, <2>2
<1>15. /\ StateInv(h, fix) /\ h.b.lastOdom = g.b.lastOdom /\ h.a = g.a
       /\ Len(h.b.nodes) = Len(g.b.nodes)
  BY <1>5, <1>7, <1>13, <1>14 DEF Redrawn
<1> QED
  BY <1>12, <1>15 DEF Applied, h1

(***************************************************************************)
(* SlamNodeBase.                                                           *)
(***************************************************************************)

\* What was drawn and published; no anchor is published before there is one.
ViewInv(v, a) ==
    /\ v \in [skip : BOOLEAN, drawn : {v.drawn}, dirty : BOOLEAN, tf : {v.tf},
              path : Seq(Poses), markers : {v.markers}, anchor : {v.anchor}]
    /\ v.anchor # None => a # None

\* map -> odom puts the robot on the newest node; every node and every edge is
\* shown once.
DrawnInv(v, g) ==
    /\ g.b.nodes # <<>> => v.tf = Last1(g.b.nodes).x - g.b.lastOdom
    /\ ~v.skip => Len(v.path) = Len(g.b.nodes)
    /\ ~v.skip => Len(v.markers.seq) + Len(v.markers.loop) = Len(AllEdges(g.b, g.l))

\* publish_pose_graph_markers shows every edge.
LEMMA MarkersShowEdges ==
    ASSUME NEW g, GraphInv(g)
    PROVE  LET shown == PublishPoseGraphMarkers(g.b.nodes, AllEdges(g.b, g.l)) IN
           Len(shown.seq) + Len(shown.loop) = Len(AllEdges(g.b, g.l))
<1> DEFINE edges == AllEdges(g.b, g.l)
           nodes == g.b.nodes
           inside == {e \in Range(edges) : {e.from, e.to} \subseteq DOMAIN nodes}
           known == Selected(edges, inside)
           short == {e \in Range(known) : Gap(e) <= 1}
           long == {e \in Range(known) : Gap(e) > 1}
           shown == PublishPoseGraphMarkers(nodes, edges)
<1>1. /\ edges \in Seq(Edges) /\ nodes \in Seq(Poses)
      /\ \A e \in Range(edges) : e.from \in 1..Len(nodes) /\ e.to \in 1..Len(nodes)
  BY EdgesAreInside
<1>2. DOMAIN nodes = 1..Len(nodes)
  BY <1>1
<1>3. shown.seq = Selected(known, short) /\ shown.loop = Selected(known, long)
  BY DEF PublishPoseGraphMarkers
<1> HIDE DEF edges, nodes, shown
<1>4. Range(edges) \subseteq inside
  BY <1>1, <1>2
<1> HIDE DEF inside
<1>5. known = edges
  BY <1>1, <1>4, SelectedAll
<1>6. \A e \in Range(known) : e \in short <=> e \notin long
  <2> SUFFICES ASSUME NEW e \in Range(known) PROVE Gap(e) <= 1 <=> ~(Gap(e) > 1)
    OBVIOUS
  <2>1. e \in Edges
    BY <1>1, <1>5, ListedEdge
  <2>2. Gap(e) \in Int
    BY <2>1, EdgeParts
  <2> QED
    BY <2>2
<1> HIDE DEF known, short, long
<1>7. Len(Selected(known, short)) + Len(Selected(known, long)) = Len(known)
  BY <1>1, <1>5, <1>6, SelectionsPart
<1> QED
  BY <1>3, <1>5, <1>7 DEF shown, edges, nodes

\* The drawing of a frame.
LEMMA FrameIsDrawn ==
    ASSUME NEW g, GraphInv(g), g.b.nodes # <<>>, NEW a, NEW v, ViewInv(v, a), NEW redraw, NEW fits,
           ~v.skip => Len(v.path) + 1 = Len(g.b.nodes), a # None => g.a # None, NEW od
    PROVE  LET w == Draw(UpdateTf(v, Last1(g.b.nodes), od), g, redraw, fits) IN
           ViewInv(w, g.a) /\ (od = g.b.lastOdom => DrawnInv(w, g))
<1> DEFINE nodes == g.b.nodes
           node == Last1(nodes)
           x == node.x - od
           v1 == [v EXCEPT !.tf = x]
           path == IF redraw THEN nodes ELSE Append(v.path, node)
           drawn == IF redraw \/ ~fits THEN nodes ELSE Over(Only(Len(nodes), node), v.drawn)
           markers == PublishPoseGraphMarkers(nodes, AllEdges(g.b, g.l))
           w == Draw(UpdateTf(v, node, od), g, redraw, fits)
<1>1. nodes \in Seq(Poses)
  BY EdgesAreInside
<1>2. Len(markers.seq) + Len(markers.loop) = Len(AllEdges(g.b, g.l))
  BY MarkersShowEdges
<1>3. node \in Poses
  BY <1>1 DEF Last1
<1>4. v \in [skip : BOOLEAN, drawn : {v.drawn}, dirty : BOOLEAN, tf : {v.tf},
             path : Seq(Poses), markers : {v.markers}, anchor : {v.anchor}]
  BY DEF ViewInv
<1>5. v.anchor # None => g.a # None
  BY DEF ViewInv
<1>6. UpdateTf(v, node, od) = v1
  BY DEF UpdateTf
<1>7. path \in Seq(Poses) /\ (~v.skip => Len(path) = Len(nodes))
  <2>1. v.path \in Seq(Poses)
    BY <1>4
  <2> DEFINE p == v.path
  <2> HIDE DEF p, nodes
  <2>2. CASE redraw
    BY <1>1, <2>2
  <2>3. CASE ~redraw
    <3>1. Append(p, node) \in Seq(Poses) /\ Len(Append(p, node)) = Len(p) + 1
      BY <1>3, <2>1 DEF p
    <3>2. ~v.skip => Len(p) + 1 = Len(nodes)
      BY DEF p, nodes
    <3> QED
      BY <2>3, <3>1, <3>2 DEF p
  <2> QED
    BY <2>2, <2>3
<1> HIDE DEF x, node, markers, path, drawn
<1> DEFINE S == [skip : BOOLEAN, drawn : {v.drawn, drawn}, dirty : BOOLEAN, tf : {v.tf, x},
                 path : Seq(Poses), markers : {v.markers, markers}, anchor : {v.anchor}]
<1>8. v1 \in S /\ v1.skip = v.skip /\ v1.anchor = v.anchor /\ v1.tf = x /\ v1.path = v.path
      /\ v1.drawn = v.drawn
  BY <1>4
<1>9. CASE v.skip
  <2>1. w = v1
    BY <1>6, <1>8, <1>9 DEF Draw
  <2> HIDE DEF w, v1
  <2>2. ViewInv(w, g.a)
    BY <1>5, <1>8, <2>1 DEF ViewInv
  <2>3. od = g.b.lastOdom => DrawnInv(w, g)
    BY <1>8, <1>9, <2>1 DEF DrawnInv, x, node
  <2> QED
    BY <2>2, <2>3 DEF w, node
<1>10. CASE ~v.skip
  <2> DEFINE yes == TRUE
             v2 == [v1 EXCEPT !.dirty = yes]
             v3 == [v2 EXCEPT !.drawn = drawn]
             v4 == [v3 EXCEPT !.path = path]
             v5 == [v4 EXCEPT !.markers = markers]
             Same(u) == u.skip = v.skip /\ u.anchor = v.anchor /\ u.tf = x
  <2>1. w = v5
    BY <1>6, <1>8, <1>10 DEF Draw, path, drawn, markers, node, RebuildPath, PublishPathIncrement
  <2>2. yes \in BOOLEAN
    OBVIOUS
  <2> HIDE DEF yes, w, v1
  <2>3. v2 \in S /\ Same(v2)
    BY <1>8, <2>2
  <2> HIDE DEF v2
  <2>4. v3 \in S /\ Same(v3)
    BY <2>3
  <2> HIDE DEF v3
  <2>5. v4 \in S /\ Same(v4) /\ v4.path = path
    BY <1>7, <2>4
  <2> HIDE DEF v4
  <2>6. v5 \in S /\ Same(v5) /\ v5.path = path /\ v5.markers = markers
    BY <2>5
  <2> HIDE DEF v5
  <2>7. ViewInv(w, g.a)
    BY <1>5, <2>1, <2>6 DEF ViewInv
  <2>8. od = g.b.lastOdom => DrawnInv(w, g)
    BY <1>2, <1>7, <1>10, <2>1, <2>6 DEF DrawnInv, x, node
  <2> QED
    BY <2>7, <2>8 DEF w, node
<1>11. v.skip \in BOOLEAN
  BY <1>4
<1> QED
  BY <1>9, <1>10, <1>11

(***************************************************************************)
(* The invariant.                                                          *)
(***************************************************************************)

\* A frame leaves the graph, its copies, the optimiser and the orchestrator
\* consistent; what is drawn follows while the node spins.
GraphInvariant ==
    /\ input \in [odom : Int, fix : Nat]
    /\ StateInv(Now, input.fix) /\ ViewInv(view, anchor)
    /\ phase # "key error" /\ (phase = "spinning" => DrawnInv(view, Now))
    /\ FinalMapIsTheGraph

\* A committed state is the state.
LEMMA CommittedIsNow ==
    ASSUME NEW g, IsState(g), Commit(g)
    PROVE  Now' = g
BY DEF IsState, Commit, Now

\* A later fix.
LEMMA LaterFix ==
    ASSUME NEW g, NEW old \in Nat, NEW fix \in Nat, old <= fix, StateInv(g, old)
    PROVE  StateInv(g, fix)
<1>1. g.m.lastTs \in Nat /\ FixesInv(g.o, g.m, old)
  BY DEF StateInv, ModeInv, IsOrchestrator
<1>2. g.m.lastTs <= fix
  BY <1>1 DEF FixesInv
<1>3. FixesInv(g.o, g.m, fix)
  BY <1>1, <1>2 DEF FixesInv
<1> QED
  BY <1>3 DEF StateInv

\* What the invariant says of a state a frame committed.
LEMMA CommittedInvariant ==
    ASSUME NEW g, StateInv(g, input'.fix), Commit(g), input' \in [odom : Int, fix : Nat],
           ViewInv(view', g.a), phase' # "key error", phase' # "finalized",
           phase' = "spinning" => DrawnInv(view', g)
    PROVE  GraphInvariant'
<1>1. Now' = g
  BY CommittedIsNow DEF StateInv, GraphInv
<1>2. anchor' = g.a
  BY DEF Commit
<1>3. FinalMapIsTheGraph'
  BY DEF FinalMapIsTheGraph
<1> QED
  BY <1>1, <1>2, <1>3 DEF GraphInvariant

\* The input after a frame.
LEMMA InputOfFrame ==
    ASSUME GraphInvariant, NEW step \in Steps, NEW c \in Outcomes, Keyframe(step, c)
    PROVE  /\ input' \in [odom : Int, fix : Nat] /\ input.fix <= input'.fix
           /\ input'.fix = IF HasFix(c) THEN c.fix ELSE input.fix
           /\ c \in Decisions /\ (HasFix(c) => input.fix <= c.fix)
           /\ input.odom + step \in Int /\ phase = "spinning"
<1>1. input.odom \in Int /\ input.fix \in Nat /\ step \in Int
  BY GraphAssumption DEF GraphInvariant
<1>2. c \in Decisions /\ (HasFix(c) => input.fix <= c.fix)
  BY <1>1, OutcomesAreDecisions
<1>3. c.fix \in Nat
  BY <1>2, DecisionParts
<1>4. input' = [odom |-> input.odom + step, fix |-> IF HasFix(c) THEN c.fix ELSE input.fix]
  BY DEF Keyframe, NewInput
<1>5. input.odom + step \in Int /\ phase = "spinning"
  BY <1>1 DEF Keyframe
<1> DEFINE f == IF HasFix(c) THEN c.fix ELSE input.fix
<1>6. f \in Nat /\ input.fix <= f
  BY <1>1, <1>2, <1>3
<1> HIDE DEF f
<1>7. input' \in [odom : Int, fix : Nat] /\ input'.fix = f
  BY <1>4, <1>5, <1>6 DEF f
<1> QED
  BY <1>2, <1>5, <1>6, <1>7 DEF f

\* add_scan and the alignment of a frame.
LEMMA ReadyOfFrame ==
    ASSUME GraphInvariant, NEW step \in Steps, NEW c \in Outcomes, Keyframe(step, c)
    PROVE  ReadyInv(InitializeWithGnssIfReady(AddScan(input.odom + step, c), c),
                    input.odom + step, input.fix)
<1>1. c \in Decisions /\ input.odom + step \in Int
  BY InputOfFrame
<1>2. StateInv(Now, input.fix) /\ input.fix \in Nat
  BY DEF GraphInvariant
<1> QED
  BY <1>1, <1>2, FrameIsReady

\* What was drawn before a frame.
LEMMA ViewOfFrame ==
    ASSUME GraphInvariant, phase = "spinning", NEW n, n = Len(builder.nodes) + 1
    PROVE  ~view.skip => Len(view.path) + 1 = n
BY DEF GraphInvariant, DrawnInv, Now

\* A frame without alignment.
LEMMA InitializingFrameKeeps ==
    ASSUME GraphInvariant, NEW step \in Steps, NEW c \in Outcomes, InitializingFrame(step, c)
    PROVE  GraphInvariant'
<1> DEFINE g == InitializeWithGnssIfReady(AddScan(input.odom + step, c), c)
           od == input.odom + step
<1>1. /\ Keyframe(step, c) /\ g.m.state = "INITIALIZING" /\ Commit(g) /\ phase' = phase
      /\ view' = Draw(UpdateTf(view, Last1(g.b.nodes), g.b.lastOdom), g, FALSE, c.fits)
  BY DEF InitializingFrame
<1>2. ReadyInv(g, od, input.fix)
  BY <1>1, ReadyOfFrame
<1>3. /\ input' \in [odom : Int, fix : Nat] /\ input.fix <= input'.fix /\ phase = "spinning"
      /\ input.fix \in Nat /\ input'.fix \in Nat
  BY <1>1, InputOfFrame DEF GraphInvariant
<1> HIDE DEF g, od
<1>4. /\ StateInv(g, input.fix) /\ g.b.nodes # <<>> /\ (anchor # None => g.a # None)
      /\ Len(g.b.nodes) = Len(builder.nodes) + 1
  BY <1>1, <1>2 DEF ReadyInv
<1>5. StateInv(g, input'.fix)
  BY <1>3, <1>4, LaterFix
<1>6. GraphInv(g)
  BY <1>4 DEF StateInv
<1>7. ~view.skip => Len(view.path) + 1 = Len(g.b.nodes)
  BY <1>3, <1>4, ViewOfFrame
<1>8. ViewInv(view, anchor)
  BY DEF GraphInvariant
<1>9. ViewInv(view', g.a) /\ DrawnInv(view', g)
  <2> DEFINE last == g.b.lastOdom
             w == Draw(UpdateTf(view, Last1(g.b.nodes), last), g, FALSE, c.fits)
  <2>1. ViewInv(w, g.a) /\ (last = g.b.lastOdom => DrawnInv(w, g))
    BY <1>4, <1>6, <1>7, <1>8, FrameIsDrawn
  <2>2. view' = w
    BY <1>1
  <2> QED
    BY <2>1, <2>2
<1> QED
  BY <1>1, <1>3, <1>5, <1>9, CommittedInvariant

\* What a running frame hands to the optimiser.
LEMMA RunningFrameIsReady ==
    ASSUME GraphInvariant, NEW step \in Steps, NEW c \in Outcomes, Keyframe(step, c),
           NEW ready, ready = InitializeWithGnssIfReady(AddScan(input.odom + step, c), c),
           ready.m.state = "RUNNING", NEW x
    PROVE  LET g == BeforeUpdate(ready, x, c) IN
           /\ AllHandedOver(g) /\ FixesInv(g.o, g.m, input'.fix) /\ g.b.nodes # <<>>
           /\ Len(g.b.nodes) = Len(builder.nodes) + 1 /\ (anchor # None => g.a # None)
<1> DEFINE g == BeforeUpdate(ready, x, c)
           od == input.odom + step
           latest == IF HasFix(c) THEN c.fix ELSE input.fix
<1>1. ReadyInv(ready, od, input.fix)
  BY ReadyOfFrame
<1> HIDE DEF od
<1>2. /\ ready.b.nodes # <<>> /\ Delivered(ready, HandOver(ready)) /\ ready.m.lastTs \in Nat
      /\ FixesInv(ready.o, ready.m, input.fix) /\ (anchor # None => ready.a # None)
      /\ Len(ready.b.nodes) = Len(builder.nodes) + 1
  BY <1>1 DEF ReadyInv
<1>3. input'.fix = latest /\ c \in Decisions /\ (HasFix(c) => input.fix <= c.fix) /\ input.fix \in Nat
  BY InputOfFrame DEF GraphInvariant
<1>4. BeforeInv(ready, g, latest)
  <2> DEFINE old == input.fix
  <2>1. old \in Nat /\ FixesInv(ready.o, ready.m, old) /\ (HasFix(c) => old <= c.fix)
    BY <1>2, <1>3
  <2> HIDE DEF old
  <2>2. BeforeInv(ready, BeforeUpdate(ready, x, c), IF HasFix(c) THEN c.fix ELSE old)
    BY <1>2, <1>3, <2>1, BeforeUpdateIsReady
  <2> QED
    BY <2>2 DEF old
<1> HIDE DEF g
<1>5. g.b = ready.b /\ AllHandedOver(g) /\ FixesInv(g.o, g.m, latest) /\ (ready.a # None => g.a # None)
  BY <1>4 DEF BeforeInv, SameGraph
<1> QED
  BY <1>2, <1>3, <1>5 DEF g

\* A frame whose optimisation fails.
LEMMA FailingFrameKeeps ==
    ASSUME GraphInvariant, NEW step \in Steps, NEW c \in Outcomes, FailingFrame(step, c)
    PROVE  GraphInvariant'
<1> DEFINE added == AddScan(input.odom + step, c)
           ready == InitializeWithGnssIfReady(added, c)
           x == Last1(added.b.nodes).x
           g == BeforeUpdate(ready, x, c)
<1>1. /\ Keyframe(step, c) /\ ready.m.state = "RUNNING" /\ Commit(g)
      /\ phase' = (IF WellPosed(g.o) THEN "interrupted" ELSE "key error")
      /\ view' = view
  <2>1. PICK a1, r1, g1 :
          /\ a1 = AddScan(input.odom + step, c) /\ r1 = InitializeWithGnssIfReady(a1, c)
          /\ g1 = BeforeUpdate(r1, Last1(a1.b.nodes).x, c)
          /\ r1.m.state = "RUNNING" /\ Commit(g1)
          /\ phase' = IF WellPosed(g1.o) THEN "interrupted" ELSE "key error"
    BY DEF FailingFrame
  <2>2. a1 = added /\ r1 = ready /\ g1 = g
    BY <2>1 DEF x
  <2>3. Keyframe(step, c) /\ view' = view
    BY DEF FailingFrame
  <2> HIDE DEF g, ready
  <2> QED
    BY <2>1, <2>2, <2>3 DEF Commit
<1> HIDE DEF x
<1>2. /\ AllHandedOver(g) /\ FixesInv(g.o, g.m, input'.fix) /\ g.b.nodes # <<>>
      /\ (anchor # None => g.a # None)
  BY <1>1, RunningFrameIsReady
<1> HIDE DEF g
<1>3. WellPosed(g.o)
  BY <1>2, FactorsAreWellPosed
<1>4. phase' = "interrupted"
  BY <1>1, <1>3
<1>5. StateInv(g, input'.fix)
  BY <1>2, HandedOverIsState
<1>6. input' \in [odom : Int, fix : Nat]
  BY <1>1, InputOfFrame
<1>7. ViewInv(view', g.a)
  <2> DEFINE v == view
             a == g.a
  <2>1. ViewInv(v, anchor) /\ (anchor # None => a # None)
    BY <1>2 DEF GraphInvariant
  <2> HIDE DEF v, a
  <2>2. ViewInv(v, a)
    BY <2>1 DEF ViewInv
  <2>3. view' = v
    BY <1>1 DEF v
  <2> QED
    BY ONLY <2>2, <2>3 DEF a
<1> QED
  BY <1>1, <1>4, <1>5, <1>6, <1>7, CommittedInvariant

\* A frame of a running graph.
LEMMA RunningFrameKeeps ==
    ASSUME GraphInvariant, NEW step \in Steps, NEW c \in Outcomes, RunningFrame(step, c)
    PROVE  GraphInvariant'
<1> DEFINE added == AddScan(input.odom + step, c)
           ready == InitializeWithGnssIfReady(added, c)
           x == Last1(added.b.nodes).x
           g == BeforeUpdate(ready, x, c)
           moved == g.m.reanchored # ready.m.reanchored
           held  == IF moved THEN Last1(g.b.nodes) ELSE Last1(added.b.nodes)
           closed == moved \/ LoopClosed(ready)
<1>a. PICK a1 :
        /\ a1 = AddScan(input.odom + step, c)
        /\ \E r1 \in {InitializeWithGnssIfReady(a1, c)} :
             /\ r1.m.state = "RUNNING"
             /\ \E g1 \in {BeforeUpdate(r1, Last1(a1.b.nodes).x, c)}, bend \in Bends :
                  /\ WellPosed(g1.o)
                  /\ \E one \in {ApplyOptimizedPoses([g1 EXCEPT !.o = Update(@, bend)],
                                     IF g1.m.reanchored # r1.m.reanchored THEN Last1(g1.b.nodes)
                                     ELSE Last1(a1.b.nodes),
                                     g1.m.reanchored # r1.m.reanchored \/ LoopClosed(r1))} :
                       /\ Commit(one.g)
                       /\ view' = Draw(UpdateTf(view, Last1(one.g.b.nodes), g1.b.lastOdom),
                                       one.g, one.redraw, c.fits)
  BY DEF RunningFrame
<1>b. PICK r1 :
        /\ r1 = InitializeWithGnssIfReady(a1, c)
        /\ r1.m.state = "RUNNING"
        /\ \E g1 \in {BeforeUpdate(r1, Last1(a1.b.nodes).x, c)}, bend \in Bends :
             /\ WellPosed(g1.o)
             /\ \E one \in {ApplyOptimizedPoses([g1 EXCEPT !.o = Update(@, bend)],
                                IF g1.m.reanchored # r1.m.reanchored THEN Last1(g1.b.nodes)
                                ELSE Last1(a1.b.nodes),
                                g1.m.reanchored # r1.m.reanchored \/ LoopClosed(r1))} :
                  /\ Commit(one.g)
                  /\ view' = Draw(UpdateTf(view, Last1(one.g.b.nodes), g1.b.lastOdom),
                                  one.g, one.redraw, c.fits)
  BY <1>a
<1>0. PICK g1 \in {BeforeUpdate(r1, Last1(a1.b.nodes).x, c)}, bend \in Bends :
        /\ WellPosed(g1.o)
        /\ \E one \in {ApplyOptimizedPoses([g1 EXCEPT !.o = Update(@, bend)],
                           IF g1.m.reanchored # r1.m.reanchored THEN Last1(g1.b.nodes)
                           ELSE Last1(a1.b.nodes),
                           g1.m.reanchored # r1.m.reanchored \/ LoopClosed(r1))} :
             /\ Commit(one.g)
             /\ view' = Draw(UpdateTf(view, Last1(one.g.b.nodes), g1.b.lastOdom),
                             one.g, one.redraw, c.fits)
  BY <1>b
<1> DEFINE done == ApplyOptimizedPoses(Optimising(g, bend), held, closed)
<1>1. /\ Keyframe(step, c) /\ ready.m.state = "RUNNING" /\ phase' = phase
      /\ Commit(done.g)
      /\ view' = Draw(UpdateTf(view, Last1(done.g.b.nodes), g.b.lastOdom),
                      done.g, done.redraw, c.fits)
  <2>1. a1 = added /\ r1 = ready /\ g1 = g
    BY <1>a, <1>b, <1>0
  <2>2. Keyframe(step, c) /\ phase' = phase
    BY DEF RunningFrame
  <2> HIDE DEF added, ready, g
  <2>3. /\ Commit(done.g)
        /\ view' = Draw(UpdateTf(view, Last1(done.g.b.nodes), g.b.lastOdom),
                        done.g, done.redraw, c.fits)
    BY <1>0, <2>1 DEF Optimising
  <2>4. ready.m.state = "RUNNING"
    BY <1>b, <2>1
  <2> QED
    BY <2>2, <2>3, <2>4
<1> HIDE DEF x
<1>2. /\ AllHandedOver(g) /\ FixesInv(g.o, g.m, input'.fix) /\ g.b.nodes # <<>>
      /\ Len(g.b.nodes) = Len(builder.nodes) + 1 /\ (anchor # None => g.a # None)
  BY <1>1, RunningFrameIsReady
<1> DEFINE h == done.g
           redraw == done.redraw
<1> HIDE DEF g, held, closed
<1>3. bend \in [from : Int, by : Int]
  BY GraphAssumption
<1>4. /\ StateInv(h, input'.fix) /\ h.b.lastOdom = g.b.lastOdom /\ h.a = g.a
      /\ Len(h.b.nodes) = Len(g.b.nodes)
  <2> DEFINE fix == input'.fix
  <2>1. FixesInv(g.o, g.m, fix)
    BY <1>2
  <2> HIDE DEF fix
  <2>2. /\ StateInv(h, fix) /\ h.b.lastOdom = g.b.lastOdom /\ h.a = g.a
        /\ Len(h.b.nodes) = Len(g.b.nodes)
    <3> DEFINE k == Applied(g, bend, held, closed)
    <3>1. /\ StateInv(k, fix) /\ k.b.lastOdom = g.b.lastOdom /\ k.a = g.a
          /\ Len(k.b.nodes) = Len(g.b.nodes)
      BY <1>2, <1>3, <2>1, OptimisedIsState
    <3>2. h = k
      BY DEF Applied
    <3> HIDE DEF h, k
    <3> QED
      BY <3>1, <3>2
  <2> QED
    BY <2>2 DEF fix
<1>5. input' \in [odom : Int, fix : Nat] /\ phase = "spinning"
  BY <1>1, InputOfFrame
<1> DEFINE last == g.b.lastOdom
           w == Draw(UpdateTf(view, Last1(h.b.nodes), last), h, redraw, c.fits)
<1>6. Commit(h) /\ view' = w /\ phase' = phase
  BY <1>1
<1> HIDE DEF done, h, redraw
<1>7. GraphInv(h) /\ (anchor # None => h.a # None)
  BY <1>2, <1>4 DEF StateInv
<1>8. Len(h.b.nodes) = Len(builder.nodes) + 1
  BY <1>2, <1>4
<1>9. h.b.nodes # <<>>
  <2>1. builder.nodes \in Seq(Poses)
    <3>1. GraphInv(Now) /\ Now.b = builder
      BY DEF GraphInvariant, StateInv, Now
    <3> QED
      BY <3>1, EdgesAreInside
  <2> QED
    BY <1>8, <2>1
<1>10. ~view.skip => Len(view.path) + 1 = Len(h.b.nodes)
  BY <1>5, <1>8, ViewOfFrame
<1>11. ViewInv(view, anchor)
  BY DEF GraphInvariant
<1> HIDE DEF last
<1>12. ViewInv(w, h.a) /\ (last = h.b.lastOdom => DrawnInv(w, h))
  BY <1>7, <1>9, <1>10, <1>11, FrameIsDrawn
<1>13. last = h.b.lastOdom
  BY <1>4 DEF last
<1> HIDE DEF w
<1> QED
  BY <1>4, <1>5, <1>6, <1>12, <1>13, CommittedInvariant

\* What finalize() hands to the drawing.
LEMMA FinalIsState ==
    ASSUME GraphInvariant, NEW o, Continues(optimizer, o),
           NEW g, g = [b |-> builder, r |-> reference, l |-> loops, o |-> o, a |-> anchor, m |-> orch],
           NEW h, h = ReplaceNodes(g, Optimised(g))
    PROVE  /\ StateInv(h, input.fix) /\ h.a = anchor
           /\ h.b.nodes = Optimised(g) /\ h.b.nodes \in Seq(Poses)
<1> DEFINE fix == input.fix
           nodes == Optimised(g)
<1>1. StateInv(Now, fix)
  BY DEF GraphInvariant
<1> HIDE DEF fix
<1>2. SameGraph(Now, g) /\ g.a = anchor /\ g.m = Now.m /\ g.o = o /\ Now.o = optimizer
  BY DEF Now, SameGraph, IsState
<1>3. StateInv(g, fix)
  <2> DEFINE latest == Now
  <2>1. /\ StateInv(latest, fix) /\ SameGraph(latest, g) /\ g.m = latest.m /\ Continues(latest.o, g.o)
        /\ g.a = latest.a
    BY <1>1, <1>2 DEF Now
  <2> HIDE DEF latest
  <2> QED
    BY <2>1, ContinuedIsState
<1>4. GraphInv(g) /\ g.o \in Optimizers /\ IsOrchestrator(g.m)
  BY <1>3 DEF StateInv, OptimizerInv, ModeInv
<1>5. nodes \in Seq(Poses) /\ Len(nodes) = Len(g.b.nodes)
  BY <1>4, EdgesAreInside, OptimisedNodes
<1>6. Redrawn(g, [ReplaceNodes(g, nodes) EXCEPT !.m = g.m], nodes, fix)
  <2> DEFINE m == g.m
  <2>1. /\ IsOrchestrator(m) /\ m.useGnss = g.m.useGnss /\ m.state = g.m.state
        /\ m.initialized = g.m.initialized /\ m.lastNode = g.m.lastNode
        /\ m.lastLoops = g.m.lastLoops /\ m.lastTs = g.m.lastTs
    BY <1>4
  <2> HIDE DEF m
  <2>2. Redrawn(g, [ReplaceNodes(g, Optimised(g)) EXCEPT !.m = m], Optimised(g), fix)
    BY <1>3, <2>1, PosesAreApplied
  <2> QED
    BY <2>2 DEF m
<1> HIDE DEF nodes
<1>7. IsState(h) /\ h.m = g.m
  <2>1. GraphInv(ReplaceNodes(g, nodes)) /\ HasNodes(g, ReplaceNodes(g, nodes), nodes)
    BY <1>4, <1>5, ReplaceNodesReaches
  <2> QED
    BY <2>1 DEF GraphInv, HasNodes, nodes
<1>8. [h EXCEPT !.m = g.m] = h
  BY <1>7 DEF IsState
<1>9. Redrawn(g, h, nodes, fix)
  BY <1>6, <1>8 DEF nodes
<1> QED
  BY <1>2, <1>5, <1>9 DEF Redrawn, fix, nodes

\* The map timer.
LEMMA PublishMapTimerKeeps ==
    ASSUME GraphInvariant, PublishMapTimer
    PROVE  GraphInvariant'
<1> DEFINE v == view
           a == anchor
           w == PublishMap(PublishAnchor(v, a))
<1>1. ViewInv(v, a) /\ DrawnInv(v, Now) /\ StateInv(Now, input.fix)
  BY DEF GraphInvariant, PublishMapTimer
<1>2. /\ view' = w /\ anchor' = a /\ Now' = Now /\ input' = input /\ phase' = "spinning"
  BY DEF PublishMapTimer, Now
<1> HIDE DEF v, a
<1>3. ViewInv(w, a) /\ w.tf = v.tf /\ w.skip = v.skip /\ w.path = v.path /\ w.markers = v.markers
  <2> DEFINE S == [skip : BOOLEAN, drawn : {v.drawn}, dirty : BOOLEAN, tf : {v.tf},
                   path : Seq(Poses), markers : {v.markers}, anchor : {v.anchor, a}]
             Same(u) == /\ u.tf = v.tf /\ u.skip = v.skip /\ u.path = v.path
                        /\ u.markers = v.markers /\ u.drawn = v.drawn
             u1 == PublishAnchor(v, a)
  <2>1. v \in S /\ (v.anchor # None => a # None)
    BY <1>1 DEF ViewInv
  <2>2. u1 \in S /\ Same(u1) /\ (u1.anchor # None => a # None)
    BY <2>1 DEF PublishAnchor
  <2> HIDE DEF u1
  <2>3. w = [u1 EXCEPT !.dirty = FALSE]
    BY DEF PublishMap, u1
  <2> HIDE DEF w
  <2>4. w \in S /\ Same(w) /\ (w.anchor # None => a # None)
    BY <2>2, <2>3
  <2> QED
    BY <2>4 DEF ViewInv
<1>4. DrawnInv(w, Now)
  BY <1>1, <1>3 DEF DrawnInv
<1> HIDE DEF w
<1>5. DrawnInv(view, Now)'
  <2>1. DrawnInv(view, Now)' = DrawnInv(view', Now')
    OBVIOUS
  <2> QED
    BY <1>2, <1>4, <2>1
<1>6. ViewInv(view', anchor')
  BY <1>2, <1>3
<1>7. FinalMapIsTheGraph'
  BY <1>2 DEF FinalMapIsTheGraph
<1> QED
  BY <1>1, <1>2, <1>5, <1>6, <1>7 DEF GraphInvariant

\* The batch optimisation and the last drawing.
LEMMA FinalizeKeeps ==
    ASSUME GraphInvariant, NEW bend \in Bends, Finalize(bend)
    PROVE  GraphInvariant'
<1> DEFINE o == IF BatchOnFinalize THEN RunBatch(optimizer, bend) ELSE optimizer
           g == [b |-> builder, r |-> reference, l |-> loops, o |-> o, a |-> anchor, m |-> orch]
           nodes == Optimised(g)
           h == ReplaceNodes(g, nodes)
           drawn == [view EXCEPT !.drawn = nodes, !.path = RebuildPath(nodes)]
<1>1. /\ Commit(h) /\ phase' = "finalized" /\ input' = input
      /\ view' = PublishMap(PublishAnchor(drawn, anchor))
  BY DEF Finalize
<1>2. Continues(optimizer, o)
  <2>1. optimizer \in Optimizers
    BY DEF GraphInvariant, StateInv, OptimizerInv, Now
  <2>2. bend \in [from : Int, by : Int]
    BY GraphAssumption
  <2>3. Continues(optimizer, RunBatch(optimizer, bend))
    BY <2>1, <2>2, RunBatchContinues
  <2>4. Continues(optimizer, optimizer)
    BY <2>1 DEF Continues
  <2> QED
    BY <2>3, <2>4
<1> HIDE DEF o
<1>3. /\ StateInv(h, input.fix) /\ h.a = anchor
      /\ h.b.nodes = nodes /\ nodes \in Seq(Poses)
  BY <1>2, FinalIsState
<1>4. ViewInv(view, anchor)
  BY DEF GraphInvariant
<1> DEFINE v == view
           a == anchor
<1> HIDE DEF nodes, g, h
<1>5. /\ ViewInv(view', anchor) /\ view'.drawn = nodes /\ view'.path = nodes
      /\ view'.dirty = FALSE
      /\ (anchor # None <=> view'.anchor # None)
      /\ (anchor # None => SameAnchor(anchor, view'.anchor))
  <2> DEFINE Shown(b) == (a # None <=> b # None) /\ (a # None => SameAnchor(a, b))
  <2> DEFINE S == [skip : BOOLEAN, drawn : {v.drawn, nodes}, dirty : BOOLEAN, tf : {v.tf},
                   path : Seq(Poses), markers : {v.markers}, anchor : {v.anchor, a}]
             u1 == [v EXCEPT !.drawn = nodes]
             u2 == [u1 EXCEPT !.path = nodes]
             u3 == PublishAnchor(u2, a)
             w == [u3 EXCEPT !.dirty = FALSE]
  <2>1. view' = w
    BY <1>1 DEF PublishMap, RebuildPath, v, a
  <2>2. v \in S /\ (v.anchor # None => a # None)
    BY <1>4 DEF ViewInv, v, a
  <2>0. a # None => SameAnchor(a, a)
    <3>1. a # None => a.utm \in Int
      BY <1>3 DEF StateInv, Anchors, a
    <3>2. AnchorStep \in Nat
      BY GraphAssumption
    <3> QED
      BY <3>1, <3>2 DEF SameAnchor, AbsDiff
  <2> HIDE DEF v, a
  <2>3. u1 \in S /\ u1.drawn = nodes /\ u1.anchor = v.anchor
    BY <2>2
  <2> HIDE DEF u1
  <2>4. u2 \in S /\ u2.drawn = nodes /\ u2.path = nodes /\ u2.anchor = v.anchor
    BY <1>3, <2>3
  <2> HIDE DEF u2
  <2>5. u3 \in S /\ u3.drawn = nodes /\ u3.path = nodes /\ Shown(u3.anchor)
    <3>1. CASE a = None
      BY <2>2, <2>4, <3>1 DEF PublishAnchor
    <3>2. CASE a # None /\ u2.anchor # None /\ SameAnchor(a, u2.anchor)
      BY <2>4, <3>2 DEF PublishAnchor
    <3>3. CASE a # None /\ ~(u2.anchor # None /\ SameAnchor(a, u2.anchor))
      <4>1. u3 = [u2 EXCEPT !.anchor = a]
        BY <3>3 DEF PublishAnchor
      <4> QED
        BY <2>0, <2>4, <3>3, <4>1
    <3> QED
      BY <3>1, <3>2, <3>3
  <2> HIDE DEF u3
  <2>6. w \in S /\ w.drawn = nodes /\ w.path = nodes /\ Shown(w.anchor) /\ w.dirty = FALSE
    BY <2>5
  <2> HIDE DEF w
  <2>7. ViewInv(w, a)
    BY <2>6 DEF ViewInv
  <2> QED
    BY <2>1, <2>6, <2>7 DEF a
<1>6. Now' = h /\ builder' = h.b /\ anchor' = anchor
  BY <1>1, <1>3, CommittedIsNow DEF StateInv, GraphInv, Commit
<1>7. FinalMapIsTheGraph'
  BY <1>3, <1>5, <1>6 DEF FinalMapIsTheGraph
<1> QED
  BY <1>1, <1>3, <1>5, <1>6, <1>7 DEF GraphInvariant

\* Steps that leave the graph alone.
LEMMA OtherStepsKeep ==
    ASSUME GraphInvariant,
           \/ \E step \in Steps, c \in Outcomes : SkipFrame(step, c)
           \/ Terminate
           \/ UNCHANGED graphVars
    PROVE  GraphInvariant'
<1>1. /\ builder' = builder /\ reference' = reference /\ loops' = loops /\ optimizer' = optimizer
      /\ anchor' = anchor /\ orch' = orch /\ view' = view
  BY DEF SkipFrame, Terminate, graphVars
<1>2. input' \in [odom : Int, fix : Nat] /\ input'.fix = input.fix
  <2>1. input \in [odom : Int, fix : Nat]
    BY DEF GraphInvariant
  <2>2. CASE \E step \in Steps, c \in Outcomes : SkipFrame(step, c)
    <3>1. PICK step \in Steps : input' = [input EXCEPT !.odom = @ + step]
      BY <2>2 DEF SkipFrame
    <3>2. step \in Int
      BY GraphAssumption
    <3> QED
      BY <2>1, <3>1, <3>2
  <2>3. CASE input' = input
    BY <2>1, <2>3
  <2> QED
    BY <2>2, <2>3 DEF Terminate, graphVars
<1>3. phase' = phase \/ phase' = "terminated"
  BY DEF SkipFrame, Terminate, graphVars
<1>4. Now' = Now
  BY <1>1 DEF Now
<1>5. FinalMapIsTheGraph'
  BY <1>1, <1>3 DEF GraphInvariant, FinalMapIsTheGraph
<1>6. DrawnInv(view, Now)' = DrawnInv(view, Now)
  BY <1>1, <1>4
<1> QED
  BY <1>1, <1>2, <1>3, <1>4, <1>5, <1>6 DEF GraphInvariant

\* The invariant holds when the node starts.
LEMMA GraphStarts ==
    ASSUME GraphInit
    PROVE  GraphInvariant
<1>1. PICK kind \in Builders : builder = BuilderInit(kind)
  BY DEF GraphInit
<1>2. PICK gnss \in GnssModes : orch = OrchestratorInit(gnss)
  BY DEF GraphInit
<1>3. kind \in {"odom", "matching", "loop"} /\ gnss \in BOOLEAN /\ SkipModes \subseteq BOOLEAN
  BY GraphAssumption
<1>4. /\ input = [odom |-> 0, fix |-> 0] /\ reference = [window |-> <<>>, last |-> None]
      /\ loops = [cache |-> <<>>, edges |-> <<>>, tree |-> <<>>, dirty |-> TRUE]
      /\ optimizer = OptimizerInit /\ anchor = None /\ phase = "spinning"
  BY DEF GraphInit
<1>5. BuilderInv(builder) /\ builder.nodes = <<>> /\ builder.edges = <<>>
  <2>1. builder \in Builds /\ builder.nodes = <<>> /\ builder.edges = <<>>
    BY <1>1, <1>3 DEF BuilderInit, Builds
  <2>2. Range(builder.edges) = {}
    BY <2>1 DEF Range
  <2> QED
    BY <2>1, <2>2 DEF BuilderInv
<1>6. LoopsInv(builder, loops) /\ loops.edges = <<>>
  <2>1. loops \in Closings /\ Range(loops.edges) = {}
    BY <1>4 DEF Closings, Range
  <2> QED
    BY <1>4, <1>5, <2>1 DEF LoopsInv
<1>7. ReferenceInv(builder.nodes, reference)
  BY <1>4 DEF ReferenceInv
<1>8. GraphInv(Now)
  <2>1. IsState(Now)
    BY DEF Now, IsState
  <2> QED
    BY <1>5, <1>6, <1>7, <2>1 DEF GraphInv, Now
<1>9. /\ IsOrchestrator(orch) /\ orch.useGnss = gnss
      /\ orch.state = (IF gnss THEN "INITIALIZING" ELSE "RUNNING")
      /\ orch.initialized = FALSE /\ orch.lastTs = 0 /\ orch.lastLoops = 0
  BY <1>2, <1>3 DEF OrchestratorInit, IsOrchestrator
<1>10. ModeInv(Len(builder.nodes), orch) /\ FramesInv(builder.nodes, orch)
  BY <1>3, <1>5, <1>9 DEF ModeInv, FramesInv
<1>11. OptimizerInv(Len(builder.nodes), AllEdges(builder, loops), Len(loops.edges), optimizer, orch)
  <2>1. OptimizerInit \in Optimizers /\ OptimizerInit.init = FALSE
    <3>1. Empty \in PoseMaps
      <4>1. Empty \in [{} -> MapPoses] /\ {} \in SUBSET Nat
        BY DEF Empty
      <4> QED
        BY <4>1 DEF PoseMaps
    <3> QED
      BY <3>1 DEF OptimizerInit, Optimizers
  <2> QED
    BY <1>4, <1>9, <2>1 DEF OptimizerInv
<1>12. FixesInv(optimizer, orch, input.fix)
  BY <1>4, <1>9 DEF FixesInv, OptimizerInit
<1>13. StateInv(Now, input.fix)
  BY <1>4, <1>8, <1>10, <1>11, <1>12 DEF StateInv, Now, Anchors
<1>14. ViewInv(view, anchor) /\ view.path = <<>>
       /\ view.markers.seq = <<>> /\ view.markers.loop = <<>>
  <2>1. PICK skip \in SkipModes :
          view = [skip |-> skip, drawn |-> Empty, dirty |-> FALSE, tf |-> 0, path |-> <<>>,
                  markers |-> [seq |-> <<>>, loop |-> <<>>], anchor |-> None]
    BY DEF GraphInit
  <2>2. skip \in BOOLEAN
    BY <1>3
  <2> QED
    BY <2>1, <2>2 DEF ViewInv
<1>15. DrawnInv(view, Now)
  <2>1. Len(AllEdges(builder, loops)) = 0
    <3>1. AllEdges(builder, loops) = <<>>
      BY <1>5, <1>6 DEF AllEdges
    <3> QED
      BY <3>1
  <2>2. /\ Len(view.path) = 0 /\ Len(builder.nodes) = 0
        /\ Len(view.markers.seq) = 0 /\ Len(view.markers.loop) = 0
    BY <1>5, <1>14
  <2>3. /\ Now.b.nodes = <<>> /\ Len(Now.b.nodes) = 0 /\ Len(AllEdges(Now.b, Now.l)) = 0
    BY <1>5, <2>1, <2>2 DEF Now
  <2> QED
    BY <2>2, <2>3 DEF DrawnInv
<1> QED
  BY <1>4, <1>13, <1>14, <1>15 DEF GraphInvariant, FinalMapIsTheGraph

\* Graph, copies, optimiser and drawing stay consistent in every frame, after
\* every interrupted frame and at the end of the run.
THEOREM GraphInvariance == GraphSpec => []GraphInvariant
<1>1. GraphInit => GraphInvariant
  BY GraphStarts
<1>2. GraphInvariant /\ [GraphNext]_graphVars => GraphInvariant'
  <2> SUFFICES ASSUME GraphInvariant, [GraphNext]_graphVars
               PROVE  GraphInvariant'
    OBVIOUS
  <2>1. CASE \E step \in Steps, c \in Outcomes : SkipFrame(step, c)
    BY <2>1, OtherStepsKeep
  <2>2. ASSUME NEW step \in Steps, NEW c \in Outcomes, InitializingFrame(step, c)
        PROVE  GraphInvariant'
    BY <2>2, InitializingFrameKeeps
  <2>3. ASSUME NEW step \in Steps, NEW c \in Outcomes, RunningFrame(step, c)
        PROVE  GraphInvariant'
    BY <2>3, RunningFrameKeeps
  <2>4. ASSUME NEW step \in Steps, NEW c \in Outcomes, FailingFrame(step, c)
        PROVE  GraphInvariant'
    BY <2>4, FailingFrameKeeps
  <2>5. CASE PublishMapTimer
    BY <2>5, PublishMapTimerKeeps
  <2>6. ASSUME NEW bend \in Bends, Finalize(bend)
        PROVE  GraphInvariant'
    BY <2>6, FinalizeKeeps
  <2>7. CASE Terminate
    BY <2>7, OtherStepsKeep
  <2>8. CASE UNCHANGED graphVars
    BY <2>8, OtherStepsKeep
  <2> QED
    BY <2>1, <2>2, <2>3, <2>4, <2>5, <2>6, <2>7, <2>8 DEF GraphNext
<1> QED
  BY <1>1, <1>2, PTL DEF GraphSpec

\* Every edge is a factor of the optimiser exactly once, no fix constrains two
\* keyframes, and gtsam never sees a variable twice or one it does not know.
THEOREM EveryFactorOnce == GraphSpec => []FactorsAreUsedOnce
<1>1. GraphInvariant => FactorsAreUsedOnce
  <2> SUFFICES ASSUME GraphInvariant PROVE FactorsAreUsedOnce
    OBVIOUS
  <2>1. /\ OptimizerInv(Len(builder.nodes), AllEdges(builder, loops), Len(loops.edges), optimizer, orch)
        /\ FixesInv(optimizer, orch, input.fix)
    BY DEF GraphInvariant, StateInv, Now
  <2>2. EdgesAreOptimisedOnce
    <3> SUFFICES ASSUME orch.initialized
                 PROVE  /\ Len(optimizer.geom) = Len(AllEdges(builder, loops))
                        /\ Range(optimizer.geom) = Range(AllEdges(builder, loops))
      BY DEF EdgesAreOptimisedOnce
    <3> QED
      BY <2>1 DEF OptimizerInv, HasFactors
  <2>3. FixesAreUsedOnce
    BY <2>1 DEF FixesInv, FixesAreUsedOnce
  <2>4. OptimizerIsWellPosed
    BY DEF GraphInvariant, OptimizerIsWellPosed
  <2> QED
    BY <2>2, <2>3, <2>4 DEF FactorsAreUsedOnce
<1> QED
  BY <1>1, GraphInvariance, PTL

\* The copies of the keyframes, map -> odom, the path and the markers follow the
\* graph, whichever builder runs and however often it is re-anchored.
THEOREM CopiesFollowGraph == GraphSpec => []CachesFollowGraph
<1>1. GraphInvariant => CachesFollowGraph
  <2> SUFFICES ASSUME GraphInvariant PROVE CachesFollowGraph
    OBVIOUS
  <2>1. /\ LoopsInv(builder, loops) /\ ReferenceInv(builder.nodes, reference)
        /\ FramesInv(builder.nodes, orch) /\ builder.nodes \in Seq(Poses)
    <3>1. GraphInv(Now) /\ Now.b = builder /\ Now.l = loops /\ Now.r = reference /\ Now.m = orch
      BY DEF GraphInvariant, StateInv, Now
    <3>2. FramesInv(Now.b.nodes, Now.m)
      BY DEF GraphInvariant, StateInv
    <3> QED
      BY <3>1, <3>2, EdgesAreInside DEF GraphInv
  <2>2. phase = "spinning" =>
          /\ builder.nodes # <<>> => view.tf = Last1(builder.nodes).x - builder.lastOdom
          /\ ~view.skip =>
               /\ Len(view.path) = Len(builder.nodes)
               /\ Len(view.markers.seq) + Len(view.markers.loop) = Len(AllEdges(builder, loops))
    BY DEF GraphInvariant, DrawnInv, Now
  <2>3. /\ builder.kind = "loop" => loops.cache = builder.nodes
        /\ ~loops.dirty => loops.tree = loops.cache
    BY <2>1 DEF LoopsInv
  <2>4. \A k \in DOMAIN reference.window : reference.window[k].p = builder.nodes[reference.window[k].i]
    BY <2>1 DEF ReferenceInv
  <2>5. orch.state = "RUNNING" => \A p \in Range(builder.nodes) : p.frame = "map"
    BY <2>1 DEF FramesInv, Range
  <2> QED
    BY <2>2, <2>3, <2>4, <2>5 DEF CachesFollowGraph
<1> QED
  BY <1>1, GraphInvariance, PTL

\* A finalised run has drawn and published the graph as it finally is.
THEOREM FinalMapIsPublished == GraphSpec => []FinalMapIsTheGraph
<1>1. GraphInvariant => FinalMapIsTheGraph
  BY DEF GraphInvariant
<1> QED
  BY <1>1, GraphInvariance, PTL

-----------------------------------------------------------------------------
(***************************************************************************)
(* slam_gnss_nav_bridge_node.  The two reference points (of the heading    *)
(* and of the publications) stay the same because whatever has a heading   *)
(* has published: HeadingInv.                                              *)
(***************************************************************************)

Headings == -HalfTurn .. HalfTurn

HeadingInv ==
    /\ lastMap \in Positions \cup {NoValue} /\ lastPub \in Positions \cup {NoValue}
    /\ lastHeading \in Headings \cup {NoValue}
    /\ lastPub # NoValue => lastPub = lastMap
    /\ lastPub = NoValue => lastHeading = NoValue
    /\ gpsOdom # NoValue => 2 * (gpsOdom.variance - LeverVariance) <= MaxVariance

\* what a publication owes to the position published before it
Lags(before) ==
    enabled /\ before # NoValue =>
       /\ gpsOdom'.x = lastPub'
       /\ 100 * Between(Direction[before, lastPub'], gpsOdom'.heading)
            < (100 - Alpha) * HalfTurn + 100

\* A variance that passes the quality gate is within the accepted one.
LEMMA VarianceIsAccepted ==
    ASSUME NEW carrier \in DOMAIN Floor, NEW hacc \in Accuracies,
           PositionVariance(carrier, hacc) # NoValue
    PROVE  /\ PositionVariance(carrier, hacc) \in Int
           /\ 2 * PositionVariance(carrier, hacc) <= MaxVariance
<1> DEFINE sigma == IF hacc > Floor[carrier] THEN hacc ELSE Floor[carrier]
           variance == sigma * sigma * Scale[carrier]
<1>1. sigma \in Int /\ Scale[carrier] \in Int
  BY BridgeAssumption
<1>2. PositionVariance(carrier, hacc) = variance /\ ~(variance * 2 > MaxVariance)
  BY DEF PositionVariance
<1> HIDE DEF sigma
<1>3. variance \in Int
  BY <1>1
<1> HIDE DEF variance
<1> QED
  BY <1>2, <1>3, BridgeAssumption

\* A fraction of an angle, rounded down, lies between none of it and all of it,
\* and is short of it by no more than the rest of half a turn and one.
LEMMA FractionFallsShort ==
    ASSUME NEW angle \in Headings, NEW part, part = (Alpha * angle) \div 100
    PROVE  /\ part \in Int
           /\ angle >= 0 => 0 <= part /\ part <= angle
           /\ angle <= 0 => angle <= part /\ part <= 0
           /\ 100 * (angle - part) < (100 - Alpha) * HalfTurn + 100
           /\ 100 * (part - angle) < (100 - Alpha) * HalfTurn + 100
<1> DEFINE remains == 100 - Alpha
           product == Alpha * angle
           rest == remains * angle
           whole == remains * HalfTurn
<1>1. /\ HalfTurn \in Nat /\ Alpha \in Nat /\ remains \in Nat
      /\ angle \in Int /\ -HalfTurn <= angle /\ angle <= HalfTurn
  BY BridgeAssumption DEF Headings
<1>2. product \in Int /\ rest \in Int /\ whole \in Int /\ product + rest = 100 * angle
  BY <1>1
<1>3. part \in Int /\ 100 * part <= product /\ product < 100 * part + 100
  BY <1>2
<1> HIDE DEF remains
<1>4. -whole <= rest /\ rest <= whole
  <2> DEFINE l == HalfTurn - angle
             r == HalfTurn + angle
  <2>1. l \in Nat /\ r \in Nat
    BY <1>1
  <2>2. remains * l = whole - rest /\ remains * r = whole + rest
    BY <1>1
  <2> HIDE DEF l, r
  <2>3. remains * l >= 0 /\ remains * r >= 0
    BY <1>1, <2>1
  <2> HIDE DEF whole, rest
  <2> QED
    BY <1>2, <2>2, <2>3
<1>5. (angle >= 0 => product >= 0 /\ rest >= 0) /\ (angle <= 0 => product <= 0 /\ rest <= 0)
  <2>1. ASSUME angle >= 0 PROVE product >= 0 /\ rest >= 0
    BY <1>1, <2>1
  <2>2. ASSUME angle <= 0 PROVE product <= 0 /\ rest <= 0
    <3> DEFINE n == -angle
    <3>1. n \in Nat /\ Alpha * n = -product /\ remains * n = -rest
      BY <1>1, <2>2
    <3> HIDE DEF n
    <3>2. Alpha * n >= 0 /\ remains * n >= 0
      BY <1>1, <3>1
    <3> HIDE DEF product, rest
    <3> QED
      BY <1>2, <3>1, <3>2
  <2> HIDE DEF product, rest
  <2> QED
    BY <2>1, <2>2
<1> HIDE DEF product, rest, whole
<1>6. /\ angle >= 0 => 0 <= part /\ part <= angle
      /\ angle <= 0 => angle <= part /\ part <= 0
  BY <1>1, <1>2, <1>3, <1>5
<1>7. 100 * (angle - part) < whole + 100 /\ 100 * (part - angle) < whole + 100
  BY <1>1, <1>2, <1>3, <1>4, <1>5
<1> QED
  BY <1>3, <1>6, <1>7 DEF whole, remains

\* The smoothed heading lags behind the new direction by the part that the
\* smoothing leaves, whichever way round the circle is shorter.
LEMMA SmoothedFollows ==
    ASSUME NEW heading \in Headings \cup {NoValue}, NEW new \in Headings
    PROVE  /\ Smoothed(heading, new) \in Headings
           /\ 100 * Between(new, Smoothed(heading, new)) < (100 - Alpha) * HalfTurn + 100
<1> DEFINE whole == (100 - Alpha) * HalfTurn
<1>1. HalfTurn \in Nat \ {0} /\ new \in Int /\ -HalfTurn <= new /\ new <= HalfTurn
  BY BridgeAssumption DEF Headings
<1>2. whole \in Nat
  <2> DEFINE remains == 100 - Alpha
  <2>1. remains \in Nat
    BY BridgeAssumption
  <2> HIDE DEF remains
  <2>2. remains * HalfTurn \in Nat
    BY <1>1, <2>1
  <2> QED
    BY <2>2 DEF remains
<1>3. CASE heading = NoValue
  <2>1. Smoothed(heading, new) = new
    BY <1>3 DEF Smoothed
  <2>2. Between(new, new) = 0
    BY <1>1 DEF Between, Remainder
  <2> HIDE DEF whole
  <2>3. 100 * 0 < whole + 100
    BY <1>2
  <2> QED
    BY <2>1, <2>2, <2>3 DEF whole
<1>4. CASE heading # NoValue
  <2> DEFINE angle == Remainder(new - heading)
             part == (Alpha * angle) \div 100
             smooth == Remainder(heading + part)
  <2>1. heading \in Int /\ -HalfTurn <= heading /\ heading <= HalfTurn
    BY <1>4, <1>1 DEF Headings
  <2>2. /\ angle \in Int /\ -HalfTurn <= angle /\ angle <= HalfTurn
        /\ \E j \in {-1, 0, 1} : new = heading + angle + j * (2 * HalfTurn)
    BY <1>1, <2>1 DEF Remainder
  <2>3. Smoothed(heading, new) = smooth
    BY <1>4 DEF Smoothed
  <2> HIDE DEF angle
  <2>4. /\ part \in Int
        /\ angle >= 0 => 0 <= part /\ part <= angle
        /\ angle <= 0 => angle <= part /\ part <= 0
        /\ 100 * (angle - part) < whole + 100 /\ 100 * (part - angle) < whole + 100
    BY <1>1, <2>2, FractionFallsShort DEF Headings
  <2> HIDE DEF part, whole
  <2>5. /\ smooth \in Int /\ -HalfTurn <= smooth /\ smooth <= HalfTurn
        /\ \E j \in {-1, 0, 1} : smooth = heading + part + j * (2 * HalfTurn)
    BY <1>1, <2>1, <2>2, <2>4 DEF Remainder
  <2> HIDE DEF smooth
  <2>6. Between(new, smooth) = angle - part \/ Between(new, smooth) = part - angle
    <3>1. PICK j \in {-1, 0, 1}, k \in {-1, 0, 1} :
             /\ new = heading + angle + j * (2 * HalfTurn)
             /\ smooth = heading + part + k * (2 * HalfTurn)
      BY <2>2, <2>5
    <3>2. \E i \in {-2, -1, 0, 1, 2} : new - smooth = (angle - part) + i * (2 * HalfTurn)
      BY <1>1, <2>1, <2>2, <2>4, <3>1
    <3>3. -HalfTurn <= angle - part /\ angle - part <= HalfTurn
      BY <1>1, <2>2, <2>4
    <3> DEFINE lag == angle - part
               turn == new - smooth
    <3>4. lag \in Int /\ turn \in Int /\ -2 * HalfTurn <= turn /\ turn <= 2 * HalfTurn
      BY <1>1, <2>2, <2>4, <2>5
    <3>5. -HalfTurn <= lag /\ lag <= HalfTurn /\ \E i \in {-2, -1, 0, 1, 2} : turn = lag + i * (2 * HalfTurn)
      BY <3>2, <3>3
    <3> HIDE DEF lag, turn
    <3>6. Remainder(turn) = lag \/ Remainder(turn) = -lag
      BY <1>1, <3>4, <3>5 DEF Remainder
    <3>7. Between(new, smooth) = lag \/ Between(new, smooth) = -lag
      BY <3>4, <3>6 DEF Between, turn
    <3> QED
      BY <2>2, <2>4, <3>7 DEF lag
  <2> QED
    BY <1>1, <2>3, <2>4, <2>5, <2>6 DEF whole, Headings
<1> QED
  BY <1>3, <1>4

\* What is published of an accepted variance is within the bound of the EKF.
LEMMA PublishedIsAccepted ==
    ASSUME gpsOdom # NoValue => 2 * (gpsOdom.variance - LeverVariance) <= MaxVariance,
           NEW x, NEW heading, NEW v \in Int, 2 * v <= MaxVariance, NEW yawKnown \in BOOLEAN,
           PublishOdom(x, heading, v, yawKnown)
    PROVE  gpsOdom' # NoValue => 2 * (gpsOdom'.variance - LeverVariance) <= MaxVariance
<1>1. gpsOdom' = gpsOdom \/ gpsOdom'.variance = v \/ gpsOdom'.variance = v + LeverVariance
  <2>1. CASE ~enabled
    BY <2>1 DEF PublishOdom
  <2>2. CASE enabled /\ Compensates /\ ~yawKnown
    BY <2>2 DEF PublishOdom
  <2>3. CASE enabled /\ ~(Compensates /\ ~yawKnown)
    BY <2>3 DEF PublishOdom
  <2> QED
    BY <2>1, <2>2, <2>3
<1>2. /\ LeverVariance \in Nat /\ MaxVariance \in Nat
      /\ 2 * (v - LeverVariance) <= MaxVariance /\ 2 * (v + LeverVariance - LeverVariance) <= MaxVariance
  BY BridgeAssumption
<1> QED
  BY <1>1, <1>2

\* A fix that is far enough to be published is far enough to move the heading.
LEMMA UseFixKeepsInv ==
    ASSUME HeadingInv, NEW x \in Positions, NEW v \in Int, 2 * v <= MaxVariance,
           NEW yawKnown \in BOOLEAN,
           UseFix(x, v, HeadingUpdate(x).heading, HeadingUpdate(x).map, yawKnown)
    PROVE  HeadingInv' /\ (lastPub' # lastPub => Lags(lastPub))
<1> DEFINE u == HeadingUpdate(x)
<1>0. /\ x \in Int \X Int /\ x # NoValue
      /\ LeverVariance \in Nat /\ MaxVariance \in Nat
      /\ \A p \in Positions : Direction[p, x] \in Headings
      /\ \A h \in Headings : h # NoValue
  <2>1. x \in Int \X Int /\ x # NoValue /\ LeverVariance \in Nat /\ MaxVariance \in Nat
    BY BridgeAssumption
  <2>2. ASSUME NEW p \in Positions PROVE Direction[p, x] \in Headings
    <3>1. <<p, x>> \in Positions \X Positions
      OBVIOUS
    <3> QED
      BY <3>1, BridgeAssumption DEF Headings
  <2>3. ASSUME NEW h \in Headings PROVE h # NoValue
    BY BridgeAssumption DEF Headings
  <2> QED
    BY <2>1, <2>2, <2>3
<1>1. CASE lastPub # NoValue /\ Within(x, lastPub, MinPub)
  BY <1>1 DEF UseFix, HeadingInv
<1>2. CASE ~(lastPub # NoValue /\ Within(x, lastPub, MinPub))
  <2>1. /\ lastMap' = u.map /\ lastHeading' = u.heading
        /\ \/ u.heading = NoValue /\ UNCHANGED <<lastPub, gpsOdom>>
           \/ u.heading # NoValue /\ lastPub' = x /\ PublishOdom(x, u.heading, v, yawKnown)
    BY <1>2 DEF UseFix
  <2>2. u.map \in Positions \cup {NoValue} /\ u.heading \in Headings \cup {NoValue}
    <3>1. lastMap # NoValue => Smoothed(lastHeading, Direction[lastMap, x]) \in Headings
      BY <1>0, SmoothedFollows DEF HeadingInv
    <3> QED
      BY <3>1 DEF HeadingUpdate, HeadingInv
  <2>3. CASE lastPub = NoValue
    <3>1. u.heading # NoValue => u.map = x
      BY <2>3, BridgeAssumption DEF HeadingUpdate, HeadingInv
    <3> HIDE DEF u
    <3>2. gpsOdom' # NoValue => 2 * (gpsOdom'.variance - LeverVariance) <= MaxVariance
      BY <2>1, PublishedIsAccepted, <1>0 DEF HeadingInv
    <3>3. HeadingInv'
      <4>1. CASE u.heading = NoValue /\ lastPub' = lastPub
        BY <2>1, <2>2, <2>3, <3>2, <4>1 DEF HeadingInv
      <4>2. CASE u.heading # NoValue /\ lastPub' = x
        BY <2>1, <2>2, <3>1, <3>2, <1>0, <4>2 DEF HeadingInv
      <4> QED
        BY <2>1, <4>1, <4>2
    <3> QED
      BY <2>3, <3>3 DEF Lags
  <2>4. CASE lastPub # NoValue
    <3>1. lastMap = lastPub /\ lastPub \in Positions /\ lastPub \in Int \X Int
      BY <2>4, BridgeAssumption DEF HeadingInv
    <3>2. ~Within(x, lastMap, HeadingMin)
      <4>1. HeadingMin * HeadingMin <= MinPub * MinPub
        BY DistancesAssumption
      <4>2. Apart(x, lastPub) \in Int
        <5>1. x[1] \in Int /\ x[2] \in Int /\ lastPub[1] \in Int /\ lastPub[2] \in Int
          BY <1>0, <3>1
        <5> DEFINE dx == x[1] - lastPub[1]
                   dy == x[2] - lastPub[2]
        <5>2. dx \in Int /\ dy \in Int
          BY <5>1
        <5> HIDE DEF dx, dy
        <5>3. dx * dx \in Int /\ dy * dy \in Int
          BY <5>2
        <5> QED
          BY <5>3 DEF Apart, dx, dy
      <4>3. ~(Apart(x, lastPub) < MinPub * MinPub)
        BY <1>2, <2>4 DEF Within
      <4>4. HeadingMin * HeadingMin \in Int /\ MinPub * MinPub \in Int
        BY DistancesAssumption
      <4> QED
        BY <3>1, <4>1, <4>2, <4>3, <4>4 DEF Within
    <3>3. u.map = x /\ u.heading = Smoothed(lastHeading, Direction[lastPub, x])
      BY <1>0, <2>4, <3>1, <3>2 DEF HeadingUpdate
    <3> HIDE DEF u
    <3>4. /\ u.heading \in Headings
          /\ 100 * Between(Direction[lastPub, x], u.heading) < (100 - Alpha) * HalfTurn + 100
      BY <1>0, <3>1, <3>3, SmoothedFollows DEF HeadingInv
    <3>5. lastPub' = x /\ PublishOdom(x, u.heading, v, yawKnown)
      BY <1>0, <2>1, <3>4
    <3>5a. gpsOdom' # NoValue => 2 * (gpsOdom'.variance - LeverVariance) <= MaxVariance
      BY <3>5, PublishedIsAccepted, <1>0 DEF HeadingInv
    <3>6. HeadingInv'
      BY <2>1, <3>3, <3>4, <3>5, <3>5a, <1>0 DEF HeadingInv
    <3>7. Lags(lastPub)
      BY <3>4, <3>5 DEF Lags, PublishOdom
    <3> QED
      BY <3>6, <3>7
  <2> QED
    BY <2>3, <2>4
<1> QED
  BY <1>1, <1>2

\* A heading sent with a position has followed the way from the position used
\* before it up to the smoothing, the two reference points of
\* slam_gnss_nav_bridge_node.cpp stay one, and no variance worse than the
\* accepted one is sent, for any fixes in any order, dropped ones and
\* switched-off publishing included.
THEOREM HeadingStaysCurrent == BridgeSpec => HeadingIsCurrent
<1>1. BridgeInit => HeadingInv
  BY DEF BridgeInit, HeadingInv
<1>2. HeadingInv /\ [BridgeNext]_bridgeVars => HeadingInv' /\ (lastPub' # lastPub => Lags(lastPub))
  <2> SUFFICES ASSUME HeadingInv, [BridgeNext]_bridgeVars
               PROVE  HeadingInv' /\ (lastPub' # lastPub => Lags(lastPub))
    OBVIOUS
  <2>1. ASSUME UNCHANGED <<lastMap, lastHeading, lastPub, gpsOdom>>
        PROVE  HeadingInv' /\ lastPub' = lastPub
    BY <2>1 DEF HeadingInv
  <2>2. ASSUME NEW ok \in BOOLEAN, NEW c \in DOMAIN Floor, NEW h \in Accuracies,
               NEW x \in Positions, NEW y \in BOOLEAN, OnNavpvt(ok, c, h, x, y)
        PROVE  HeadingInv' /\ (lastPub' # lastPub => Lags(lastPub))
    <3>1. CASE ~ok \/ PositionVariance(c, h) = NoValue
      BY <2>1, <2>2, <3>1 DEF OnNavpvt
    <3>2. CASE ~(~ok \/ PositionVariance(c, h) = NoValue)
      BY <2>2, <3>2, VarianceIsAccepted, UseFixKeepsInv DEF OnNavpvt
    <3> QED
      BY <3>1, <3>2
  <2>3. ASSUME NEW st \in {-1, 0, 2}, NEW h \in Accuracies, NEW x \in Positions,
               NEW y \in BOOLEAN, OnNavsatfix(st, h, x, y)
        PROVE  HeadingInv' /\ (lastPub' # lastPub => Lags(lastPub))
    <3> DEFINE c == IF st >= 2 THEN "fixed" ELSE "single"
    <3>0. c \in DOMAIN Floor
      BY BridgeAssumption
    <3>1. CASE st < 0 \/ PositionVariance(c, h) = NoValue
      BY <2>1, <2>3, <3>1 DEF OnNavsatfix
    <3>2. CASE ~(st < 0 \/ PositionVariance(c, h) = NoValue)
      <4>1. UseFix(x, PositionVariance(c, h), HeadingUpdate(x).heading, HeadingUpdate(x).map, y)
        BY <2>3, <3>2 DEF OnNavsatfix
      <4> HIDE DEF c
      <4> QED
        BY <3>0, <3>2, <4>1, VarianceIsAccepted, UseFixKeepsInv
    <3> QED
      BY <3>1, <3>2
  <2>4. ASSUME NEW on, ChangePublishState(on) PROVE HeadingInv' /\ lastPub' = lastPub
    BY <2>1, <2>4 DEF ChangePublishState
  <2>5. CASE CheckAdoption \/ UNCHANGED bridgeVars
    BY <2>1, <2>5 DEF CheckAdoption, bridgeVars
  <2> QED
    BY <2>2, <2>3, <2>4, <2>5 DEF BridgeNext
<1>3. (lastPub' # lastPub => Lags(lastPub)) =>
         (enabled /\ lastPub # NoValue /\ lastPub' # lastPub =>
            /\ gpsOdom'.x = lastPub'
            /\ 100 * Between(Direction[lastPub, lastPub'], gpsOdom'.heading)
                 < (100 - Alpha) * HalfTurn + 100)
  BY DEF Lags
<1>4. HeadingInv => /\ lastPub # NoValue => lastPub = lastMap
                    /\ gpsOdom # NoValue => 2 * (gpsOdom.variance - LeverVariance) <= MaxVariance
  BY DEF HeadingInv
<1> QED
  BY <1>1, <1>2, <1>3, <1>4, PTL DEF BridgeSpec, HeadingIsCurrent

-----------------------------------------------------------------------------
(***************************************************************************)
(* The saved map.  The invariant says what is on the disk in terms of what *)
(* was really there, and what the command has heard from the service.      *)
(***************************************************************************)

FileEdge == [from : Int, to : Int, loop : BOOLEAN]

SlamType ==
    slam \in [up : BOOLEAN, session : Nat, nodes : Nat, edges : Seq(FileEdge),
              anchor : BOOLEAN, map : SUBSET RenderedMaps]

CliType ==
    cli \in [at : {"off", "called", "answered", "map", "exit0", "exit1"}, calls : Nat,
             pending : Nat, answer : {"none", "saved", "failed"}]

\* At most one map is published, and at most one grid was written: the image.
ImageIsTheGrid ==
    /\ history.grid \in SUBSET RenderedMaps
    /\ \A g, h \in slam.map : g = h
    /\ \A g, h \in history.grid : g = h
    /\ disk.image = {SaveOccupancyGrid(g) : g \in history.grid}

\* The pose graph file is the graph saved last, or nothing that parses.
GraphIsTheSaved ==
    /\ \A g \in history.saved : g.edges \in Seq(FileEdge)
    /\ \A shown \in disk.graph :
         shown = BrokenGraph \/ \E g \in history.saved : shown = SavedForm(g)

\* The command believes in an answer only after one, and nobody answers it twice.
AnswerIsReal ==
    /\ cli.at \in {"answered", "map", "exit0"} => cli.pending = 0
    /\ cli.at = "answered" /\ cli.answer = "saved" => history.answered
    /\ cli.at \in {"map", "exit0"} => history.answered

FilesType ==
    /\ SlamType /\ CliType
    /\ disk = [graph |-> disk.graph, transform |-> disk.transform, image |-> disk.image]
    /\ history = [saved |-> history.saved, grid |-> history.grid,
                  answered |-> history.answered]

FilesInv == FilesType /\ ImageIsTheGrid /\ GraphIsTheSaved /\ AnswerIsReal

\* It holds before anything was saved.
LEMMA FilesInitially == FilesInit => FilesInv
<1> SUFFICES ASSUME FilesInit PROVE FilesInv
  OBVIOUS
<1>1. SlamType
  <2>1. <<>> \in Seq(FileEdge)
    OBVIOUS
  <2> QED
    BY <2>1 DEF FilesInit, SlamType, Absent
<1>2. FilesType
  BY <1>1 DEF FilesInit, FilesType, CliType
<1>3. ImageIsTheGrid
  BY DEF FilesInit, ImageIsTheGrid, Absent
<1>4. GraphIsTheSaved /\ AnswerIsReal
  BY DEF FilesInit, GraphIsTheSaved, AnswerIsReal, Absent
<1> QED
  BY <1>2, <1>3, <1>4 DEF FilesInv

\* The links and loops of a keyframe are edges.
LEMMA ExtrasAreEdges ==
    ASSUME slam.nodes \in Nat, NEW extra \in Extras
    PROVE  extra \in Seq(FileEdge)
<1> DEFINE e(older, loop) == [from |-> older, to |-> slam.nodes, loop |-> loop]
<1>1. \A i \in 0 .. slam.nodes - 2, loop \in BOOLEAN : e(i, loop) \in FileEdge
  BY DEF FileEdge
<1>2. extra = <<>> \/ \E i \in 0 .. slam.nodes - 2 :
        extra \in {<<e(i, FALSE)>>, <<e(i, TRUE)>>, <<e(i, FALSE), e(i, TRUE)>>}
  BY DEF Extras
<1> HIDE DEF e
<1>3. CASE extra = <<>>
  BY <1>3
<1>4. ASSUME NEW i \in 0 .. slam.nodes - 2,
             extra \in {<<e(i, FALSE)>>, <<e(i, TRUE)>>, <<e(i, FALSE), e(i, TRUE)>>}
      PROVE  extra \in Seq(FileEdge)
  <2>1. PICK x \in FileEdge, y \in FileEdge : extra = <<x>> \/ extra = <<y>> \/ extra = <<x, y>>
    <3>1. e(i, FALSE) \in FileEdge /\ e(i, TRUE) \in FileEdge
      BY <1>1
    <3> QED
      BY <1>4, <3>1
  <2>2. <<x>> \in Seq(FileEdge) /\ <<y>> \in Seq(FileEdge) /\ <<x, y>> \in Seq(FileEdge)
    BY <2>1
  <2> QED
    BY <2>1, <2>2
<1> QED
  BY <1>2, <1>3, <1>4

\* The invariant survives what the SLAM node does apart from saving.
LEMMA SlamKeepsInv ==
    ASSUME FilesInv, UNCHANGED <<disk, history>>, SlamType', CliType',
           slam'.map = slam.map \/ (\A g, h \in slam'.map : g = h),
           cli'.at = cli.at, cli'.answer = cli.answer, cli'.pending \in {0, cli.pending}
    PROVE  FilesInv'
<1>1. FilesType'
  BY DEF FilesInv, FilesType
<1>2. ImageIsTheGrid'
  BY DEF FilesInv, ImageIsTheGrid
<1>3. GraphIsTheSaved'
  BY DEF FilesInv, GraphIsTheSaved
<1>4. AnswerIsReal'
  BY DEF FilesInv, AnswerIsReal
<1> QED
  BY <1>1, <1>2, <1>3, <1>4 DEF FilesInv

\* Saving keeps it: what is written is the graph, and only a call that still
\* waits is answered.
LEMMA HandleSaveKeepsInv ==
    ASSUME FilesInv, NEW directory \in BOOLEAN,
           NEW stream \in {"written", "truncated", "closed"}, HandleSave(directory, stream)
    PROVE  FilesInv'
<1> DEFINE answered(word) ==
             IF cli.at = "called" /\ cli.pending = 1
             THEN [cli EXCEPT !.at = "answered", !.pending = 0, !.answer = word]
             ELSE [cli EXCEPT !.pending = @ - 1]
<1>1. SlamType /\ CliType /\ cli.pending > 0 /\ UNCHANGED slam
  BY DEF FilesInv, FilesType, HandleSave
<1>2. cli.at \notin {"answered", "map", "exit0"} /\ cli.pending \in Nat /\ cli.pending - 1 \in Nat
  <2>1. cli.pending \in Nat
    BY <1>1 DEF CliType
  <2>2. cli.pending # 0 /\ cli.pending - 1 \in Nat
    BY <1>1, <2>1
  <2> QED
    BY <2>1, <2>2 DEF FilesInv, AnswerIsReal
<1>3. ASSUME NEW word \in {"saved", "failed"}, cli' = answered(word)
      PROVE  /\ CliType'
             /\ cli'.at \notin {"map", "exit0"}
             /\ cli'.at = "answered" => cli'.pending = 0 /\ cli'.answer = word
  <2>1. CASE cli.at = "called" /\ cli.pending = 1
    BY <1>1, <1>3, <2>1 DEF CliType
  <2>2. CASE ~(cli.at = "called" /\ cli.pending = 1)
    <3>1. cli' = [cli EXCEPT !.pending = cli.pending - 1]
      BY <1>3, <2>2
    <3>2. cli'.at = cli.at /\ CliType'
      BY <1>1, <1>2, <3>1 DEF CliType
    <3> QED
      BY <1>2, <3>2
  <2> QED
    BY <2>1, <2>2
<1> HIDE DEF answered
<1>4. CASE directory
  <2>1. /\ disk' = [disk EXCEPT
             !.graph = CASE stream = "written"   -> {SavePoseGraph}
                         [] stream = "truncated" -> {BrokenGraph}
                         [] stream = "closed"    -> disk.graph,
             !.transform = IF slam.anchor THEN SaveGnssTransform ELSE disk.transform]
        /\ cli' = answered("saved")
        /\ history' = [history EXCEPT
             !.saved = IF stream = "written"
                       THEN {[nodes |-> slam.nodes, edges |-> slam.edges]} ELSE history.saved,
             !.answered = cli'.at = "answered"]
    BY <1>4 DEF HandleSave, answered
  <2>2. /\ disk'.image = disk.image /\ history'.grid = history.grid
        /\ disk'.graph = CASE stream = "written"   -> {SavePoseGraph}
                           [] stream = "truncated" -> {BrokenGraph}
                           [] stream = "closed"    -> disk.graph
        /\ history'.saved = IF stream = "written"
                            THEN {[nodes |-> slam.nodes, edges |-> slam.edges]}
                            ELSE history.saved
        /\ history'.answered = (cli'.at = "answered")
        /\ FilesType'
    <3>1. disk = [graph |-> disk.graph, transform |-> disk.transform, image |-> disk.image]
      BY DEF FilesInv, FilesType
    <3>2. history = [saved |-> history.saved, grid |-> history.grid,
                     answered |-> history.answered]
      BY DEF FilesInv, FilesType
    <3>3. disk'.image = disk.image
      BY <2>1, <3>1
    <3>4. /\ disk'.graph = CASE stream = "written"   -> {SavePoseGraph}
                             [] stream = "truncated" -> {BrokenGraph}
                             [] stream = "closed"    -> disk.graph
          /\ disk' = [graph |-> disk'.graph, transform |-> disk'.transform,
                      image |-> disk'.image]
      BY <2>1, <3>1
    <3>5. /\ history'.grid = history.grid
          /\ history'.saved = IF stream = "written"
                              THEN {[nodes |-> slam.nodes, edges |-> slam.edges]}
                              ELSE history.saved
          /\ history'.answered = (cli'.at = "answered")
          /\ history' = [saved |-> history'.saved, grid |-> history'.grid,
                         answered |-> history'.answered]
      BY <2>1, <3>2
    <3>6. SlamType' /\ CliType'
      BY <1>1, <1>3, <2>1 DEF SlamType
    <3> QED
      BY <3>3, <3>4, <3>5, <3>6 DEF FilesType
  <2>3. ImageIsTheGrid'
    BY <1>1, <2>2 DEF FilesInv, ImageIsTheGrid
  <2>4. GraphIsTheSaved'
    <3>1. CASE stream = "written"
      <4> DEFINE g == [nodes |-> slam.nodes, edges |-> slam.edges]
      <4>1. disk'.graph = {SavedForm(slam)} /\ history'.saved = {g}
        BY <2>2, <3>1 DEF SavePoseGraph
      <4>2. g.nodes = slam.nodes /\ g.edges = slam.edges
        OBVIOUS
      <4> HIDE DEF g
      <4>3. SavedForm(g) = SavedForm(slam) /\ g.edges \in Seq(FileEdge)
        BY <1>1, <4>2 DEF SavedForm, SlamType
      <4> QED
        BY <4>1, <4>3 DEF GraphIsTheSaved
    <3>2. CASE stream = "truncated"
      BY <2>2, <3>2 DEF FilesInv, GraphIsTheSaved
    <3>3. CASE stream = "closed"
      BY <2>2, <3>3 DEF FilesInv, GraphIsTheSaved
    <3> QED
      BY <3>1, <3>2, <3>3
  <2>5. AnswerIsReal'
    BY <1>3, <2>1, <2>2 DEF AnswerIsReal
  <2> QED
    BY <2>2, <2>3, <2>4, <2>5 DEF FilesInv
<1>5. CASE ~directory
  <2>1. cli' = answered("failed") /\ UNCHANGED <<disk, history>>
    BY <1>5 DEF HandleSave, answered
  <2>2. FilesType'
    BY <1>1, <1>3, <2>1 DEF FilesInv, FilesType, SlamType
  <2>3. ImageIsTheGrid' /\ GraphIsTheSaved'
    BY <1>1, <2>1 DEF FilesInv, ImageIsTheGrid, GraphIsTheSaved
  <2>4. AnswerIsReal'
    BY <1>3, <2>1 DEF AnswerIsReal
  <2> QED
    BY <2>2, <2>3, <2>4 DEF FilesInv
<1> QED
  BY <1>4, <1>5

\* Every step keeps the invariant.
LEMMA FilesStep == FilesInv /\ [FilesNext]_fileVars => FilesInv'
<1> SUFFICES ASSUME FilesInv, [FilesNext]_fileVars PROVE FilesInv'
  OBVIOUS
<1>1. SlamType /\ CliType
  BY DEF FilesInv, FilesType
<1>2. ASSUME NEW extra \in Extras, AddKeyframe(extra) PROVE FilesInv'
  <2>1. slam.nodes \in Nat /\ slam.edges \in Seq(FileEdge)
    BY <1>1 DEF SlamType
  <2>2. extra \in Seq(FileEdge)
    BY <2>1, ExtrasAreEdges
  <2> DEFINE step == [from |-> slam.nodes - 1, to |-> slam.nodes, loop |-> FALSE]
  <2>3. <<step>> \in Seq(FileEdge)
    <3>1. step \in FileEdge
      BY <2>1 DEF FileEdge
    <3> HIDE DEF step
    <3> QED
      BY <3>1
  <2>4. slam' = [slam EXCEPT !.nodes = slam.nodes + 1,
                             !.edges = (slam.edges \o <<step>>) \o extra]
    BY <1>2 DEF AddKeyframe
  <2> HIDE DEF step
  <2>5. (slam.edges \o <<step>>) \o extra \in Seq(FileEdge) /\ slam.nodes + 1 \in Nat
    <3>1. slam.edges \o <<step>> \in Seq(FileEdge)
      BY <2>1, <2>3
    <3> QED
      BY <2>1, <2>2, <3>1
  <2>6. SlamType' /\ slam'.map = slam.map
    BY <1>1, <2>4, <2>5 DEF SlamType
  <2>7. UNCHANGED <<disk, cli, history>>
    BY <1>2 DEF AddKeyframe
  <2> QED
    BY <1>1, <2>6, <2>7, SlamKeepsInv DEF CliType
<1>3. ASSUME SetAnchor PROVE FilesInv'
  <2>1. SlamType' /\ slam'.map = slam.map /\ UNCHANGED <<disk, cli, history>>
    BY <1>1, <1>3 DEF SetAnchor, SlamType
  <2> QED
    BY <1>1, <2>1, SlamKeepsInv DEF CliType
<1>4. ASSUME NEW g \in RenderedMaps, MapIsPublished(g) PROVE FilesInv'
  <2>1. SlamType' /\ slam'.map = {g} /\ UNCHANGED <<disk, cli, history>>
    BY <1>1, <1>4 DEF MapIsPublished, SlamType
  <2> QED
    BY <1>1, <2>1, SlamKeepsInv DEF CliType
<1>5. ASSUME Stop PROVE FilesInv'
  <2>1. /\ SlamType' /\ slam'.map = slam.map /\ UNCHANGED <<disk, history>>
        /\ CliType' /\ cli'.at = cli.at /\ cli'.answer = cli.answer /\ cli'.pending = 0
    BY <1>1, <1>5 DEF Stop, SlamType, CliType
  <2> QED
    BY <2>1, SlamKeepsInv
<1>6. ASSUME Restart PROVE FilesInv'
  <2>1. <<>> \in Seq(FileEdge)
    OBVIOUS
  <2>2. SlamType' /\ slam'.map = {} /\ UNCHANGED <<disk, cli, history>>
    BY <1>1, <1>6, <2>1 DEF Restart, SlamType, Absent
  <2> QED
    BY <1>1, <2>2, SlamKeepsInv DEF CliType
<1>7. ASSUME NEW d \in BOOLEAN, NEW s \in {"written", "truncated", "closed"}, HandleSave(d, s)
      PROVE  FilesInv'
  BY <1>7, HandleSaveKeepsInv
<1>8. ASSUME CliStart PROVE FilesInv'
  <2>1. UNCHANGED <<slam, disk>> /\ history' = [history EXCEPT !.answered = FALSE]
    BY <1>8 DEF CliStart
  <2>2. CliType' /\ cli'.at \in {"called", "exit1"}
    BY <1>1, <1>8 DEF CliStart, CliType
  <2>3. history'.saved = history.saved /\ history'.grid = history.grid /\ FilesType'
    BY <1>1, <2>1, <2>2 DEF FilesInv, FilesType, SlamType
  <2>4. ImageIsTheGrid' /\ GraphIsTheSaved'
    BY <2>1, <2>3 DEF FilesInv, ImageIsTheGrid, GraphIsTheSaved
  <2>5. AnswerIsReal'
    BY <2>2 DEF AnswerIsReal
  <2> QED
    BY <2>3, <2>4, <2>5 DEF FilesInv
<1>9. ASSUME CliTimeout \/ CliAnswer PROVE FilesInv'
  <2>1. UNCHANGED <<slam, disk, history>>
    BY <1>9 DEF CliTimeout, CliAnswer
  <2>2. /\ CliType' /\ cli'.pending = cli.pending
        /\ \/ cli'.at = "exit1"
           \/ cli.at = "answered" /\ cli.answer = "saved" /\ cli'.at = "map"
    BY <1>1, <1>9 DEF CliTimeout, CliAnswer, CliType
  <2>3. FilesType' /\ ImageIsTheGrid' /\ GraphIsTheSaved'
    BY <1>1, <2>1, <2>2
       DEF FilesInv, FilesType, SlamType, ImageIsTheGrid, GraphIsTheSaved
  <2>4. AnswerIsReal'
    BY <2>1, <2>2 DEF FilesInv, AnswerIsReal
  <2> QED
    BY <2>3, <2>4 DEF FilesInv
<1>10. ASSUME CliMap PROVE FilesInv'
  <2>1. /\ UNCHANGED slam /\ CliType' /\ cli'.pending = cli.pending
        /\ cli.at = "map" /\ cli'.at = "exit0"
    BY <1>1, <1>10 DEF CliMap, CliType
  <2>2. CASE UNCHANGED <<disk, history>>
    <3>1. FilesType' /\ ImageIsTheGrid' /\ GraphIsTheSaved'
      BY <1>1, <2>1, <2>2
         DEF FilesInv, FilesType, SlamType, ImageIsTheGrid, GraphIsTheSaved
    <3>2. AnswerIsReal'
      BY <2>1, <2>2 DEF FilesInv, AnswerIsReal
    <3> QED
      BY <3>1, <3>2 DEF FilesInv
  <2>3. CASE /\ disk' = [disk EXCEPT !.image = {SaveOccupancyGrid(g) : g \in slam.map}]
             /\ history' = [history EXCEPT !.grid = slam.map]
    <3>1. /\ disk'.graph = disk.graph /\ history'.saved = history.saved
          /\ history'.answered = history.answered
          /\ disk'.image = {SaveOccupancyGrid(g) : g \in slam.map}
          /\ history'.grid = slam.map /\ FilesType'
      BY <1>1, <2>1, <2>3 DEF FilesInv, FilesType, SlamType
    <3>2. ImageIsTheGrid'
      BY <1>1, <2>1, <3>1 DEF FilesInv, ImageIsTheGrid, SlamType
    <3>3. GraphIsTheSaved'
      BY <3>1 DEF FilesInv, GraphIsTheSaved
    <3>4. AnswerIsReal'
      BY <2>1, <3>1 DEF FilesInv, AnswerIsReal
    <3> QED
      BY <3>1, <3>2, <3>3, <3>4 DEF FilesInv
  <2> QED
    BY <1>10, <2>2, <2>3 DEF CliMap
<1>11. ASSUME StartPreview \/ StopPreview \/ LoadTransform \/ UNCHANGED fileVars
       PROVE  FilesInv'
  <2>1. UNCHANGED <<slam, disk, cli, history>>
    BY <1>11 DEF StartPreview, StopPreview, LoadTransform, fileVars
  <2> QED
    BY <1>1, <2>1, SlamKeepsInv DEF SlamType, CliType
<1> QED
  BY <1>2, <1>3, <1>4, <1>5, <1>6, <1>7, <1>8, <1>9, <1>10, <1>11 DEF FilesNext

\* What is on the disk stays what was there, however sessions, saves, failed
\* writes and timeouts of the command interleave.
THEOREM FilesInvariance == FilesSpec => []FilesInv
<1>1. FilesInit => FilesInv
  BY FilesInitially
<1>2. FilesInv /\ [FilesNext]_fileVars => FilesInv'
  BY FilesStep
<1> QED
  BY <1>1, <1>2, PTL DEF FilesSpec

\* The grey value of a known cell is read back as what it was.
LEMMA KnownCellIsKept ==
    ASSUME NEW grid \in RenderedMaps, NEW r \in 1 .. GridRows, NEW c \in 1 .. GridColumns
    PROVE  /\ grid[r][c] >= 65 => LoadMap(SaveOccupancyGrid(grid))[r][c] = 100
           /\ grid[r][c] \in 0 .. 25 => LoadMap(SaveOccupancyGrid(grid))[r][c] = 0
<1> DEFINE image == SaveOccupancyGrid(grid)
           occ == 255 - image.rows[GridRows + 1 - r][c]
           value == grid[r][c]
<1>1. GridRows + 1 - r \in 1 .. GridRows /\ GridRows + 1 - (GridRows + 1 - r) = r
  BY FilesAssumption
<1>2. value \in -1 .. 100
  <2>1. grid \in [1 .. GridRows -> [1 .. GridColumns -> -1 .. 100]]
    BY FilesAssumption
  <2>2. grid[r] \in [1 .. GridColumns -> -1 .. 100]
    BY <2>1
  <2> QED
    BY <2>2
<1>3. image.occupied = 65 /\ image.free = 25
  BY DEF SaveOccupancyGrid
<1>4. image.rows[GridRows + 1 - r][c] = Pixel(value)
  BY <1>1 DEF SaveOccupancyGrid
<1>5. LoadMap(image)[r][c] = CASE occ * 100 > image.occupied * 255 -> 100
                               [] occ * 100 < image.free * 255     -> 0
                               [] OTHER                            -> -1
  <2> HIDE DEF image
  <2> QED
    BY DEF LoadMap
<1> HIDE DEF image, value
<1>6. ASSUME value >= 65 PROVE LoadMap(image)[r][c] = 100
  <2>1. Pixel(value) = 0
    BY <1>2, <1>6 DEF Pixel
  <2>2. occ = 255
    BY <1>4, <2>1
  <2> HIDE DEF occ
  <2> QED
    BY <1>3, <1>5, <2>2
<1>7. ASSUME value \in 0 .. 25 PROVE LoadMap(image)[r][c] = 0
  <2>1. Pixel(value) = 254
    BY <1>7 DEF Pixel
  <2>2. occ = 1
    BY <1>4, <2>1
  <2> HIDE DEF occ
  <2> QED
    BY <1>3, <1>5, <2>2
<1> QED
  BY <1>6, <1>7 DEF image, value

\* The two lists of the file share the edges of the graph between them.
LEMMA SavedFormIsWhole ==
    ASSUME NEW g, g.edges \in Seq(FileEdge)
    PROVE  /\ Len(SavedForm(g).seq) + Len(SavedForm(g).loop) = Len(g.edges)
           /\ Range(SavedForm(g).seq) \cup Range(SavedForm(g).loop) = Range(g.edges)
<1> DEFINE near == {e \in Range(g.edges) : IndexGap(e) = 1}
           far == {e \in Range(g.edges) : IndexGap(e) # 1}
<1>1. \A e \in Range(g.edges) : e \in near <=> e \notin far
  OBVIOUS
<1>2. SavedForm(g).seq = Selected(g.edges, near) /\ SavedForm(g).loop = Selected(g.edges, far)
  BY DEF SavedForm
<1> HIDE DEF near, far
<1> QED
  BY <1>1, <1>2, SelectionsPart

\* Without near links the file parts the edges as the live answer does: an edge
\* has the ends of a loop edge only when it is one.
LEMMA SavedFormIsTheAnswer ==
    ASSUME NEW g, g.edges \in Seq(FileEdge),
           \A e \in Range(g.edges) : e.loop <=> IndexGap(e) # 1
    PROVE  SavedForm(g) = LiveAnswer(g)
<1> DEFINE near == {e \in Range(g.edges) : IndexGap(e) = 1}
           far == {e \in Range(g.edges) : IndexGap(e) # 1}
           marked == {e \in Range(g.edges) : e.loop}
           closing == Selected(g.edges, marked)
           ends == {<<e.from, e.to>> : e \in Range(closing)}
           rest == {e \in Range(g.edges) : <<e.from, e.to>> \notin ends}
<1>1. far = marked
  OBVIOUS
<1>2. Range(closing) = marked
  <2>1. marked \subseteq Range(g.edges)
    OBVIOUS
  <2> HIDE DEF marked
  <2>2. Range(closing) = Range(g.edges) \cap marked
    BY SelectionKeeps
  <2> QED
    BY <2>1, <2>2
<1> HIDE DEF closing
<1>3. ASSUME NEW e \in Range(g.edges)
      PROVE  IndexGap(e) = 1 <=> <<e.from, e.to>> \notin ends
  <2>1. ASSUME IndexGap(e) # 1 PROVE <<e.from, e.to>> \in ends
    BY <1>2, <2>1
  <2>2. ASSUME <<e.from, e.to>> \in ends PROVE IndexGap(e) # 1
    <3>1. PICK l \in marked : <<e.from, e.to>> = <<l.from, l.to>>
      BY <1>2, <2>2
    <3>2. e.from = l.from /\ e.to = l.to
      BY <3>1
    <3>3. IndexGap(e) = IndexGap(l)
      BY <3>2 DEF IndexGap
    <3>4. IndexGap(l) # 1
      BY <3>1
    <3> QED
      BY <3>3, <3>4
  <2> QED
    BY <2>1, <2>2
<1>4. near = rest
  BY <1>3
<1>5. SavedForm(g) = [nodes |-> 0 .. g.nodes - 1, seq |-> Selected(g.edges, near),
                      loop |-> Selected(g.edges, far)]
  BY DEF SavedForm
<1>6. LiveAnswer(g) = [nodes |-> 0 .. g.nodes - 1, seq |-> Selected(g.edges, rest),
                       loop |-> Selected(g.edges, marked)]
  BY DEF LiveAnswer, BuildPoseGraphDiff, SplitEdges, closing
<1> HIDE DEF near, far, marked, rest
<1> QED
  BY <1>1, <1>4, <1>5, <1>6

\* The three promises about a saved map follow from the invariant.
LEMMA FilesInvIsEnough == FilesInv => SavedMapIsReadBack
<1> SUFFICES ASSUME FilesInv PROVE SavedMapIsReadBack
  OBVIOUS
<1>1. SuccessWasAnswered
  BY DEF FilesInv, AnswerIsReal, SuccessWasAnswered
<1>2. KnownCellsAreKept
  <2> SUFFICES ASSUME NEW image \in disk.image, NEW grid \in history.grid,
                      NEW r \in 1 .. GridRows, NEW c \in 1 .. GridColumns
               PROVE  /\ grid[r][c] >= 65 => LoadMap(image)[r][c] = 100
                      /\ grid[r][c] \in 0 .. 25 => LoadMap(image)[r][c] = 0
    BY DEF KnownCellsAreKept
  <2>1. image = SaveOccupancyGrid(grid) /\ grid \in RenderedMaps
    BY DEF FilesInv, ImageIsTheGrid
  <2> QED
    BY <2>1, KnownCellIsKept
<1>3. PreviewShowsASavedGraph
  <2>1. ASSUME NEW shown \in disk.graph \ {BrokenGraph}
        PROVE  \E g \in history.saved :
                 /\ shown.nodes = 0 .. g.nodes - 1
                 /\ Len(shown.seq) + Len(shown.loop) = Len(g.edges)
                 /\ Range(shown.seq) \cup Range(shown.loop) = Range(g.edges)
                 /\ (\A e \in Range(g.edges) : e.loop <=> IndexGap(e) # 1)
                      => shown = LiveAnswer(g)
    <3>1. PICK g \in history.saved : shown = SavedForm(g)
      BY DEF FilesInv, GraphIsTheSaved
    <3>2. g.edges \in Seq(FileEdge)
      BY DEF FilesInv, GraphIsTheSaved
    <3>3. shown.nodes = 0 .. g.nodes - 1
      BY <3>1 DEF SavedForm
    <3>4. /\ Len(shown.seq) + Len(shown.loop) = Len(g.edges)
          /\ Range(shown.seq) \cup Range(shown.loop) = Range(g.edges)
      BY <3>1, <3>2, SavedFormIsWhole
    <3>5. (\A e \in Range(g.edges) : e.loop <=> IndexGap(e) # 1) => shown = LiveAnswer(g)
      BY <3>1, <3>2, SavedFormIsTheAnswer
    <3> QED
      BY <3>3, <3>4, <3>5
  <2> QED
    BY <2>1 DEF PreviewShowsASavedGraph, LoadPoseGraph
<1> QED
  BY <1>1, <1>2, <1>3 DEF SavedMapIsReadBack

\* A map is read back as it was saved: the graph whole and parted as the running
\* node parts it, every known cell in its place, and no success without an answer.
THEOREM SavedMapsAreReadBack == FilesSpec => []SavedMapIsReadBack
<1>1. FilesInv => SavedMapIsReadBack
  BY FilesInvIsEnough
<1> QED
  BY <1>1, FilesInvariance, PTL

(***************************************************************************)
(* The scan matchers.  A phase of a call belongs to one kind of matcher,   *)
(* and what a call has found so far is tied to its phase: best is the best *)
(* of the starts that converged.                                           *)
(***************************************************************************)

MultiStart == matcher \in {"multi_start_icp", "multi_start_coarse_to_fine"}

\* A result that has information when it converged.
IsSoundResult(r) ==
    /\ r = [yaw |-> r.yaw, converged |-> r.converged, info |-> r.info, score |-> r.score]
    /\ r.converged \in BOOLEAN /\ r.info \in BOOLEAN /\ r.score \in Int
    /\ r.converged => r.info

\* An inner matcher scores a pose only after an iteration with correspondences.
RunIsSound ==
    /\ run = [at |-> run.at, who |-> run.who, yaw |-> run.yaw, iter |-> run.iter,
              valid |-> run.valid, level |-> run.level, out |-> run.out]
    /\ IsSoundResult(run.out)
    /\ run.valid \in Int
    /\ run.at = "score" => run.valid > 0

CallType ==
    /\ call = [phase |-> call.phase, guess |-> call.guess, points |-> call.points,
               pending |-> call.pending, best |-> call.best, seed |-> call.seed,
               tried |-> call.tried, count |-> call.count]
    /\ IsSoundResult(call.best)
    /\ \A t \in call.tried : IsSoundResult(t)

PhaseFitsMatcher ==
    /\ call.phase \in {"none", "only", "coarse", "fine", "direct", "hypotheses", "chosen",
                       "seeded"}
    /\ call.phase = "only" => matcher \in {"icp", "ndt", "csm"}
    /\ call.phase \in {"coarse", "fine"} => matcher = "coarse_to_fine"
    /\ call.phase \in {"direct", "seeded"} => matcher = "multi_start_coarse_to_fine"
    /\ call.phase = "hypotheses" =>
         matcher \in {"multi_start_icp", "multi_start_coarse_to_fine"}
    /\ call.phase = "chosen" => matcher = "multi_start_icp"

\* best is the best of what converged.
BestOfTried(best, tried) ==
    /\ tried # {} <=> best.converged
    /\ best.converged => best \in tried /\ \A u \in tried : best.score <= u.score

BestSoFar ==
    /\ call.phase \in {"only", "coarse", "direct"} =>
         call.tried = {} /\ ~call.best.converged
    /\ call.phase \in {"fine", "hypotheses", "chosen", "seeded"} =>
         BestOfTried(call.best, call.tried)
    /\ call.phase \in {"fine", "chosen", "seeded"} /\ call.best.converged =>
         call.seed = call.best.yaw
    /\ call.phase = "chosen" /\ call.best.converged =>
         run.at = "answered" /\ run.out = call.best

AnswerType ==
    /\ answer = [result |-> answer.result, tried |-> answer.tried, seed |-> answer.seed,
                 found |-> answer.found, yaw |-> answer.yaw]
    /\ answer.found \in BOOLEAN

MatchInv ==
    /\ matcher \in MatcherTypes
    /\ RunIsSound /\ CallType /\ PhaseFitsMatcher /\ BestSoFar /\ AnswerType
    /\ MatchIsSound

\* The result of a matcher that could not begin, and no result at all.
LEMMA UnmatchedIsSound ==
    /\ IsSoundResult(NoResult) /\ ~NoResult.converged
    /\ \A guess : IsSoundResult(Unmatched(guess)) /\ ~Unmatched(guess).converged
<1>1. IsSoundResult(NoResult) /\ ~NoResult.converged
  BY DEF IsSoundResult, NoResult
<1>2. ASSUME NEW guess PROVE IsSoundResult(Unmatched(guess)) /\ ~Unmatched(guess).converged
  <2> DEFINE no == FALSE
  <2>1. Unmatched(guess) = [yaw |-> guess, converged |-> no, info |-> no, score |-> 0]
    <3>1. NoResult = [yaw |-> 0, converged |-> no, info |-> no, score |-> 0]
      BY DEF NoResult
    <3> HIDE DEF no
    <3> QED
      BY <3>1 DEF Unmatched
  <2> QED
    BY <2>1 DEF IsSoundResult
<1> QED
  BY <1>1, <1>2

\* A matcher that has just been started has found nothing.
LEMMA StartedIsSound ==
    ASSUME NEW who, NEW guess, NEW n, run' = Started(who, guess, n)
    PROVE  RunIsSound'
<1>1. PICK at \in {"iterate", "answered"} :
        run' = [at |-> at, who |-> who, yaw |-> guess, iter |-> 0, valid |-> 0,
                level |-> 1, out |-> Unmatched(guess)]
  <2> DEFINE least == IF who = "ndt" THEN MinNdt ELSE MinCorrespondences
             usable == /\ n >= least /\ aim.points > 0
                       /\ IF who = "ndt" THEN TRUE ELSE aim.tree
  <2>1. run' = [NoRun EXCEPT !.who = who, !.yaw = guess,
                             !.at  = IF usable THEN "iterate" ELSE "answered",
                             !.out = Unmatched(guess)]
    BY DEF Started
  <2> HIDE DEF usable
  <2> QED
    BY <2>1 DEF NoRun
<1>2. IsSoundResult(Unmatched(guess))
  BY UnmatchedIsSound
<1>3. run'.out = Unmatched(guess) /\ run'.valid = 0 /\ run'.at # "score"
  BY <1>1
<1>4. run' = [at |-> run'.at, who |-> run'.who, yaw |-> run'.yaw, iter |-> run'.iter,
              valid |-> run'.valid, level |-> run'.level, out |-> run'.out]
  BY <1>1
<1> QED
  BY <1>2, <1>3, <1>4 DEF RunIsSound

\* The invariant holds before the first call.
LEMMA MatchInitially == MatcherInit => MatchInv
<1> SUFFICES ASSUME MatcherInit PROVE MatchInv
  OBVIOUS
<1>1. RunIsSound
  BY UnmatchedIsSound DEF MatcherInit, NoRun, RunIsSound
<1>2. CallType
  BY UnmatchedIsSound DEF MatcherInit, NoCall, CallType
<1>3. PhaseFitsMatcher /\ BestSoFar /\ AnswerType
  BY DEF MatcherInit, NoCall, PhaseFitsMatcher, BestSoFar, AnswerType
<1>4. MatchIsSound
  BY DEF MatcherInit, NoResult, MatchIsSound, ConvergedHasInformation, BestStartWins,
         MemoryIsTheLastMatch
<1> QED
  BY <1>1, <1>2, <1>3, <1>4 DEF MatchInv, MatcherInit

\* A score is a number.
LEMMA ScoreType ==
    ASSUME NEW valid \in Int, NEW cost \in Int, NEW least
    PROVE  Score(valid, cost, least) \in Int
BY MatcherAssumption DEF Score

\* An answer of an inner matcher that is sound.
LEMMA AnsweredIsSound ==
    ASSUME RunIsSound, NEW r, IsSoundResult(r), run' = Answered(r)
    PROVE  RunIsSound'
<1>1. run' = [at |-> "answered", who |-> run.who, yaw |-> run.yaw, iter |-> run.iter,
              valid |-> run.valid, level |-> run.level, out |-> r]
  BY DEF Answered, RunIsSound
<1>2. run'.out = r /\ run'.valid = run.valid /\ run'.at = "answered"
  BY <1>1
<1>3. run' = [at |-> run'.at, who |-> run'.who, yaw |-> run'.yaw, iter |-> run'.iter,
              valid |-> run'.valid, level |-> run'.level, out |-> run'.out]
  BY <1>1
<1> QED
  BY <1>2, <1>3 DEF RunIsSound

\* The level of NDT that ends, with a sound result, ends in one or goes on.
LEMMA LevelDoneIsSound ==
    ASSUME RunIsSound, NEW r, IsSoundResult(r), run' = NdtLevelDone(r)
    PROVE  RunIsSound'
<1>1. CASE run' = Answered(r)
  BY <1>1, AnsweredIsSound
<1>2. CASE run' = [NoRun EXCEPT !.at = "iterate", !.who = "ndt", !.yaw = r.yaw,
                                !.level = run.level + 1]
  <2>1. run' = [at |-> "iterate", who |-> "ndt", yaw |-> r.yaw, iter |-> 0, valid |-> 0,
                level |-> run.level + 1, out |-> NoResult]
    BY <1>2 DEF NoRun
  <2>2. run'.out = NoResult /\ run'.valid = 0 /\ run'.at = "iterate"
    BY <2>1
  <2>3. run' = [at |-> run'.at, who |-> run'.who, yaw |-> run'.yaw, iter |-> run'.iter,
                valid |-> run'.valid, level |-> run'.level, out |-> run'.out]
    BY <2>1
  <2> QED
    BY <2>2, <2>3, UnmatchedIsSound DEF RunIsSound
<1> QED
  BY <1>1, <1>2 DEF NdtLevelDone

\* A step of an iteration that found correspondences.
LEMMA IterationIsSound ==
    ASSUME RunIsSound, NEW yaw, NEW valid \in Int, valid > 0,
           run' = [run EXCEPT !.yaw = yaw, !.valid = valid, !.iter = run.iter + 1,
                              !.at = IF yaw = run.yaw THEN "score" ELSE "iterate"]
    PROVE  RunIsSound'
<1>1. PICK at : run' = [at |-> at, who |-> run.who, yaw |-> yaw, iter |-> run.iter + 1,
                        valid |-> valid, level |-> run.level, out |-> run.out]
  BY DEF RunIsSound
<1>2. run'.out = run.out /\ run'.valid = valid
  BY <1>1
<1>3. run' = [at |-> run'.at, who |-> run'.who, yaw |-> run'.yaw, iter |-> run'.iter,
              valid |-> run'.valid, level |-> run'.level, out |-> run'.out]
  BY <1>1
<1> QED
  BY <1>2, <1>3 DEF RunIsSound

\* The steps of the inner matchers.
LEMMA InnerKeepsRun ==
    ASSUME RunIsSound, InnerSteps
    PROVE  RunIsSound' /\ run.at \in {"iterate", "score"} /\ UNCHANGED <<matcher, memory, call, answer>>
<1> DEFINE failed == [NoResult EXCEPT !.yaw = run.yaw, !.info = run.valid > 0]
<1>1. IsSoundResult(failed)
  <2> DEFINE some == run.valid > 0
  <2>1. some \in BOOLEAN
    OBVIOUS
  <2>2. failed = [NoResult EXCEPT !.yaw = run.yaw, !.info = some]
    OBVIOUS
  <2> HIDE DEF some, failed
  <2>3. failed = [yaw |-> run.yaw, converged |-> FALSE, info |-> some, score |-> 0]
    BY <2>2 DEF NoResult
  <2> QED
    BY <2>1, <2>3 DEF IsSoundResult
<1>2. ASSUME NEW yaw, NEW score \in Int
      PROVE  IsSoundResult([yaw |-> yaw, converged |-> TRUE, info |-> TRUE, score |-> score])
  BY DEF IsSoundResult
<1>3. 0 .. FullScan \subseteq Int /\ 0 .. CostMax - 1 \subseteq Int
  OBVIOUS
<1>4. ASSUME run.at = "score" PROVE (run.valid > 0) = TRUE
  BY <1>4 DEF RunIsSound
<1> HIDE DEF failed
<1>5. ASSUME IcpIterate PROVE RunIsSound'
  <2>1. PICK valid \in 0 .. FullScan, yaw \in Yaws :
         run' = IF valid < MinCorrespondences
                THEN Answered(Unmatched(run.yaw))
                ELSE [run EXCEPT !.yaw = yaw, !.valid = valid, !.iter = run.iter + 1,
                                 !.at = IF yaw = run.yaw THEN "score" ELSE "iterate"]
    BY <1>5 DEF IcpIterate
  <2>2. CASE valid < MinCorrespondences
    BY <2>1, <2>2, AnsweredIsSound, UnmatchedIsSound
  <2>3. CASE ~(valid < MinCorrespondences)
    <3>1. valid > 0
      BY <2>3, MatcherAssumption
    <3>2. run' = [run EXCEPT !.yaw = yaw, !.valid = valid, !.iter = run.iter + 1,
                             !.at = IF yaw = run.yaw THEN "score" ELSE "iterate"]
      BY <2>1, <2>3
    <3>3. valid \in Int
      OBVIOUS
    <3> QED
      BY ONLY RunIsSound, <3>1, <3>2, <3>3, IterationIsSound
  <2> QED
    BY <2>2, <2>3
<1>6. ASSUME IcpExhausted PROVE RunIsSound'
  BY <1>1, <1>6, AnsweredIsSound DEF IcpExhausted, failed
<1>7. ASSUME IcpScore PROVE RunIsSound'
  <2>1. PICK valid \in 0 .. FullScan, cost \in 0 .. CostMax - 1 :
          run' = Answered([yaw |-> run.yaw, converged |-> TRUE, info |-> TRUE,
                           score |-> Score(valid, cost, MinCorrespondences)])
    BY <1>4, <1>7 DEF IcpScore
  <2>2. Score(valid, cost, MinCorrespondences) \in Int
    BY ScoreType
  <2> QED
    BY <1>2, <2>1, <2>2, AnsweredIsSound
<1>8. ASSUME NdtIterate PROVE RunIsSound'
  <2>1. CASE run' = NdtLevelDone(failed)
    BY <1>1, <2>1, LevelDoneIsSound
  <2>2. CASE run' # NdtLevelDone(failed)
    <3>1. PICK valid \in 0 .. FullScan, yaw \in Yaws :
            run' = IF valid < MinNdt
                   THEN NdtLevelDone(failed)
                   ELSE [run EXCEPT !.yaw = yaw, !.valid = valid, !.iter = run.iter + 1,
                                    !.at = IF yaw = run.yaw THEN "score" ELSE "iterate"]
      BY <1>8, <2>2 DEF NdtIterate, failed
    <3>2. CASE valid < MinNdt
      BY <1>1, <3>1, <3>2, LevelDoneIsSound
    <3>3. CASE ~(valid < MinNdt)
      <4>1. valid > 0 /\ valid \in Int
        BY <3>3, MatcherAssumption
      <4>2. run' = [run EXCEPT !.yaw = yaw, !.valid = valid, !.iter = run.iter + 1,
                               !.at = IF yaw = run.yaw THEN "score" ELSE "iterate"]
        BY <3>1, <3>3
      <4> QED
        BY ONLY RunIsSound, <4>1, <4>2, IterationIsSound
    <3> QED
      BY <3>2, <3>3
  <2> QED
    BY <2>1, <2>2
<1>9. ASSUME NdtEmptyLevel PROVE RunIsSound'
  BY <1>9, LevelDoneIsSound, UnmatchedIsSound DEF NdtEmptyLevel
<1>10. ASSUME NdtScore PROVE RunIsSound'
  <2>1. PICK valid \in 0 .. FullScan, cost \in 0 .. CostMax - 1 :
          run' = NdtLevelDone([yaw |-> run.yaw, converged |-> TRUE, info |-> TRUE,
                               score |-> Score(valid, cost, MinNdt)])
    BY <1>4, <1>10 DEF NdtScore
  <2>2. Score(valid, cost, MinNdt) \in Int
    BY ScoreType
  <2> QED
    BY <1>2, <2>1, <2>2, LevelDoneIsSound
<1>11. ASSUME CsmSearch PROVE RunIsSound'
  <2>1. CASE run' = Answered(Unmatched(run.yaw))
    BY <2>1, AnsweredIsSound, UnmatchedIsSound
  <2>2. CASE run' # Answered(Unmatched(run.yaw))
    <3>1. PICK yaw \in Yaws, valid \in MinCorrespondences .. FullScan :
            run' = Answered([yaw |-> yaw, converged |-> valid > 0, info |-> valid > 0,
                             score |-> valid])
      BY <1>11, <2>2 DEF CsmSearch
    <3>2. (valid > 0) = TRUE /\ valid \in Int
      BY MatcherAssumption
    <3>3. run' = Answered([yaw |-> yaw, converged |-> TRUE, info |-> TRUE, score |-> valid])
      BY <3>1, <3>2
    <3> QED
      BY <1>2, <3>2, <3>3, AnsweredIsSound
  <2> QED
    BY <2>1, <2>2
<1>12. RunIsSound'
  BY <1>5, <1>6, <1>7, <1>8, <1>9, <1>10, <1>11 DEF InnerSteps
<1>13. run.at \in {"iterate", "score"} /\ UNCHANGED <<matcher, memory, call, answer>>
  BY DEF InnerSteps, IcpIterate, IcpExhausted, IcpScore, NdtIterate, NdtEmptyLevel, NdtScore,
         CsmSearch
<1> QED
  BY <1>12, <1>13

\* A call returns: with the best of what converged, if anything did.
LEMMA ReturnKeepsInv ==
    ASSUME MatchInv, NEW result, IsSoundResult(result), NEW learn, Return(result, learn),
           UNCHANGED matcher,
           matcher = "multi_start_coarse_to_fine" => learn = TRUE,
           matcher = "multi_start_icp" => (learn <=> call.tried # {}),
           call.tried # {} =>
             /\ result.converged
             /\ \E t \in call.tried : /\ t.yaw = call.seed
                                      /\ \A u \in call.tried : t.score <= u.score
             /\ matcher = "multi_start_icp" => \A u \in call.tried : result.score <= u.score
    PROVE  MatchInv'
<1> DEFINE some == result.converged /\ (matcher = "multi_start_icp" => call.tried # {})
<1>1. /\ answer' = [result |-> result, tried |-> call.tried, seed |-> call.seed,
                    found |-> answer.found \/ some,
                    yaw |-> IF some THEN result.yaw ELSE answer.yaw]
      /\ run' = NoRun /\ call' = [NoCall EXCEPT !.count = call.count]
      /\ memory' = IF learn /\ result.converged THEN [has |-> TRUE, yaw |-> result.yaw]
                                                ELSE memory
  BY DEF Return
<1>2. some \in BOOLEAN /\ result.converged \in BOOLEAN
  BY DEF IsSoundResult
<1>0. MultiStart => ((learn /\ result.converged) <=> some)
  BY DEF MultiStart
<1> HIDE DEF some
<1>3. /\ answer'.result = result /\ answer'.tried = call.tried /\ answer'.seed = call.seed
      /\ answer'.found = (answer.found \/ some)
      /\ answer'.yaw = IF some THEN result.yaw ELSE answer.yaw
  BY <1>1
<1>4. AnswerType'
  <2> DEFINE found == answer.found \/ some
             yaw == IF some THEN result.yaw ELSE answer.yaw
  <2>1. answer' = [result |-> result, tried |-> call.tried, seed |-> call.seed,
                   found |-> found, yaw |-> yaw]
    BY <1>1
  <2>2. found \in BOOLEAN
    OBVIOUS
  <2> HIDE DEF found, yaw
  <2>3. answer'.found = found
    BY <2>1
  <2> QED
    BY <2>1, <2>2, <2>3 DEF AnswerType
<1>5. RunIsSound'
  BY <1>1, UnmatchedIsSound DEF NoRun, RunIsSound
<1>6. call' = [phase |-> "none", guess |-> 0, points |-> 0, pending |-> <<>>,
               best |-> NoResult, seed |-> 0, tried |-> {}, count |-> call.count]
  BY <1>1 DEF NoCall
<1>7. CallType' /\ PhaseFitsMatcher' /\ BestSoFar'
  BY <1>6, UnmatchedIsSound DEF CallType, PhaseFitsMatcher, BestSoFar
<1>8. ConvergedHasInformation'
  BY <1>3 DEF ConvergedHasInformation, IsSoundResult
<1>9. BestStartWins'
  BY <1>3 DEF BestStartWins
<1>10. MemoryIsTheLastMatch'
  <2> SUFFICES ASSUME MultiStart
               PROVE  memory'.has = answer'.found /\ (memory'.has => memory'.yaw = answer'.yaw)
    BY DEF MemoryIsTheLastMatch, MultiStart
  <2>0. (learn /\ result.converged) <=> some
    BY <1>0
  <2>1. memory.has = answer.found /\ (memory.has => memory.yaw = answer.yaw)
    BY DEF MatchInv, MatchIsSound, MemoryIsTheLastMatch, MultiStart
  <2>2. CASE some
    <3>1. memory' = [has |-> TRUE, yaw |-> result.yaw]
      BY <1>1, <2>0, <2>2
    <3>2. memory'.has = TRUE /\ memory'.yaw = result.yaw
      BY <3>1
    <3>3. answer'.found = TRUE /\ answer'.yaw = result.yaw
      BY <1>3, <2>2
    <3> QED
      BY <3>2, <3>3
  <2>3. CASE ~some
    <3>1. memory' = memory /\ answer'.yaw = answer.yaw
      BY <1>1, <1>3, <2>0, <2>3
    <3>2. answer'.found = answer.found
      <4>1. answer.found \in BOOLEAN
        BY DEF MatchInv, AnswerType
      <4> QED
        BY <1>3, <2>3, <4>1
    <3> QED
      BY <2>1, <3>1, <3>2
  <2> QED
    BY <2>2, <2>3
<1> QED
  BY <1>4, <1>5, <1>7, <1>8, <1>9, <1>10 DEF MatchInv, MatchIsSound

\* What the last call answered stays true until the next one.
LEMMA AnswerStays ==
    ASSUME MatchInv, UNCHANGED <<matcher, memory, answer>>,
           RunIsSound', CallType', PhaseFitsMatcher', BestSoFar'
    PROVE  MatchInv'
BY DEF MatchInv, AnswerType, MatchIsSound, ConvergedHasInformation, BestStartWins,
       MemoryIsTheLastMatch

\* A call begins: nothing has been found and nothing is answered.
LEMMA MatchKeepsInv ==
    ASSUME MatchInv, NEW guess, NEW n, Match(guess, n)
    PROVE  MatchInv'
<1> DEFINE first == CASE matcher = "multi_start_icp" -> "hypotheses"
                      [] matcher = "multi_start_coarse_to_fine" -> "direct"
                      [] matcher = "coarse_to_fine" -> "coarse"
                      [] OTHER -> "only"
           who == IF first = "direct" THEN "icp" ELSE Coarse(matcher)
           left == Tail(Hypotheses(guess))
<1>1. /\ call' = [NoCall EXCEPT !.phase = first, !.guess = guess, !.points = n,
                                !.pending = left, !.count = call.count + 1]
      /\ run' = Started(who, guess, n)
      /\ answer' = [answer EXCEPT !.result = NoResult, !.tried = {}, !.seed = 0]
      /\ UNCHANGED <<matcher, memory>>
  BY DEF Match
<1>2. /\ matcher \in {"icp", "ndt", "csm", "coarse_to_fine", "multi_start_icp",
                      "multi_start_coarse_to_fine"}
      /\ AnswerType /\ MemoryIsTheLastMatch
  BY MatcherAssumption DEF MatchInv, MatchIsSound
<1>3. RunIsSound'
  BY <1>1, StartedIsSound
<1> HIDE DEF who, left
<1>4. \/ first = "hypotheses" /\ matcher = "multi_start_icp"
      \/ first = "direct" /\ matcher = "multi_start_coarse_to_fine"
      \/ first = "coarse" /\ matcher = "coarse_to_fine"
      \/ first = "only" /\ matcher \in {"icp", "ndt", "csm"}
  <2>1. CASE matcher = "multi_start_icp"
    BY <2>1
  <2>2. CASE matcher = "multi_start_coarse_to_fine"
    BY <2>2
  <2>3. CASE matcher = "coarse_to_fine"
    BY <2>3
  <2>4. CASE matcher \in {"icp", "ndt", "csm"}
    BY <2>4
  <2> QED
    BY <1>2, <2>1, <2>2, <2>3, <2>4
<1> HIDE DEF first
<1>5. call' = [phase |-> first, guess |-> guess, points |-> n, pending |-> left,
               best |-> NoResult, seed |-> 0, tried |-> {}, count |-> call.count + 1]
  BY <1>1 DEF NoCall
<1>6. /\ call'.phase = first /\ call'.best = NoResult /\ call'.tried = {}
      /\ CallType'
  BY <1>5, UnmatchedIsSound DEF CallType
<1>7. PhaseFitsMatcher' /\ BestSoFar'
  BY <1>1, <1>4, <1>6, UnmatchedIsSound DEF PhaseFitsMatcher, BestSoFar, BestOfTried
<1>8. answer' = [result |-> NoResult, tried |-> {}, seed |-> 0, found |-> answer.found,
                 yaw |-> answer.yaw]
  BY <1>1, <1>2 DEF AnswerType
<1>9. AnswerType' /\ MatchIsSound'
  BY <1>1, <1>2, <1>8, UnmatchedIsSound
     DEF AnswerType, MatchIsSound, ConvergedHasInformation, BestStartWins, MemoryIsTheLastMatch
<1> QED
  BY <1>1, <1>3, <1>6, <1>7, <1>9 DEF MatchInv

\* The set of a result that may have converged.
LEMMA TriedWith ==
    ASSUME NEW r, NEW tried, NEW best, IsSoundResult(r),
           \A t \in tried : IsSoundResult(t), BestOfTried(best, tried),
           NEW found, found = tried \cup {t \in {r} : t.converged},
           NEW better, better = IF BetterMatch(r, best) THEN r ELSE best,
           IsSoundResult(best)
    PROVE  BestOfTried(better, found) /\ (\A t \in found : IsSoundResult(t))
           /\ IsSoundResult(better)
<1>1. \A t \in found : IsSoundResult(t)
  OBVIOUS
<1>2. IsSoundResult(better)
  OBVIOUS
<1>3. CASE ~r.converged
  BY <1>3 DEF BetterMatch
<1>4. CASE r.converged
  <2>1. found = tried \cup {r}
    BY <1>4
  <2>2. CASE best.converged => r.score < best.score
    <3>1. better = r
      BY <1>4, <2>2 DEF BetterMatch
    <3>2. ASSUME NEW u \in found PROVE r.score <= u.score
      <4>1. CASE u = r
        BY <4>1 DEF IsSoundResult
      <4>2. CASE u \in tried
        <5>1. best.converged /\ best.score <= u.score /\ r.score < best.score
          BY <2>2, <4>2 DEF BestOfTried
        <5>2. best.score \in Int /\ u.score \in Int /\ r.score \in Int
          BY <4>2 DEF IsSoundResult
        <5> QED
          BY <5>1, <5>2
      <4> QED
        BY <2>1, <4>1, <4>2
    <3> QED
      BY <1>1, <1>2, <1>4, <2>1, <3>1, <3>2 DEF BestOfTried
  <2>3. CASE ~(best.converged => r.score < best.score)
    <3>1. better = best /\ best.converged /\ ~(r.score < best.score)
      BY <2>3 DEF BetterMatch
    <3>2. best.score <= r.score
      BY <3>1 DEF IsSoundResult
    <3> QED
      BY <1>1, <1>2, <2>1, <3>1, <3>2 DEF BestOfTried
  <2> QED
    BY <2>2, <2>3
<1> QED
  BY <1>1, <1>2, <1>3, <1>4

\* A coarse match is over: the fine one starts where it converged.
LEMMA CoarseKeepsInv ==
    ASSUME MatchInv, CoarseDone
    PROVE  MatchInv'
<1> DEFINE seed == IF run.out.converged THEN run.out.yaw ELSE call.guess
           found == {t \in {run.out} : t.converged}
<1>1. /\ call' = [call EXCEPT !.phase = "fine", !.best = run.out, !.seed = seed,
                              !.tried = found]
      /\ run' = Started("icp", seed, call.points) /\ call.phase = "coarse"
      /\ UNCHANGED <<matcher, memory, answer>>
  BY DEF CoarseDone
<1>2. IsSoundResult(run.out) /\ CallType /\ matcher = "coarse_to_fine"
  BY <1>1 DEF MatchInv, RunIsSound, PhaseFitsMatcher
<1>3. RunIsSound'
  BY <1>1, StartedIsSound
<1>4. BestOfTried(run.out, found) /\ \A t \in found : IsSoundResult(t)
  BY <1>2 DEF BestOfTried, IsSoundResult
<1>5. run.out.converged => seed = run.out.yaw
  OBVIOUS
<1> HIDE DEF seed, found
<1>6. call' = [phase |-> "fine", guess |-> call.guess, points |-> call.points,
               pending |-> call.pending, best |-> run.out, seed |-> seed, tried |-> found,
               count |-> call.count]
  BY <1>1, <1>2 DEF CallType
<1>7. /\ call'.phase = "fine" /\ call'.best = run.out /\ call'.seed = seed
      /\ call'.tried = found /\ CallType'
  BY <1>2, <1>4, <1>6 DEF CallType
<1>8. PhaseFitsMatcher' /\ BestSoFar'
  BY <1>1, <1>2, <1>4, <1>5, <1>7 DEF PhaseFitsMatcher, BestSoFar
<1> QED
  BY <1>1, <1>3, <1>7, <1>8, AnswerStays

\* A direct match that is not good enough is forgotten.
LEMMA DirectKeepsInv ==
    ASSUME MatchInv, DirectDone
    PROVE  MatchInv'
<1>1. call.phase = "direct" /\ UNCHANGED matcher
  BY DEF DirectDone
<1>2. /\ IsSoundResult(run.out) /\ CallType /\ matcher = "multi_start_coarse_to_fine"
      /\ call.tried = {} /\ ~call.best.converged
  BY <1>1 DEF MatchInv, RunIsSound, PhaseFitsMatcher, BestSoFar
<1>3. CASE run.out.converged /\ run.out.score < FastScore
  <2>1. Return(run.out, TRUE)
    BY <1>3 DEF DirectDone
  <2> QED
    BY <1>1, <1>2, <2>1, ReturnKeepsInv
<1>4. CASE ~(run.out.converged /\ run.out.score < FastScore)
  <2>1. /\ call' = [call EXCEPT !.phase = "hypotheses"]
        /\ run' = Started("ndt", call.guess, call.points)
        /\ UNCHANGED <<memory, answer>>
    BY <1>4 DEF DirectDone
  <2>2. RunIsSound'
    BY <2>1, StartedIsSound
  <2>3. call'.phase = "hypotheses" /\ call'.best = call.best /\ call'.tried = {} /\ CallType'
    BY <1>2, <2>1 DEF CallType
  <2>4. PhaseFitsMatcher' /\ BestSoFar'
    BY <1>1, <1>2, <2>3 DEF PhaseFitsMatcher, BestSoFar, BestOfTried
  <2> QED
    BY <1>1, <2>1, <2>2, <2>3, <2>4, AnswerStays
<1> QED
  BY <1>3, <1>4

\* A hypothesis has been matched: the best so far is still the best.
LEMMA HypothesisKeepsInv ==
    ASSUME MatchInv, HypothesisDone
    PROVE  MatchInv'
<1> DEFINE best == IF BetterMatch(run.out, call.best) THEN run.out ELSE call.best
           found == call.tried \cup {t \in {run.out} : t.converged}
           seed == IF best.converged THEN best.yaw ELSE call.guess
           after == IF matcher = "multi_start_icp" THEN "chosen" ELSE "seeded"
<1>1. call.phase = "hypotheses" /\ UNCHANGED <<matcher, memory, answer>>
  BY DEF HypothesisDone
<1>2. /\ IsSoundResult(run.out) /\ CallType /\ BestOfTried(call.best, call.tried)
      /\ matcher \in {"multi_start_icp", "multi_start_coarse_to_fine"}
  BY <1>1 DEF MatchInv, RunIsSound, PhaseFitsMatcher, BestSoFar
<1>3. BestOfTried(best, found) /\ (\A t \in found : IsSoundResult(t)) /\ IsSoundResult(best)
  <2>1. IsSoundResult(call.best) /\ \A t \in call.tried : IsSoundResult(t)
    BY <1>2 DEF CallType
  <2> HIDE DEF best, found
  <2> QED
    BY <1>2, <2>1, TriedWith DEF best, found
<1>4. best.converged => seed = best.yaw
  OBVIOUS
<1>5. CASE call.pending # <<>>
  <2> DEFINE left == Tail(call.pending)
  <2>1. /\ call' = [call EXCEPT !.best = best, !.tried = found, !.pending = left]
        /\ run' = Started(run.who, Head(call.pending), call.points)
    BY <1>5 DEF HypothesisDone
  <2> HIDE DEF best, found, seed, left
  <2>2. RunIsSound'
    BY <2>1, StartedIsSound
  <2>3. call' = [phase |-> call.phase, guess |-> call.guess, points |-> call.points,
                 pending |-> left, best |-> best, seed |-> call.seed, tried |-> found,
                 count |-> call.count]
    BY <1>2, <2>1 DEF CallType
  <2>4. call'.phase = "hypotheses" /\ call'.best = best /\ call'.tried = found /\ CallType'
    BY <1>1, <1>3, <2>3 DEF CallType
  <2>5. PhaseFitsMatcher' /\ BestSoFar'
    BY <1>1, <1>2, <1>3, <2>4 DEF PhaseFitsMatcher, BestSoFar
  <2> QED
    BY <1>1, <2>2, <2>4, <2>5, AnswerStays
<1>6. CASE call.pending = <<>>
  <2>1. /\ call' = [call EXCEPT !.best = best, !.tried = found, !.seed = seed,
                                !.phase = after]
        /\ run' = IF matcher # "multi_start_icp"
                  THEN Started("icp", seed, call.points)
                  ELSE IF best.converged THEN [NoRun EXCEPT !.at = "answered", !.out = best]
                  ELSE Started("icp", call.guess, call.points)
    BY <1>6 DEF HypothesisDone
  <2>2. /\ after \in {"chosen", "seeded"}
        /\ after = "chosen" <=> matcher = "multi_start_icp"
    OBVIOUS
  <2> HIDE DEF best, found, seed, after
  <2>3. call' = [phase |-> after, guess |-> call.guess, points |-> call.points,
                 pending |-> call.pending, best |-> best, seed |-> seed, tried |-> found,
                 count |-> call.count]
    BY <1>2, <2>1 DEF CallType
  <2>4. /\ call'.phase = after /\ call'.best = best /\ call'.tried = found
        /\ call'.seed = seed /\ CallType'
    BY <1>2, <1>3, <2>3 DEF CallType
  <2>5. /\ RunIsSound'
        /\ matcher = "multi_start_icp" /\ best.converged
             => run'.at = "answered" /\ run'.out = best
    <3>1. CASE matcher = "multi_start_icp" /\ best.converged
      <4>1. run' = [at |-> "answered", who |-> "icp", yaw |-> 0, iter |-> 0, valid |-> 0,
                    level |-> 1, out |-> best]
        BY <2>1, <3>1 DEF NoRun
      <4> QED
        BY <1>3, <4>1 DEF RunIsSound
    <3>2. CASE ~(matcher = "multi_start_icp" /\ best.converged)
      <4>1. CASE matcher # "multi_start_icp"
        BY <2>1, <3>2, <4>1, StartedIsSound
      <4>2. CASE matcher = "multi_start_icp"
        BY <2>1, <3>2, <4>2, StartedIsSound
      <4> QED
        BY <4>1, <4>2
    <3> QED
      BY <3>1, <3>2
  <2>6. PhaseFitsMatcher'
    BY <1>1, <1>2, <2>2, <2>4 DEF PhaseFitsMatcher
  <2>7. BestSoFar'
    BY <1>3, <1>4, <2>2, <2>4, <2>5 DEF BestSoFar
  <2> QED
    BY <1>1, <2>4, <2>5, <2>6, <2>7, AnswerStays
<1> QED
  BY <1>5, <1>6

\* The calls that end.
LEMMA EndingsKeepInv ==
    ASSUME MatchInv, MatchOnly \/ FineDone \/ ChosenDone \/ SeededDone
    PROVE  MatchInv'
<1>1. RunIsSound /\ CallType /\ PhaseFitsMatcher /\ BestSoFar
  BY DEF MatchInv
<1>2. IsSoundResult(run.out) /\ IsSoundResult(call.best)
      /\ \A t \in call.tried : IsSoundResult(t)
  BY <1>1 DEF RunIsSound, CallType
<1>3. ASSUME BestOfTried(call.best, call.tried), call.tried # {},
             call.best.converged => call.seed = call.best.yaw
      PROVE  /\ call.best.converged
             /\ \A u \in call.tried : call.best.score <= u.score
             /\ \E t \in call.tried : /\ t.yaw = call.seed
                                      /\ \A u \in call.tried : t.score <= u.score
  <2>1. call.best.converged /\ call.best \in call.tried
    BY <1>3 DEF BestOfTried
  <2>2. \A u \in call.tried : call.best.score <= u.score
    BY <1>3, <2>1 DEF BestOfTried
  <2> QED
    BY <1>3, <2>1, <2>2
<1>4. ASSUME MatchOnly PROVE MatchInv'
  <2>1. /\ Return(run.out, FALSE) /\ UNCHANGED matcher /\ call.tried = {}
        /\ matcher \notin {"multi_start_icp", "multi_start_coarse_to_fine"}
    BY <1>1, <1>4 DEF MatchOnly, PhaseFitsMatcher, BestSoFar
  <2> QED
    BY <1>2, <2>1, ReturnKeepsInv
<1>5. ASSUME FineDone PROVE MatchInv'
  <2> DEFINE result == IF ~run.out.converged /\ call.best.converged THEN call.best ELSE run.out
  <2>1. /\ Return(result, FALSE) /\ UNCHANGED matcher /\ matcher = "coarse_to_fine"
        /\ BestOfTried(call.best, call.tried)
        /\ call.best.converged => call.seed = call.best.yaw
    BY <1>1, <1>5 DEF FineDone, PhaseFitsMatcher, BestSoFar
  <2>2. IsSoundResult(result) /\ (call.best.converged => result.converged)
    BY <1>2
  <2> HIDE DEF result
  <2> QED
    BY <1>3, <2>1, <2>2, ReturnKeepsInv
<1>6. ASSUME ChosenDone PROVE MatchInv'
  <2>1. /\ Return(run.out, call.best.converged) /\ UNCHANGED matcher
        /\ matcher = "multi_start_icp" /\ BestOfTried(call.best, call.tried)
        /\ call.best.converged => call.seed = call.best.yaw /\ run.out = call.best
    BY <1>1, <1>6 DEF ChosenDone, PhaseFitsMatcher, BestSoFar
  <2>0. call.best.converged <=> call.tried # {}
    BY <2>1 DEF BestOfTried
  <2>2. call.tried # {} =>
          /\ run.out.converged
          /\ \E t \in call.tried : /\ t.yaw = call.seed
                                   /\ \A u \in call.tried : t.score <= u.score
          /\ \A u \in call.tried : run.out.score <= u.score
    BY <1>3, <2>1
  <2> QED
    BY <1>2, <2>0, <2>1, <2>2, ReturnKeepsInv
<1>7. ASSUME SeededDone PROVE MatchInv'
  <2> DEFINE result == IF run.out.converged THEN run.out
                       ELSE IF call.best.converged THEN call.best ELSE Unmatched(call.guess)
  <2>1. /\ Return(result, TRUE) /\ UNCHANGED matcher
        /\ matcher = "multi_start_coarse_to_fine"
        /\ BestOfTried(call.best, call.tried)
        /\ call.best.converged => call.seed = call.best.yaw
    BY <1>1, <1>7 DEF SeededDone, PhaseFitsMatcher, BestSoFar
  <2>2. IsSoundResult(result) /\ (call.best.converged => result.converged)
    BY <1>2, UnmatchedIsSound
  <2> HIDE DEF result
  <2> QED
    BY <1>3, <2>1, <2>2, ReturnKeepsInv
<1> QED
  BY <1>4, <1>5, <1>6, <1>7

\* Every step keeps the invariant.
LEMMA MatcherStep == MatchInv /\ [MatcherNext]_matcherVars => MatchInv'
<1> SUFFICES ASSUME MatchInv, [MatcherNext]_matcherVars PROVE MatchInv'
  OBVIOUS
<1>1. ASSUME NEW n \in TargetSizes, SetTarget(n) PROVE MatchInv'
  <2>1. UNCHANGED <<matcher, memory, call, run, answer>>
    BY <1>1 DEF SetTarget
  <2> QED
    BY <2>1, AnswerStays DEF MatchInv, RunIsSound, CallType, PhaseFitsMatcher, BestSoFar
<1>2. ASSUME NEW guess \in Yaws, NEW n \in ScanSizes, Match(guess, n) PROVE MatchInv'
  BY <1>2, MatchKeepsInv
<1>3. ASSUME InnerSteps PROVE MatchInv'
  <2>1. /\ RunIsSound' /\ run.at \in {"iterate", "score"}
        /\ UNCHANGED <<matcher, memory, call, answer>>
    BY <1>3, InnerKeepsRun DEF MatchInv
  <2>2. CallType' /\ PhaseFitsMatcher'
    BY <2>1 DEF MatchInv, CallType, PhaseFitsMatcher
  <2>3. BestSoFar'
    BY <2>1 DEF MatchInv, BestSoFar
  <2> QED
    BY <2>1, <2>2, <2>3, AnswerStays
<1>4. ASSUME OuterSteps PROVE MatchInv'
  BY <1>4, CoarseKeepsInv, DirectKeepsInv, HypothesisKeepsInv, EndingsKeepInv DEF OuterSteps
<1>5. ASSUME UNCHANGED matcherVars PROVE MatchInv'
  <2>1. UNCHANGED <<matcher, memory, call, run, answer>>
    BY <1>5 DEF matcherVars
  <2> QED
    BY <2>1, AnswerStays DEF MatchInv, RunIsSound, CallType, PhaseFitsMatcher, BestSoFar
<1> QED
  BY <1>1, <1>2, <1>3, <1>4, <1>5 DEF MatcherNext

\* Whatever the scans and the targets, a converged match carries information, the
\* best of the starts that were tried wins, and the memory is the last match.
THEOREM MatchesAreSound == MatcherSpec => []MatchIsSound
<1>1. MatcherInit => MatchInv
  BY MatchInitially
<1>2. MatchInv /\ [MatcherNext]_matcherVars => MatchInv'
  BY MatcherStep
<1>3. MatchInv => MatchIsSound
  BY DEF MatchInv
<1> QED
  BY <1>1, <1>2, <1>3, PTL DEF MatcherSpec
===============================================================================
