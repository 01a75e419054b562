----------------------------- MODULE CsmMatcher -----------------------------
(***************************************************************************)
(* MultiResCSMMatcher under ScanMatchingBuilder::add_near_keyframe_links:   *)
(* the near candidates of a keyframe are matched in batches, one outer      *)
(* thread per request and a team of threads inside each, against targets    *)
(* kept in an LRU cache; a poor correlation falls back to one shared ICP.   *)
(* The plane is a line: positions and headings are integers, a coarse step  *)
(* is two fine ones, and Scan gives the scan's points (relative to their    *)
(* centroid) at every heading.  A thread's pass over one heading touches    *)
(* only its own best candidate, so it is one step.                          *)
(***************************************************************************)
EXTENDS Integers, Sequences, FiniteSets, SequencesExt, FiniteSetsExt

CONSTANTS
  Keys,           \* the keyframes that can be candidates
  Points,         \* their points: key -> set of positions (empty: no cloud)
  Guess,          \* initial guess of each: key -> [x, theta]
  Scan,           \* heading -> sequence of positions of the current scan
  Nodes,          \* the keyframes processed: their candidates, nearest first
  Threads,        \* inner threads of a match, 1 .. n
  LinearSteps, YawSteps,       \* half the search windows, in coarse steps
  MinPenalty, FullPenalty,     \* the variance penalties, as integers
  BandRows, KernelCells,       \* of LikelihoodGrid::build
  ScoreThreshold, IcpFinds,    \* IcpFinds: the targets on which ICP converges
  MaxTargets,     \* kMaxReusableTargets
  MaxBatch,       \* kMaxBatch
  MaxLinks        \* near_link_max_links_per_node

VARIABLES
  cache,      \* reusable_targets: keys, least recently used first
  active,     \* active_target: a key or Scratch
  near,       \* add_near_keyframe_links(): node, next candidate, batch, phase
  search,     \* the run_match of every request of the batch
  icp,        \* fine_matcher: its target, and who holds icp_mutex
  links       \* the edges added so far: [node, key, result]

csmVars == <<cache, active, near, search, icp, links>>

Scratch == 0
Nobody == 0

ASSUME CacheAssumption == MaxBatch <= MaxTargets

----------------------------------------------------------------------------
(* LikelihoodGrid: cells two fine units wide.                               *)

AbsOf(v) == IF v < 0 THEN -v ELSE v
Trunc2(v) == IF v >= 0 THEN v \div 2 ELSE -((-v) \div 2)
Kernel(d) == CASE d <= 1 -> 4 [] d \in 2 .. 3 -> 2 [] OTHER -> 0
GridMargin == 2 * LinearSteps + 2

\* build(): every row band takes the maximum over the points whose kernel
\* reaches it; positions are relative to the grid's origin
Origin(pts) == Min(pts) - GridMargin
BuildGrid(pts) ==
  LET height == (Max(pts) + GridMargin - Origin(pts) + 1) \div 2 + 1
      Row(p) == Trunc2(p - Origin(pts))
      Reached(p, c) ==
        LET band == c \div BandRows IN
        /\ c >= Max({band * BandRows, Row(p) - KernelCells})
        /\ c <= Min({height - 1, band * BandRows + BandRows - 1, Row(p) + KernelCells})
  IN [c \in 0 .. height - 1 |->
        Max({0} \cup {Kernel(AbsOf(2 * c + 1 - (p - Origin(pts)))) : p \in {q \in pts : Reached(q, c)}})]

Grids == [k \in {j \in Keys : Points[j] # {}} |-> BuildGrid(Points[k])]

\* lookup() and lookup_bilinear(), both in half units of a cell's value
Lookup(k, x) ==
  LET c == Trunc2(x - Origin(Points[k]))
  IN IF c \in DOMAIN Grids[k] THEN 2 * Grids[k][c] ELSE 0
LookupBilinear(k, x) ==
  LET fx == x - Origin(Points[k]) - 1
      c == fx \div 2
  IN IF {c, c + 1} \subseteq DOMAIN Grids[k]
     THEN (2 - (fx % 2)) * Grids[k][c] + (fx % 2) * Grids[k][c + 1]
     ELSE Lookup(k, x)

SumOver(F(_), n) == LET s[i \in 0 .. n] == IF i = 0 THEN 0 ELSE s[i - 1] + F(i) IN s[n]

\* angle_penalty_at() and distance_penalty_at()
Penalty(d) == Max({MinPenalty, FullPenalty - d * d})
Penalised(k, x, theta) == Penalty(theta - Guess[k].theta) * Penalty(x - Guess[k].x)

CoarseScore(k, x, theta) ==
  SumOver(LAMBDA i : Lookup(k, Scan[theta][i] + x), Len(Scan[theta])) * Penalised(k, x, theta)
EvalScore(k, x, theta) ==
  SumOver(LAMBDA i : LookupBilinear(k, Scan[theta][i] + x), Len(Scan[theta]))

----------------------------------------------------------------------------
(* The three stages of run_match.                                           *)

Candidate(s, x, t, o) == [score |-> s, x |-> x, theta |-> t, order |-> o, updated |-> FALSE]
NoOrder == 1000000
InitialBest(k) == Candidate(-1, Guess[k].x, Guess[k].theta, NoOrder)

\* yaw_candidates: the guess, straight ahead and the window, sorted, unique
YawCandidates(k) ==
  SetToSortSeq({0} \cup {Guess[k].theta + 2 * i : i \in -YawSteps .. YawSteps}, <)
FineYaws(b) == <<b.theta - 1, b.theta, b.theta + 1>>

Width == 2 * LinearSteps + 1
CoarseAngle(k, a) ==
  LET theta == YawCandidates(k)[a] IN
  [d \in 1 .. Width |->
     LET x == Guess[k].x + 2 * (d - LinearSteps - 1)
     IN Candidate(CoarseScore(k, x, theta), x, theta, a * Width + d)]
CoarseTable == [k \in DOMAIN Grids |-> [a \in 1 .. Len(YawCandidates(k)) |-> CoarseAngle(k, a)]]

FineAngle(k, b, a) ==
  LET theta == FineYaws(b)[a] IN
  [d \in 1 .. 3 |->
     LET x == b.x + d - 2
     IN Candidate(EvalScore(k, x, theta) * Penalised(k, x, theta), x, theta, a * 3 + d)]

\* a later candidate replaces the best so far: ties go to the search order,
\* and in stage 2 a tie with stage 1 is not an improvement
Better(c, b) == c.score > b.score \/ (c.score = b.score /\ c.order < b.order)
BetterFine(c, b) == IF b.updated THEN Better(c, b) ELSE c.score > b.score

PassCoarse(best, row) ==
  LET kept[d \in 0 .. Len(row)] ==
        IF d = 0 THEN best ELSE LET b == kept[d - 1] IN IF Better(row[d], b) THEN row[d] ELSE b
  IN kept[Len(row)]
PassFine(best, row) ==
  LET kept[d \in 0 .. Len(row)] ==
        IF d = 0 THEN best
        ELSE LET b == kept[d - 1] IN
             IF BetterFine(row[d], b) THEN [row[d] EXCEPT !.updated = TRUE] ELSE b
  IN kept[Len(row)]

\* the thread results are merged in thread order
MergeCoarse(k, best) ==
  LET m[t \in 0 .. Threads] ==
        IF t = 0 THEN InitialBest(k)
        ELSE LET b == m[t - 1] IN IF Better(best[t], b) THEN best[t] ELSE b
  IN m[Threads]
MergeFine(best1, best) ==
  LET m[t \in 0 .. Threads] ==
        IF t = 0 THEN [b |-> best1, found |-> FALSE]
        ELSE LET p == m[t - 1] IN
             IF best[t].updated /\ (~p.found \/ Better(best[t], p.b))
             THEN [b |-> best[t], found |-> TRUE] ELSE p
  IN m[Threads].b

\* fit_peak() around the best candidate, as a fraction of a fine step; the
\* neighbours' scores carry no penalty
Unpenalised(k, x, theta) == EvalScore(k, x, theta) * FullPenalty * FullPenalty
FitPeak(prev, mid, next) ==
  LET denom == prev - 2 * mid + next IN
  IF denom < 0 /\ AbsOf(next - prev) <= -2 * denom THEN <<next - prev, -2 * denom>> ELSE <<0, 1>>

\* stage 3 and the result without ICP
CsmResult(k, b) ==
  [key |-> k, x |-> b.x, theta |-> b.theta, converged |-> b.score >= ScoreThreshold, by |-> "csm",
   peak |-> <<FitPeak(Unpenalised(k, b.x - 1, b.theta), b.score, Unpenalised(k, b.x + 1, b.theta)),
              FitPeak(Unpenalised(k, b.x, b.theta - 1), b.score, Unpenalised(k, b.x, b.theta + 1))>>]
NotMatched(k) == [key |-> k, x |-> Guess[k].x, theta |-> Guess[k].theta, converged |-> FALSE,
                  by |-> "none", peak |-> <<>>]
\* ICPMatcher::match() from the correlation's pose, on the target it was given
IcpResult(target, r) ==
  IF target \in IcpFinds THEN [r EXCEPT !.key = target, !.converged = TRUE, !.by = "icp"] ELSE r

----------------------------------------------------------------------------
(* The target cache.                                                        *)

Without(k) == SelectSeq(cache, LAMBDA j : j # k)
InCache(k) == \E i \in DOMAIN cache : cache[i] = k

\* find_target(): the entry moves to the recently used end
FindTarget(c, k) ==
  IF \E i \in DOMAIN c : c[i] = k THEN Append(SelectSeq(c, LAMBDA j : j # k), k) ELSE c

\* set_reusable_target_cloud_with_normals(): replace, append, evict the oldest
SetReusable(k) ==
  LET c == Append(Without(k), k)
  IN SubSeq(c, IF Len(c) > MaxTargets THEN Len(c) - MaxTargets + 1 ELSE 1, Len(c))

----------------------------------------------------------------------------
(* add_near_keyframe_links.                                                 *)

CandidatesOf == Nodes[near.node]
LinksOf(n) == {i \in DOMAIN links : links[i].node = n}
Want == MaxLinks - Cardinality(LinksOf(near.node))

\* the node's own match uses the scratch target; then the first batch begins
StartNode ==
  /\ near.phase = "idle" /\ near.node < Len(Nodes)
  /\ near' = [node |-> near.node + 1, next |-> 1, end |-> 1, batch |-> <<>>, phase |-> "batch"]
  /\ active' = Scratch
  /\ UNCHANGED <<cache, search, icp, links>>

BeginBatch ==
  /\ near.phase = "batch" /\ Want > 0 /\ near.next <= Len(CandidatesOf)
  /\ near' = [near EXCEPT !.phase = "targets", !.batch = <<>>,
                !.end = near.next + Min({Want, MaxBatch, Len(CandidatesOf) - near.next + 1})]
  /\ UNCHANGED <<cache, active, search, icp, links>>

FinishNode ==
  /\ near.phase = "batch" /\ (Want <= 0 \/ near.next > Len(CandidatesOf))
  /\ near' = [near EXCEPT !.phase = "idle"]
  /\ UNCHANGED <<cache, active, search, icp, links>>

\* mutated form: a target without points is made the active one too
EnsureTargetUnchecked ==
  /\ near.phase = "targets" /\ near.next < near.end
  /\ LET k == CandidatesOf[near.next]
         ok == InCache(k) \/ Points[k] # {}
     IN /\ cache' = IF InCache(k) THEN FindTarget(cache, k) ELSE IF ok THEN SetReusable(k) ELSE cache
        /\ active' = k
        /\ near' = [near EXCEPT !.next = @ + 1, !.batch = IF ok THEN Append(@, k) ELSE @]
  /\ UNCHANGED <<search, icp, links>>

\* ensure_reusable_target() of the next candidate of the batch
EnsureTarget ==
  /\ near.phase = "targets" /\ near.next < near.end
  /\ LET k == CandidatesOf[near.next]
         ok == InCache(k) \/ Points[k] # {}
     IN /\ cache' = IF InCache(k) THEN FindTarget(cache, k) ELSE IF ok THEN SetReusable(k) ELSE cache
        /\ active' = IF ok THEN k ELSE active
        /\ near' = [near EXCEPT !.next = @ + 1, !.batch = IF ok THEN Append(@, k) ELSE @]
  /\ UNCHANGED <<search, icp, links>>

NewSearch(c, k) ==
  [key |-> k, stage |-> IF \E i \in DOMAIN c : c[i] = k THEN "coarse" ELSE "done", angle |-> 1,
   best |-> [t \in 1 .. Threads |-> InitialBest(k)], best1 |-> InitialBest(k),
   result |-> NotMatched(k)]

\* match_reusable_targets(): resolve every key, then one thread per request
MatchReusableTargets ==
  /\ near.phase = "targets" /\ near.next = near.end
  /\ near' = [near EXCEPT !.phase = "matching"]
  /\ LET resolved[i \in 0 .. Len(near.batch)] ==
           IF i = 0 THEN cache ELSE FindTarget(resolved[i - 1], near.batch[i])
     IN /\ cache' = resolved[Len(near.batch)]
        /\ search' = [i \in DOMAIN near.batch |-> NewSearch(resolved[i], near.batch[i])]
  /\ UNCHANGED <<active, icp, links>>

Upd(i, s) == search' = [search EXCEPT ![i] = s] /\ UNCHANGED <<cache, active, near, links>>

\* a thread takes the next heading of stage 1 (schedule(dynamic, 1))
CoarseStep(i, t) ==
  LET s == search[i] IN
  /\ s.stage = "coarse" /\ s.angle <= Len(CoarseTable[s.key])
  /\ Upd(i, [s EXCEPT !.angle = @ + 1, !.best[t] = PassCoarse(@, CoarseTable[s.key][s.angle])])
  /\ UNCHANGED icp

CoarseMerge(i) ==
  LET s == search[i]
      b == MergeCoarse(s.key, s.best)
  IN /\ s.stage = "coarse" /\ s.angle > Len(CoarseTable[s.key])
     /\ Upd(i, [s EXCEPT !.stage = "fine", !.angle = 1, !.best1 = b,
                  !.best = [t \in 1 .. Threads |-> [b EXCEPT !.order = NoOrder]]])
     /\ UNCHANGED icp

FineStep(i, t) ==
  LET s == search[i] IN
  /\ s.stage = "fine" /\ s.angle <= 3
  /\ Upd(i, [s EXCEPT !.angle = @ + 1,
               !.best[t] = PassFine(@, FineAngle(s.key, s.best1, s.angle))])
  /\ UNCHANGED icp

\* merge, interpolate, and see whether ICP is needed
FineMerge(i) ==
  LET s == search[i]
      r == CsmResult(s.key, MergeFine(s.best1, s.best))
  IN /\ s.stage = "fine" /\ s.angle > 3
     /\ Upd(i, [s EXCEPT !.stage = IF r.converged THEN "done" ELSE "fallback", !.result = r])
     /\ UNCHANGED icp

\* the fallback: under icp_mutex the shared ICP gets this request's target ...
IcpTarget(i) ==
  /\ search[i].stage = "fallback" /\ icp.holder = Nobody
  /\ icp' = [target |-> search[i].key, holder |-> i]
  /\ Upd(i, [search[i] EXCEPT !.stage = "icp"])

\* ... and matches on the target it has
IcpMatch(i) ==
  /\ search[i].stage = "icp"
  /\ icp' = [icp EXCEPT !.holder = Nobody]
  /\ Upd(i, [search[i] EXCEPT !.stage = "done", !.result = IcpResult(icp.target, @)])

\* results are accepted in distance order until the node has its links
Accept ==
  /\ near.phase = "matching" /\ \A i \in DOMAIN search : search[i].stage = "done"
  /\ LET found == SelectSeq([i \in DOMAIN search |-> search[i].result], LAMBDA r : r.converged)
         taken == SubSeq(found, 1, Min({Want, Len(found)}))
     IN links' = links \o [i \in DOMAIN taken |-> [node |-> near.node, result |-> taken[i]]]
  /\ near' = [near EXCEPT !.phase = "batch"]
  /\ search' = <<>>
  /\ UNCHANGED <<cache, active, icp>>

CsmInit ==
  /\ cache = <<>> /\ active = Scratch /\ search = <<>> /\ links = <<>>
  /\ near = [node |-> 0, next |-> 1, end |-> 1, batch |-> <<>>, phase |-> "idle"]
  /\ icp = [target |-> Scratch, holder |-> Nobody]

CsmNext ==
  \/ StartNode \/ BeginBatch \/ FinishNode \/ EnsureTarget \/ MatchReusableTargets \/ Accept
  \/ \E i \in DOMAIN search :
       \/ \E t \in 1 .. Threads : CoarseStep(i, t) \/ FineStep(i, t)
       \/ CoarseMerge(i) \/ FineMerge(i) \/ IcpTarget(i) \/ IcpMatch(i)

----------------------------------------------------------------------------
(* Properties.                                                              *)

\* What one thread going through the candidates in search order would find.
First(cands) == CHOOSE c \in cands : \A d \in cands :
                  c.score > d.score \/ (c.score = d.score /\ c.order <= d.order)
AloneCoarse(k) ==
  First(UNION {ToSet(CoarseTable[k][a]) : a \in DOMAIN CoarseTable[k]})
AloneFine(k) ==
  LET b == AloneCoarse(k)
      better == {c \in UNION {ToSet(FineAngle(k, b, a)) : a \in 1 .. 3} : c.score > b.score}
  IN IF better = {} THEN b ELSE First(better)
Alone == [k \in DOMAIN Grids |->
            LET r == CsmResult(k, AloneFine(k)) IN IF r.converged THEN r ELSE IcpResult(k, r)]

(* The links of a keyframe are the ones a single thread would add, matching   *)
(* the candidates one after the other, each against its own points: neither   *)
(* the dynamic assignment of headings to threads, nor the batches, the cache  *)
(* that evicts targets, or the ICP the requests share shows in the result.    *)
LinksAreSequential ==
  \A n \in 1 .. near.node :
    LET cands == SelectSeq(Nodes[n], LAMBDA k : Points[k] # {} /\ Alone[k].converged)
        want == SubSeq(cands, 1, Min({MaxLinks, Len(cands)}))
        got == SelectSeq(links, LAMBDA l : l.node = n)
    IN /\ Len(got) <= Len(want)
       /\ \A i \in DOMAIN got : got[i].result = Alone[want[i]]
       /\ (n < near.node \/ near.phase = "idle") => Len(got) = Len(want)

(* The raw pointer to the target in use never dangles: it is the scratch      *)
(* target or one the cache still owns, and the batch's targets stay cached    *)
(* while the threads read them.                                               *)
TargetsOutliveTheirUse ==
  /\ active = Scratch \/ InCache(active)
  /\ \A i \in DOMAIN search : search[i].stage # "done" => InCache(search[i].key)
  /\ Len(cache) <= MaxTargets

(* A batch matched in parallel is the sequential search (match_reusable_      *)
(* targets), and no pointer it works with outlives its target.                *)
BatchIsFaithful == LinksAreSequential /\ TargetsOutliveTheirUse
=============================================================================
