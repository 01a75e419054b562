---------------------------- MODULE ScanMatchers ----------------------------
(***************************************************************************)
(* The scan matchers of slam_gnss_2d other than the multi resolution one   *)
(* (CsmMatcher): point-to-line ICP, NDT, the exhaustive correlative search *)
(* and the three matchers composed of them, as component_factory.hpp       *)
(* builds them.  A matcher keeps its target between calls, and the         *)
(* multi-start matchers keep the rotation they last found.                 *)
(*                                                                         *)
(* The control is kept: every refusal, the iterations and what ends them,  *)
(* the levels of NDT, the order of the hypotheses and which result is      *)
(* returned.  The arithmetic is an outcome: an iteration finds some number *)
(* of correspondences and moves the pose by a small or a large step.  A    *)
(* pose is its rotation (hypotheses differ in nothing else), and a score   *)
(* is the sum of the costs over the FullScan points of a scan, which       *)
(* orders results as the mean the code returns does.                       *)
(***************************************************************************)
EXTENDS Integers, Sequences, FiniteSets

CONSTANTS
    MatcherTypes,       \* scan_matching.type and loop_closure.matcher_type
    NormalNeighbors,    \* kNormalNeighbors
    MinCorrespondences, \* kMinCorrespondences of icp_matcher and csm_matcher
    MinNdt,             \* kMinCorrespondences of ndt_matcher
    MaxIterations,
    Levels,             \* how many cell sizes NDT has
    FullScan,           \* the points of a scan long enough to be matched
    CostMax,            \* c_max: what a point without correspondence costs
    FastScore,          \* a direct match below this is taken at once
    Yaws,               \* the rotations, a set of integers around 0
    Offsets,            \* the rotation offsets of the grid of hypotheses
    TargetSizes, ScanSizes, \* the sizes of the clouds explored
    MaxMatches          \* bound on the number of calls of match

ASSUME MatcherAssumption ==
    /\ MatcherTypes \subseteq {"icp", "ndt", "csm", "coarse_to_fine",
                               "multi_start_icp", "multi_start_coarse_to_fine"}
    /\ Yaws \subseteq Int /\ 0 \in Yaws
    /\ FullScan \in Nat
    /\ MinCorrespondences \in 1 .. FullScan /\ MinNdt \in 1 .. FullScan
    /\ Levels \in Nat \ {0} /\ MaxIterations \in Nat /\ CostMax \in Nat

VARIABLES
    matcher,    \* the type the factory built
    aim,        \* the target cloud as the inner matchers hold it
    memory,     \* has_last_yaw_ and last_matched_dyaw_
    call,       \* the call of match in progress
    run,        \* the inner matcher at work
    answer      \* what the last call returned, how it came about, and the
                \* rotation of the last call a start of which converged

matcherVars == <<matcher, aim, memory, call, run, answer>>

NoResult == [yaw |-> 0, converged |-> FALSE, info |-> FALSE, score |-> 0]

\* The result every matcher gives when it cannot begin.
Unmatched(guess) == [NoResult EXCEPT !.yaw = guess]

NoRun  == [at |-> "idle", who |-> "icp", yaw |-> 0, iter |-> 0, valid |-> 0,
           level |-> 1, out |-> NoResult]
NoCall == [phase |-> "none", guess |-> 0, points |-> 0, pending |-> <<>>,
           best |-> NoResult, seed |-> 0, tried |-> {}, count |-> 0]

\* What the factory makes of a type: the matcher that runs alone or first, and
\* the one that refines.
Coarse(t) == IF t \in {"coarse_to_fine", "multi_start_coarse_to_fine", "ndt"}
             THEN "ndt" ELSE IF t = "csm" THEN "csm" ELSE "icp"

MatcherInit ==
    /\ matcher \in MatcherTypes
    /\ aim = [points |-> 0, tree |-> FALSE, cells |-> {}]
    /\ memory = [has |-> FALSE, yaw |-> 0]
    /\ call = NoCall /\ run = NoRun
    /\ answer = [result |-> NoResult, tried |-> {}, seed |-> 0, found |-> FALSE,
                 yaw |-> 0]

-----------------------------------------------------------------------------
(* Targets.  ICP needs NormalNeighbors points for its normals, CSM needs   *)
(* MinCorrespondences; NDT keeps the cells of each level that hold three   *)
(* points or more.                                                         *)

IcpTree(n) == n >= NormalNeighbors

CsmTree(n) == n >= MinCorrespondences

NdtCells(n) == IF n < 3 THEN {{}} ELSE SUBSET (1 .. Levels)

\* Normals handed over with the cloud are used when there is one per point;
\* otherwise they are estimated: either way the tree is built or dropped.
SetTarget(n) ==
    /\ call.phase = "none"
    /\ \E cells \in NdtCells(n) :
         aim' = [points |-> n, cells |-> cells,
                 tree   |-> IF matcher = "csm" THEN CsmTree(n) ELSE IcpTree(n)]
    /\ UNCHANGED <<matcher, memory, call, run, answer>>

-----------------------------------------------------------------------------
(* An inner matcher starts, or answers at once that it cannot.             *)

Answered(result) == [run EXCEPT !.at = "answered", !.out = result]

Started(who, guess, n) ==
    LET least  == IF who = "ndt" THEN MinNdt ELSE MinCorrespondences
        usable == /\ n >= least /\ aim.points > 0
                  /\ IF who = "ndt" THEN TRUE ELSE aim.tree
    IN  [NoRun EXCEPT !.who = who, !.yaw = guess,
                      !.at  = IF usable THEN "iterate" ELSE "answered",
                      !.out = Unmatched(guess)]

\* The sum of the costs, where too few points in reach count as none.
Score(valid, cost, least) ==
    IF valid >= least THEN valid * cost + (FullScan - valid) * CostMax
                      ELSE FullScan * CostMax

\* ICP: an iteration with too few correspondences gives up where it stands.
IcpIterate ==
    /\ run.at = "iterate" /\ run.who = "icp" /\ run.iter < MaxIterations
    /\ \E valid \in 0 .. FullScan, yaw \in Yaws :
         run' = IF valid < MinCorrespondences
                THEN Answered(Unmatched(run.yaw))
                ELSE [run EXCEPT !.yaw = yaw, !.valid = valid, !.iter = @ + 1,
                                 !.at = IF yaw = run.yaw THEN "score" ELSE "iterate"]
    /\ UNCHANGED <<matcher, aim, memory, call, answer>>

\* The iterations are used up: not converged, with the information so far.
IcpExhausted ==
    /\ run.at = "iterate" /\ run.who = "icp" /\ run.iter = MaxIterations
    /\ run' = Answered([NoResult EXCEPT !.yaw = run.yaw, !.info = run.valid > 0])
    /\ UNCHANGED <<matcher, aim, memory, call, answer>>

IcpScore ==
    /\ run.at = "score" /\ run.who = "icp"
    /\ \E valid \in 0 .. FullScan, cost \in 0 .. CostMax - 1 :
         run' = Answered([yaw |-> run.yaw, converged |-> TRUE, info |-> run.valid > 0,
                          score |-> Score(valid, cost, MinCorrespondences)])
    /\ UNCHANGED <<matcher, aim, memory, call, answer>>

-----------------------------------------------------------------------------
(* NDT runs the levels from the coarsest cells to the finest, each from    *)
(* the pose of the one before; only a failure of the first ends it early.  *)

NdtLevelDone(result) ==
    IF run.level = Levels \/ (~result.converged /\ run.level = 1)
    THEN Answered(result)
    ELSE [NoRun EXCEPT !.at = "iterate", !.who = "ndt", !.yaw = result.yaw,
                       !.level = run.level + 1]

\* Too few correspondences end the level as the iterations used up do, with
\* the information of the last good iteration.
NdtIterate ==
    /\ run.at = "iterate" /\ run.who = "ndt" /\ run.level \in aim.cells
    /\ LET failed == [NoResult EXCEPT !.yaw = run.yaw, !.info = run.valid > 0]
       IN  \/ /\ run.iter = MaxIterations
              /\ run' = NdtLevelDone(failed)
           \/ /\ run.iter < MaxIterations
              /\ \E valid \in 0 .. FullScan, yaw \in Yaws :
                   run' = IF valid < MinNdt
                          THEN NdtLevelDone(failed)
                          ELSE [run EXCEPT !.yaw = yaw, !.valid = valid, !.iter = @ + 1,
                                           !.at = IF yaw = run.yaw THEN "score" ELSE "iterate"]
    /\ UNCHANGED <<matcher, aim, memory, call, answer>>

NdtEmptyLevel ==
    /\ run.at = "iterate" /\ run.who = "ndt" /\ run.level \notin aim.cells
    /\ run' = NdtLevelDone(Unmatched(run.yaw))
    /\ UNCHANGED <<matcher, aim, memory, call, answer>>

NdtScore ==
    /\ run.at = "score" /\ run.who = "ndt"
    /\ \E valid \in 0 .. FullScan, cost \in 0 .. CostMax - 1 :
         run' = NdtLevelDone([yaw |-> run.yaw, converged |-> TRUE, info |-> run.valid > 0,
                              score |-> Score(valid, cost, MinNdt)])
    /\ UNCHANGED <<matcher, aim, memory, call, answer>>

\* CSM: of the poses of the window with enough correspondences the one with the
\* largest sum of weights, if there is any.  Its score grows with the overlap.
CsmSearch ==
    /\ run.at = "iterate" /\ run.who = "csm"
    /\ \/ run' = Answered(Unmatched(run.yaw))
       \/ \E yaw \in Yaws, valid \in MinCorrespondences .. FullScan :
            run' = Answered([yaw |-> yaw, converged |-> valid > 0, info |-> valid > 0,
                             score |-> valid])
    /\ UNCHANGED <<matcher, aim, memory, call, answer>>

-----------------------------------------------------------------------------
(* The composed matchers.                                                  *)

\* The starting rotations of a multi-start search, in the order they are tried.
Hypotheses(guess) ==
    LET grid == [i \in 1 .. Len(Offsets) |-> guess + Offsets[i]]
    IN  <<guess, 0>> \o (IF memory.has THEN <<memory.yaw>> ELSE <<>>)
                     \o SelectSeq(grid, LAMBDA y : y \in Yaws)

\* mutated form: the last converged start wins
BetterMatchLast(result, best) == result.converged

BetterMatch(result, best) == result.converged /\ (best.converged => result.score < best.score)

Match(guess, n) ==
    /\ call.phase = "none" /\ call.count < MaxMatches
    /\ LET first == CASE matcher = "multi_start_icp" -> "hypotheses"
                      [] matcher = "multi_start_coarse_to_fine" -> "direct"
                      [] matcher = "coarse_to_fine" -> "coarse"
                      [] OTHER -> "only"
           who   == IF first = "direct" THEN "icp" ELSE Coarse(matcher)
       IN  /\ call' = [NoCall EXCEPT !.phase = first, !.guess = guess, !.points = n,
                                     !.pending = Tail(Hypotheses(guess)),
                                     !.count = call.count + 1]
           /\ run' = Started(who, guess, n)
    /\ answer' = [answer EXCEPT !.result = NoResult, !.tried = {}, !.seed = 0]
    /\ UNCHANGED <<matcher, aim, memory>>

\* The call returns; the multi-start matchers remember the rotation they found.
Return(result, learn) ==
    /\ call' = [NoCall EXCEPT !.count = call.count]
    /\ run' = NoRun
    /\ memory' = IF learn /\ result.converged THEN [has |-> TRUE, yaw |-> result.yaw]
                                              ELSE memory
    /\ LET found == result.converged /\ (matcher = "multi_start_icp" => call.tried # {})
       IN  answer' = [result |-> result, tried |-> call.tried, seed |-> call.seed,
                      found |-> answer.found \/ found,
                      yaw |-> IF found THEN result.yaw ELSE answer.yaw]

MatchOnly ==
    /\ run.at = "answered" /\ call.phase = "only"
    /\ Return(run.out, FALSE)
    /\ UNCHANGED <<matcher, aim>>

\* Coarse to fine: the fine match starts where the coarse one converged, and
\* the coarse result stands in for a fine one that did not converge.
CoarseDone ==
    /\ run.at = "answered" /\ call.phase = "coarse"
    /\ LET seed == IF run.out.converged THEN run.out.yaw ELSE call.guess
       IN  /\ call' = [call EXCEPT !.phase = "fine", !.best = run.out, !.seed = seed,
                                   !.tried = {t \in {run.out} : t.converged}]
           /\ run' = Started("icp", seed, call.points)
    /\ UNCHANGED <<matcher, aim, memory, answer>>

FineDone ==
    /\ run.at = "answered" /\ call.phase = "fine"
    /\ Return(IF ~run.out.converged /\ call.best.converged THEN call.best ELSE run.out,
              FALSE)
    /\ UNCHANGED <<matcher, aim>>

\* Multi-start coarse to fine: the direct match is taken when it is good enough.
DirectDone ==
    /\ run.at = "answered" /\ call.phase = "direct"
    /\ IF run.out.converged /\ run.out.score < FastScore
       THEN Return(run.out, TRUE)
       ELSE /\ call' = [call EXCEPT !.phase = "hypotheses"]
            /\ run' = Started("ndt", call.guess, call.points)
            /\ UNCHANGED <<memory, answer>>
    /\ UNCHANGED <<matcher, aim>>

\* One hypothesis has been matched; the next one starts, or the search ends.
HypothesisDone ==
    /\ run.at = "answered" /\ call.phase = "hypotheses"
    /\ LET best  == IF BetterMatch(run.out, call.best) THEN run.out ELSE call.best
           tried == call.tried \cup {t \in {run.out} : t.converged}
           seed  == IF best.converged THEN best.yaw ELSE call.guess
       IN  IF call.pending # <<>>
           THEN /\ call' = [call EXCEPT !.best = best, !.tried = tried,
                                        !.pending = Tail(@)]
                /\ run' = Started(run.who, Head(call.pending), call.points)
           ELSE /\ call' = [call EXCEPT !.best = best, !.tried = tried, !.seed = seed,
                                        !.phase = IF matcher = "multi_start_icp"
                                                  THEN "chosen" ELSE "seeded"]
                /\ run' = IF matcher # "multi_start_icp"
                          THEN Started("icp", seed, call.points)
                          ELSE IF best.converged THEN [NoRun EXCEPT !.at = "answered", !.out = best]
                          ELSE Started("icp", call.guess, call.points)
    /\ UNCHANGED <<matcher, aim, memory, answer>>

\* Multi-start ICP returns the best result, or matches from the guess again.
ChosenDone ==
    /\ run.at = "answered" /\ call.phase = "chosen"
    /\ Return(run.out, call.best.converged)
    /\ UNCHANGED <<matcher, aim>>

\* The refinement from the best coarse result, which stands in for it.
SeededDone ==
    /\ run.at = "answered" /\ call.phase = "seeded"
    /\ Return(IF run.out.converged THEN run.out
              ELSE IF call.best.converged THEN call.best ELSE Unmatched(call.guess), TRUE)
    /\ UNCHANGED <<matcher, aim>>

InnerSteps ==
    \/ IcpIterate \/ IcpExhausted \/ IcpScore
    \/ NdtIterate \/ NdtEmptyLevel \/ NdtScore \/ CsmSearch

OuterSteps ==
    \/ MatchOnly \/ CoarseDone \/ FineDone \/ DirectDone
    \/ HypothesisDone \/ ChosenDone \/ SeededDone

MatcherNext ==
    \/ \E n \in TargetSizes : SetTarget(n)
    \/ \E guess \in Yaws, n \in ScanSizes : Match(guess, n)
    \/ InnerSteps \/ OuterSteps

MatcherSpec == MatcherInit /\ [][MatcherNext]_matcherVars

-----------------------------------------------------------------------------
(* Properties.                                                             *)

\* A converged result was measured: its information matrix was filled in from
\* at least one correspondence and is not the zero matrix of the paths that
\* give up.  (Whether that matrix is positive definite is arithmetic that the
\* model leaves out: ndt_matcher clamps its entries one by one.)
ConvergedHasInformation == answer.result.converged => answer.result.info

\* The multi-start search loses no result: it starts the refinement at the best
\* of the poses that converged, a multi-start ICP returns one that none beats,
\* and a call fails only when no start converged.
BestStartWins ==
    answer.tried # {} =>
      /\ answer.result.converged
      /\ \E t \in answer.tried : /\ t.yaw = answer.seed
                                 /\ \A u \in answer.tried : t.score <= u.score
      /\ matcher = "multi_start_icp" =>
           \A u \in answer.tried : answer.result.score <= u.score

\* The constant-velocity hypothesis of the two multi-start matchers is the
\* rotation of the last match that was returned converged, whichever way it was
\* found.  (When no start converged, multi-start ICP repeats the first one and
\* forgets it.)
MemoryIsTheLastMatch ==
    matcher \in {"multi_start_icp", "multi_start_coarse_to_fine"} =>
      /\ memory.has = answer.found
      /\ memory.has => memory.yaw = answer.yaw

\* What the builders rely on when match() returns converged: information that
\* comes from correspondences, the best of the starts that were tried, and a
\* motion hypothesis for the next call that comes from this one.
MatchIsSound ==
    /\ ConvergedHasInformation
    /\ BestStartWins
    /\ MemoryIsTheLastMatch
=============================================================================
