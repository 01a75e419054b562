------------------------------- MODULE MCSlam -------------------------------
(***************************************************************************)
(* The 2D GNSS SLAM in small: seven parts on data of their own, so         *)
(* that one behaviour runs one of them and leaves the others as they       *)
(* began.  Parts says which of them a configuration runs.                  *)
(***************************************************************************)
EXTENDS SlamGraph, CsmMatcher, MapRenderer, ScanMatchers, SlamFiles, SlamInput, NavBridge

CONSTANT Parts
ASSUME PartsAssumption ==
    Parts \subseteq {"graph", "batch", "renderer", "matchers", "files", "input", "bridge"}

VARIABLE runs       \* the part this behaviour is about

vars == <<runs, graphVars, csmVars, renderVars, matcherVars, fileVars, inputVars, bridgeVars>>

-----------------------------------------------------------------------------
(* The graph: five keyframes, three fixes, a correction that bends it.     *)

FixTable == << [x |-> 10, status |-> 1, sigma |-> 3],
               [x |-> 13, status |-> 2, sigma |-> 1],
               [x |-> 15, status |-> 2, sigma |-> 1] >>

BendTable == {[from |-> 1, by |-> 0], [from |-> 2, by |-> 3]}

Good == [fix |-> 0, turn |-> 0, matchTurn |-> 0, converged |-> TRUE, error |-> 4, info |-> 1,
         near |-> 1 .. MaxNodes, loop |-> {}, rot |-> 1, shift |-> 2, fits |-> TRUE]

\* a match that slips along a straight, one in a turn that closes a loop, and
\* a frame in which everything fails
NumericsTable ==
    {Good, [Good EXCEPT !.turn = 3, !.matchTurn = 3, !.loop = 1 .. MaxNodes, !.shift = 1],
     [Good EXCEPT !.converged = FALSE, !.near = {}, !.rot = 0, !.fits = FALSE]}

(* The batch matcher: five targets, one of them empty.                     *)
KeyTable == 1 .. 5
PointTable == <<{2, 7}, {3, 8, 9}, {}, {4, 10}, {0, 1}>>
GuessTable == [k \in KeyTable |-> [x |-> k % 2, theta |-> IF k = 4 THEN 2 ELSE 0]]
ScanTable == [h \in -6 .. 6 |-> CASE h = 0 -> <<0, 1, 1>>
                                 [] h # 0 /\ h % 2 = 0 -> <<2, 7, 9>>
                                 [] OTHER -> <<2, 7, 8>>]
NodeTable == <<<<1, 3, 2>>, <<5, 2, 3, 4, 1>>>>

(* The renderer: two scans, steps that extend the map to either side.      *)
HitTable == <<{-6, 5}, {8, 9}>>
StepTable == {0, 4, -9}
DriftTable == {-3}

(* The matchers.                                                           *)
OffsetTable == <<1>>
YawTable == 0 .. 1

(* The files: a map with every kind of cell, on the thresholds too.        *)
GridTable == {<<<<-1, 65, 0>>, <<25, 50, 100>>>>}

(* The input: odometry every two or three seconds, one message late; fixes *)
(* with a gap.                                                             *)
Msg(t, s, r, st) == [topic |-> t, ts |-> s, recorded |-> r, status |-> st]
FixMsgTable == {[ts |-> 1, status |-> 0], [ts |-> 2, status |-> -1], [ts |-> 4, status |-> 2]}
BagTable ==
    { << Msg("odom", 10, 10, 0), Msg("gnss", 10, 10, 0), Msg("scan", 11, 11, 0),
         Msg("odom", 14, 13, 0), Msg("odom", 12, 14, 0), Msg("scan", 13, 14, 0),
         Msg("gnss", 14, 15, 2), Msg("odom", 16, 16, 0), Msg("scan", 15, 16, 0),
         Msg("scan", 17, 17, 0), Msg("odom", 19, 19, 0), Msg("gnss", 19, 20, -1),
         Msg("scan", 19, 20, 0), Msg("odom", 22, 22, 0), Msg("odom", 24, 24, 0) >>,
      << Msg("scan", 10, 10, 0), Msg("gnss", 11, 12, 1), Msg("scan", 12, 12, 0) >> }
SweepDirections == {-1, 0, 1}
SweepOffset == -1

(* The bridge: two positions far enough apart to publish and one near both; *)
(* all ways are multiples of 45 degrees, three units each.                  *)
PositionTable == {<<0, 0>>, <<6, 0>>, <<6, 6>>}
DirectionTable ==
    [w \in PositionTable \X PositionTable |->
        LET dx == w[2][1] - w[1][1]
            dy == w[2][2] - w[1][2]
        IN CASE dx > 0 /\ dy = 0 -> 0 [] dx > 0 /\ dy > 0 -> 3 [] dx = 0 /\ dy > 0 -> 6
             [] dx < 0 /\ dy > 0 -> 9 [] dx < 0 /\ dy = 0 -> 12 [] dx < 0 /\ dy < 0 -> -9
             [] dx = 0 /\ dy < 0 -> -6 [] dx > 0 /\ dy < 0 -> -3 [] OTHER -> 0]
FloorTable == [fixed |-> 1, float |-> 2, single |-> 2]
ScaleTable == [fixed |-> 100, float |-> 144, single |-> 144]

-----------------------------------------------------------------------------
Init ==
    /\ runs \in Parts
    /\ GraphInit /\ (runs # "graph" => builder.kind = "odom" /\ orch.useGnss /\ ~view.skip)
    \* only the odometry builder draws nothing on the way; the matching builder, which is
    \* part of the loop builder, runs without GNSS
    /\ (view.skip <=> builder.kind = "odom") \/ runs # "graph"
    /\ builder.kind = "matching" => ~orch.useGnss
    /\ CsmInit
    /\ RenderInit /\ (runs # "renderer" => rkind = "counting" /\ missRatio = 0)
    /\ (rkind = "overwrite" => missRatio = 0)
    /\ MatcherInit /\ (runs # "matchers" => matcher = "icp")
    /\ FilesInit
    /\ InputInit /\ (runs # "input" => mode = "live" /\ bag.kind = "fix" /\ bag.dir = 0)
    /\ BridgeInit /\ (runs # "bridge" => loaded)

\* With GNSS the loop builder drives long steps, each a keyframe; short ones, which
\* some frames skip and some end by turning, are for the others.
GraphStep ==
    /\ GraphNext
    /\ input'.odom # input.odom =>
          (input'.odom - input.odom >= MinTranslation <=> builder.kind = "loop" /\ orch.useGnss)

Next ==
    \/ runs = "graph" /\ GraphStep
       /\ UNCHANGED <<runs, csmVars, renderVars, matcherVars, fileVars, inputVars, bridgeVars>>
    \/ runs = "batch" /\ CsmNext
       /\ UNCHANGED <<runs, graphVars, renderVars, matcherVars, fileVars, inputVars, bridgeVars>>
    \/ runs = "renderer" /\ RenderNext
       /\ UNCHANGED <<runs, graphVars, csmVars, matcherVars, fileVars, inputVars, bridgeVars>>
    \/ runs = "matchers" /\ MatcherNext
       /\ UNCHANGED <<runs, graphVars, csmVars, renderVars, fileVars, inputVars, bridgeVars>>
    \/ runs = "files" /\ FilesNext
       /\ UNCHANGED <<runs, graphVars, csmVars, renderVars, matcherVars, inputVars, bridgeVars>>
    \/ runs = "input" /\ InputNext
       /\ UNCHANGED <<runs, graphVars, csmVars, renderVars, matcherVars, fileVars, bridgeVars>>
    \/ runs = "bridge" /\ BridgeNext
       /\ UNCHANGED <<runs, graphVars, csmVars, renderVars, matcherVars, fileVars, inputVars>>

Spec == Init /\ [][Next]_vars
=============================================================================
