----------------------------- MODULE SlamFiles -----------------------------
(***************************************************************************)
(* How a map made by slam_gnss_2d is saved and read back: the save service *)
(* of the SLAM node and SlamDataSaver, the command save_slam_map_cli that  *)
(* calls it and stores the occupancy grid, the two nodes that answer       *)
(* get_pose_graph (the SLAM node and pose_graph_preview_node), and the     *)
(* reader of gnss_transform.yaml in the navigation bridge.                 *)
(*                                                                         *)
(* A node is its index and an edge its two nodes and whether the loop      *)
(* builder made it; near links are edges over more than one index that the *)
(* sequential builder made.  A session is one run of the SLAM node.        *)
(***************************************************************************)
EXTENDS ListLoops

CONSTANTS
    MaxFileNodes,       \* bound on the nodes of a graph
    MaxSessions,    \* bound on the runs of the SLAM node
    MaxCalls,       \* bound on the calls of the command
    GridRows, GridColumns,
    RenderedMaps           \* the rendered maps: rows from the bottom, then columns

ASSUME FilesAssumption ==
    /\ MaxFileNodes \in Nat /\ MaxSessions \in Nat \ {0} /\ MaxCalls \in Nat \ {0}
    /\ GridRows \in Nat \ {0} /\ GridColumns \in Nat \ {0}
    /\ RenderedMaps \subseteq [1 .. GridRows -> [1 .. GridColumns -> -1 .. 100]]

VARIABLES
    slam,       \* the SLAM node: session, nodes, edges, anchor, published map
    disk,       \* the map directory
    cli,        \* save_slam_map_cli
    preview,    \* what pose_graph_preview_node loaded, when it is up
    bridge,     \* what load_transform gave: a session, 0 for none
    history     \* what was really there: the graph saved last, the grid written

fileVars == <<slam, disk, cli, preview, bridge, history>>

\* An optional value is the set of it: {} when there is none.
Absent == {}

IndexGap(e) == IF e.to > e.from THEN e.to - e.from ELSE e.from - e.to

FilesInit ==
    /\ slam = [up |-> TRUE, session |-> 1, nodes |-> 1, edges |-> <<>>,
               anchor |-> FALSE, map |-> Absent]
    /\ disk = [graph |-> Absent, transform |-> 0, image |-> Absent]
    /\ cli = [at |-> "off", calls |-> 0, pending |-> 0, answer |-> "none"]
    /\ preview = [up |-> FALSE, graph |-> Absent, map |-> Absent]
    /\ bridge = 0
    /\ history = [saved |-> {}, grid |-> Absent, answered |-> FALSE]

-----------------------------------------------------------------------------
(* The SLAM node, as far as its files are concerned.                       *)

\* A keyframe: a node, its sequential edge, and perhaps a link or a loop to an
\* older node.
AddKeyframe(extra) ==
    /\ slam.up /\ slam.nodes < MaxFileNodes
    /\ slam' = [slam EXCEPT
         !.nodes = @ + 1,
         !.edges = @ \o <<[from |-> slam.nodes - 1, to |-> slam.nodes, loop |-> FALSE]>>
                     \o extra]
    /\ UNCHANGED <<disk, cli, preview, bridge, history>>

SetAnchor ==
    /\ slam.up /\ ~slam.anchor
    /\ slam' = [slam EXCEPT !.anchor = TRUE]
    /\ UNCHANGED <<disk, cli, preview, bridge, history>>

MapIsPublished(grid) ==
    /\ slam.up /\ slam.map = Absent
    /\ slam' = [slam EXCEPT !.map = {grid}]
    /\ UNCHANGED <<disk, cli, preview, bridge, history>>

Stop ==
    /\ slam.up
    /\ slam' = [slam EXCEPT !.up = FALSE]
    /\ cli' = [cli EXCEPT !.pending = 0]
    /\ UNCHANGED <<disk, preview, bridge, history>>

Restart ==
    /\ ~slam.up /\ slam.session < MaxSessions
    /\ slam' = [up |-> TRUE, session |-> slam.session + 1, nodes |-> 1, edges |-> <<>>,
                anchor |-> FALSE, map |-> Absent]
    /\ UNCHANGED <<disk, cli, preview, bridge, history>>

-----------------------------------------------------------------------------
(* Saving.                                                                 *)

\* save_pose_graph: an edge between neighbours in index is sequential in the
\* file, every other one a loop edge, whoever made it.
SavedForm(g) ==
    [nodes |-> 0 .. g.nodes - 1,
     seq   |-> Selected(g.edges, {e \in Range(g.edges) : IndexGap(e) = 1}),
     loop  |-> Selected(g.edges, {e \in Range(g.edges) : IndexGap(e) # 1})]

SavePoseGraph == SavedForm(slam)

\* save_gnss_transform writes the anchor of the session.
SaveGnssTransform == slam.session

\* A file that does not parse reads as a graph of nothing.
BrokenGraph == [nodes |-> {}, seq |-> <<>>, loop |-> <<>>]

\* handle_save.  Both files in turn; the transform only with an anchor, so a file
\* of an earlier session stays.  A stream that cannot be written is not noticed
\* (the old file is truncated, or left when it cannot be opened); a directory
\* that cannot be created is.  Only the last request still has somebody waiting.
HandleSave(directory, stream) ==
    /\ slam.up /\ cli.pending > 0
    /\ LET answered(word) ==
             IF cli.at = "called" /\ cli.pending = 1
             THEN [cli EXCEPT !.at = "answered", !.pending = 0, !.answer = word]
             ELSE [cli EXCEPT !.pending = @ - 1]
       IN
       IF directory
       THEN /\ disk' = [disk EXCEPT
                 !.graph = CASE stream = "written"   -> {SavePoseGraph}
                             [] stream = "truncated" -> {BrokenGraph}
                             [] stream = "closed"    -> @,
                 !.transform = IF slam.anchor THEN SaveGnssTransform ELSE @]
            /\ cli' = answered("saved")
            /\ history' = [history EXCEPT
                 !.saved = IF stream = "written"
                           THEN {[nodes |-> slam.nodes, edges |-> slam.edges]} ELSE @,
                 !.answered = cli'.at = "answered"]
       ELSE /\ cli' = answered("failed")
            /\ UNCHANGED <<disk, history>>
    /\ UNCHANGED <<slam, preview, bridge>>

-----------------------------------------------------------------------------
(* save_slam_map_cli.                                                      *)

CliStart ==
    /\ cli.at \in {"off", "exit0", "exit1"}
    /\ cli.calls < MaxCalls
    /\ cli' = IF slam.up
              THEN [at |-> "called", calls |-> cli.calls + 1, pending |-> cli.pending + 1,
                    answer |-> "none"]
              ELSE [cli EXCEPT !.at = "exit1"]
    /\ history' = [history EXCEPT !.answered = FALSE]
    /\ UNCHANGED <<slam, disk, preview, bridge>>

\* spin_until_future_complete ran out of time: the command fails, and the
\* service still saves when the request is handled.
CliTimeout ==
    /\ cli.at = "called"
    /\ cli' = [cli EXCEPT !.at = "exit1"]
    /\ UNCHANGED <<slam, disk, preview, bridge, history>>

CliAnswer ==
    /\ cli.at = "answered"
    /\ cli' = [cli EXCEPT !.at = IF cli.answer = "saved" THEN "map" ELSE "exit1"]
    /\ UNCHANGED <<slam, disk, preview, bridge, history>>

\* The grey value of a cell.
Pixel(value) ==
    CASE value = 0   -> 254
      [] value = 100 -> 0
      [] value < 0   -> 205
      [] value >= 65 -> 0
      [] value <= 25 -> 254
      [] OTHER       -> 205

\* save_occupancy_grid_as_pgm: rows from the top one down, with the thresholds
\* of map.yaml in hundredths.
SaveOccupancyGrid(grid) ==
    [rows |-> [r \in 1 .. GridRows |->
                 [c \in 1 .. GridColumns |-> Pixel(grid[GridRows + 1 - r][c])]],
     occupied |-> 65, free |-> 25]

\* The map is waited for; without one the command only warns and succeeds.
CliMap ==
    /\ cli.at = "map"
    /\ cli' = [cli EXCEPT !.at = "exit0"]
    /\ \/ UNCHANGED <<disk, history>>
       \/ /\ slam.map # Absent
          /\ disk' = [disk EXCEPT !.image = {SaveOccupancyGrid(grid) : grid \in slam.map}]
          /\ history' = [history EXCEPT !.grid = slam.map]
    /\ UNCHANGED <<slam, preview, bridge>>

-----------------------------------------------------------------------------
(* Reading back.                                                           *)

\* mutated form: the rows are not turned over
LoadMapUpright(image) ==
    [r \in 1 .. GridRows |-> [c \in 1 .. GridColumns |->
       LET occ == 255 - image.rows[r][c]
       IN  CASE occ * 100 > image.occupied * 255 -> 100
             [] occ * 100 < image.free * 255     -> 0
             [] OTHER                            -> -1]]

\* load_map: the image is flipped, and each pixel compared with the thresholds
\* (occ = 1 - pixel / 255, in 255ths).
LoadMap(image) ==
    [r \in 1 .. GridRows |-> [c \in 1 .. GridColumns |->
       LET occ == 255 - image.rows[GridRows + 1 - r][c]
       IN  CASE occ * 100 > image.occupied * 255 -> 100
             [] occ * 100 < image.free * 255     -> 0
             [] OTHER                            -> -1]]

\* The preview node starts; without a pose graph file it loads nothing.
LoadPoseGraph == disk.graph

StartPreview ==
    /\ ~preview.up
    /\ preview' = [up |-> TRUE, graph |-> LoadPoseGraph,
                   map |-> IF disk.graph = Absent THEN Absent
                           ELSE {LoadMap(image) : image \in disk.image}]
    /\ UNCHANGED <<slam, disk, cli, bridge, history>>

StopPreview ==
    /\ preview.up
    /\ preview' = [up |-> FALSE, graph |-> Absent, map |-> Absent]
    /\ UNCHANGED <<slam, disk, cli, bridge, history>>

\* The navigation bridge reads gnss_transform.yaml of the directory.
LoadTransform ==
    /\ bridge # disk.transform
    /\ bridge' = disk.transform
    /\ UNCHANGED <<slam, disk, cli, preview, history>>

\* split_edges: the edges that are not loop edges, told apart by their ends.
SplitEdges(edges) ==
    LET loops == Selected(edges, {e \in Range(edges) : e.loop})
        ends  == {<<e.from, e.to>> : e \in Range(loops)}
    IN  [seq  |-> Selected(edges, {e \in Range(edges) : <<e.from, e.to>> \notin ends}),
         loop |-> loops]

\* build_pose_graph_diff: the message about a graph.
BuildPoseGraphDiff(nodes, edges) == [nodes |-> nodes, seq |-> edges.seq, loop |-> edges.loop]

\* The answer of the running SLAM node to get_pose_graph for a graph.
LiveAnswer(g) == BuildPoseGraphDiff(0 .. g.nodes - 1, SplitEdges(g.edges))

\* Links and loops from the new node to an older one that is not its neighbour.
Extras ==
    LET e(older, loop) == [from |-> older, to |-> slam.nodes, loop |-> loop]
    IN  {<<>>} \cup UNION { {<<e(i, FALSE)>>, <<e(i, TRUE)>>, <<e(i, FALSE), e(i, TRUE)>>} :
                            i \in 0 .. slam.nodes - 2 }

FilesNext ==
    \/ \E x \in Extras : AddKeyframe(x)
    \/ SetAnchor \/ Stop \/ Restart
    \/ \E g \in RenderedMaps : MapIsPublished(g)
    \/ \E d \in BOOLEAN, s \in {"written", "truncated", "closed"} : HandleSave(d, s)
    \/ CliStart \/ CliTimeout \/ CliAnswer \/ CliMap
    \/ StartPreview \/ StopPreview \/ LoadTransform

FilesSpec == FilesInit /\ [][FilesNext]_fileVars

-----------------------------------------------------------------------------
(* Properties.                                                             *)

\* What the preview node reads is the graph the SLAM node wrote last, with every
\* edge of it exactly once; and for a graph without near links it is what the SLAM node
\* itself answers to get_pose_graph.
PreviewShowsASavedGraph ==
    \A shown \in LoadPoseGraph \ {BrokenGraph} :
      \E g \in history.saved :
        /\ shown.nodes = 0 .. g.nodes - 1
        /\ Len(shown.seq) + Len(shown.loop) = Len(g.edges)
        /\ Range(shown.seq) \cup Range(shown.loop) = Range(g.edges)
        /\ (\A e \in Range(g.edges) : e.loop <=> IndexGap(e) # 1) => shown = LiveAnswer(g)

\* A cell that was certainly free or certainly occupied is read back as that, in
\* its place: the rows are reversed twice, and the thresholds part the two.
KnownCellsAreKept ==
    \A image \in disk.image, grid \in history.grid :
      \A r \in 1 .. GridRows, c \in 1 .. GridColumns :
        /\ grid[r][c] >= 65 => LoadMap(image)[r][c] = 100
        /\ grid[r][c] \in 0 .. 25 => LoadMap(image)[r][c] = 0

\* The command succeeds only when the service said so to this call of it.
SuccessWasAnswered == cli.at = "exit0" => history.answered

\* Saving a map and reading it back (save_pose_graph, save_pgm, load_map): the preview
\* shows a graph that was saved, no known cell changes its meaning or its place, and
\* the command line tool never reports a success the service did not answer.
SavedMapIsReadBack ==
    /\ PreviewShowsASavedGraph
    /\ KnownCellsAreKept
    /\ SuccessWasAnswered

\* "pixel = 205;  // Unknown": a cell of which nothing is known is still unknown
\* in the map that is read back.
UnknownStaysUnknown ==
    \A image \in disk.image, grid \in history.grid :
      \A r \in 1 .. GridRows, c \in 1 .. GridColumns :
        grid[r][c] = -1 => LoadMap(image)[r][c] = -1
=============================================================================
