----------------------------- MODULE DenoiseLayer -----------------------------
(***************************************************************************)
(* The denoise layer of the costmap and the image processing it rests on:  *)
(* the labelling of connected obstacles in one scan with a union-find of   *)
(* provisional labels, and the dilation used when single cells go.         *)
(*                                                                         *)
(* A cell of the window is a number, row by row, as in its memory.  The    *)
(* costs are 0 (free), 253 (inscribed), 254 (lethal), 255 (no information) *)
(* and 100 for the rest, which is no obstacle.                             *)
(***************************************************************************)
EXTENDS Integers, FiniteSetsExt

CONSTANTS
  Windows,     \* the windows of the master costmap: rows, cols, pix
  Ways,        \* the values of the parameter group_connectivity_type
  GroupSizes,  \* the values of the parameter minimal_group_size
  NarrowMax    \* the largest label of the narrow label type

VARIABLES
  window,      \* the window that updateCosts was given
  way, least,  \* group_connectivity_type_ and minimal_group_size_
  on,          \* enabled_
  solid,       \* no_information_is_obstacle_
  wide,        \* the remover has changed to its wide label type
  scan,        \* the scan: phase, cursor, labels, trees
  out          \* the window as updateCosts leaves it

denoiseVars == <<window, way, least, on, solid, wide, scan, out>>

Pixels == 0..(window.rows * window.cols - 1)
Row(i) == i \div window.cols
Col(i) == i % window.cols

IsBackground(cost) == ~(cost \in {253, 254} \/ (cost = 255 /\ solid))

-----------------------------------------------------------------------------
(***************************************************************************)
(* The window that slides over the image and over the labels.  Neighbours  *)
(* off the image read as 0; those of a label in the first column of a      *)
(* lower row read what lies before it in memory.                           *)
(***************************************************************************)
OnImage(i, dr, dc) == Row(i) + dr >= 0 /\ Col(i) + dc \in 0..(window.cols - 1)
Image(i, dr, dc) == IF OnImage(i, dr, dc) THEN window.pix[i + dr * window.cols + dc] ELSE 0
Label(i, dr, dc) ==
  IF OnImage(i, dr, dc) \/ (Row(i) > 0 /\ Col(i) = 0 /\ dc = -1)
  THEN scan.labels[i + dr * window.cols + dc] ELSE 0
Filled(i, dr, dc) == ~IsBackground(Image(i, dr, dc))

-----------------------------------------------------------------------------
(***************************************************************************)
(* EquivalenceLabelTrees: trees[l] is the parent of label l, or l.         *)
(***************************************************************************)
LabelsSize ==
  LET cells == window.rows * window.cols
      most == (IF way = 4 THEN cells \div 2 ELSE cells \div 3) + 2
  IN  IF wide THEN most ELSE Min({most, NarrowMax})

FindRoot(trees, l) ==
  LET root[k \in 0..l] == IF trees[k] < k THEN root[trees[k]] ELSE k
  IN  root[l]

\* The labels on the way from l to its root.
Branch(trees, l) ==
  LET up[k \in 0..l] == {k} \cup (IF trees[k] < k THEN up[trees[k]] ELSE {})
  IN  up[l]

SetRoot(trees, l, root) ==
  [k \in DOMAIN trees |-> IF k \in Branch(trees, l) THEN root ELSE trees[k]]

\* mutated form: the other label is not joined
UnionTreesSingle(trees, l, m) ==
  LET root == Min({FindRoot(trees, l), FindRoot(trees, m)})
  IN  [label |-> root, trees |-> SetRoot(trees, l, root), full |-> FALSE]

UnionTrees(trees, l, m) ==
  LET root == Min({FindRoot(trees, l), FindRoot(trees, m)})
      joined == IF l # m THEN SetRoot(trees, m, root) ELSE trees
  IN  [label |-> root, trees |-> SetRoot(joined, l, root), full |-> FALSE]

MakeLabel(trees) ==
  LET l == Cardinality(DOMAIN trees)
  IN  IF l = LabelsSize THEN [label |-> 0, trees |-> trees, full |-> TRUE]
      ELSE [label |-> l, trees |-> [k \in 0..l |-> IF k = l THEN l ELSE trees[k]], full |-> FALSE]

GetLabels(trees) ==
  LET final[l \in DOMAIN trees] ==
        IF trees[l] < l THEN final[trees[l]] ELSE Cardinality({k \in 1..l : trees[k] = k})
  IN  final

-----------------------------------------------------------------------------
(***************************************************************************)
(* The decision trees that give a pixel its label.                         *)
(***************************************************************************)
Take(l) == [label |-> l, trees |-> scan.trees, full |-> FALSE]

PassWay8(i) ==
  LET a == Label(i, -1, -1)  b == Label(i, -1, 0)  c == Label(i, -1, 1)  d == Label(i, 0, -1)
  IN  CASE ~Filled(i, 0, 0) -> Take(0)
        [] Filled(i, 0, 0) /\ b # 0 -> Take(b)
        [] Filled(i, 0, 0) /\ b = 0 /\ Filled(i, -1, 1) ->
             IF Filled(i, -1, -1) THEN UnionTrees(scan.trees, c, a)
             ELSE IF Filled(i, 0, -1) THEN UnionTrees(scan.trees, c, d)
             ELSE Take(c)
        [] OTHER ->
             IF Filled(i, -1, -1) THEN Take(a)
             ELSE IF Filled(i, 0, -1) THEN Take(d)
             ELSE MakeLabel(scan.trees)

PassWay4(i) ==
  LET b == Label(i, -1, 0)  d == Label(i, 0, -1)
  IN  CASE ~Filled(i, 0, 0) -> Take(0)
        [] Filled(i, 0, 0) /\ Filled(i, -1, 0) ->
             IF Filled(i, 0, -1) THEN UnionTrees(scan.trees, d, b) ELSE Take(b)
        [] OTHER -> IF Filled(i, 0, -1) THEN Take(d) ELSE MakeLabel(scan.trees)

-----------------------------------------------------------------------------
(***************************************************************************)
(* The dilation: the central row of the shape, then its upper and lower    *)
(* rows where the image has one.                                           *)
(***************************************************************************)
Seen(cost) == IF cost = 255 /\ ~solid THEN 0 ELSE cost

Shape(dr, dc) == <<dr, dc>> # <<0, 0>> /\ (way = 8 \/ dr = 0 \/ dc = 0)

ProbeRow(i, dr) ==
  Max({0} \cup {Seen(Image(i, dr, dc)) : dc \in {k \in {-1, 0, 1} : Shape(dr, k)}})

Dilated(i) ==
  Max({ProbeRow(i, dr) : dr \in {k \in {-1, 0, 1} : Row(i) + k \in 0..(window.rows - 1)}})

RemoveSinglePixels ==
  [i \in Pixels |->
     IF ~IsBackground(window.pix[i]) /\ IsBackground(Dilated(i)) THEN 0 ELSE window.pix[i]]

-----------------------------------------------------------------------------
(***************************************************************************)
(* updateCosts, the scan pixel by pixel, and the removal of small groups.  *)
(***************************************************************************)
NoScan == [phase |-> "idle", at |-> 0, labels |-> <<>>, trees |-> <<>>]
FirstPixel == [phase |-> "scan", at |-> 0, labels |-> [i \in {} |-> 0], trees |-> [l \in {0} |-> 0]]

DenoiseUpdateCosts(w) ==
  /\ scan.phase = "idle"
  /\ window' = w
  /\ out' = w.pix
  /\ scan' = [FirstPixel EXCEPT !.phase =
                IF ~on THEN "off"
                ELSE IF w.rows * w.cols = 0 \/ least <= 1 THEN "done"
                ELSE IF least = 2 THEN "singles" ELSE "scan"]
  /\ UNCHANGED <<way, least, on, solid, wide>>

Singles ==
  /\ scan.phase = "singles"
  /\ out' = RemoveSinglePixels
  /\ scan' = [scan EXCEPT !.phase = "done"]
  /\ UNCHANGED <<window, way, least, on, solid, wide>>

Pass == IF way = 8 THEN PassWay8(scan.at) ELSE PassWay4(scan.at)

ScanPixel ==
  /\ scan.phase = "scan" /\ scan.at \in Pixels
  /\ ~Pass.full
  /\ scan' = [scan EXCEPT !.at = @ + 1, !.trees = Pass.trees,
                          !.labels = [i \in 0..scan.at |-> IF i = scan.at THEN Pass.label
                                                           ELSE scan.labels[i]]]
  /\ UNCHANGED <<window, way, least, on, solid, wide, out>>

\* The labels are used up: the scan begins again with the wide type, or fails.
LabelOverflow ==
  /\ scan.phase = "scan" /\ scan.at \in Pixels
  /\ Pass.full
  /\ wide' = TRUE
  /\ scan' = IF wide THEN [scan EXCEPT !.phase = "failed"] ELSE FirstPixel
  /\ UNCHANGED <<window, way, least, on, solid, out>>

Groups ==
  LET final == GetLabels(scan.trees)
  IN  [i \in Pixels |-> final[scan.labels[i]]]

Histogram(group) ==
  [g \in {group[i] : i \in Pixels} |->
     Min({Cardinality({i \in Pixels : group[i] = g}), least + 1})]

RemoveGroups ==
  /\ scan.phase = "scan" /\ scan.at \notin Pixels
  /\ LET group == Groups
         sizes == Histogram(group)
     IN  out' = [i \in Pixels |-> IF ~IsBackground(window.pix[i]) /\ sizes[group[i]] < least
                                  THEN 0 ELSE window.pix[i]]
  /\ scan' = [scan EXCEPT !.phase = "done"]
  /\ UNCHANGED <<window, way, least, on, solid, wide>>

DenoiseInit ==
  /\ window = [rows |-> 0, cols |-> 0, pix |-> <<>>]
  /\ \E w \in Ways : way = IF w = 4 THEN 4 ELSE 8
  /\ \E n \in GroupSizes : least = IF n <= 1 THEN 1 ELSE n
  /\ on \in BOOLEAN /\ solid \in BOOLEAN
  /\ wide \in BOOLEAN   \* TRUE if an earlier update ran out of narrow labels
  /\ scan = NoScan
  /\ out = <<>>

DenoiseNext ==
  \/ scan.phase = "idle" /\ \E w \in Windows : DenoiseUpdateCosts(w)
  \/ Singles \/ ScanPixel \/ LabelOverflow \/ RemoveGroups

-----------------------------------------------------------------------------
(***************************************************************************)
(* The layer removes the small groups and nothing else: when updateCosts   *)
(* is done, an obstacle cell has become free if it belongs to a connected  *)
(* group (as the connectivity defines it) of fewer than minimal_group_size *)
(* cells, and every other cell is as it was, whichever of the two          *)
(* algorithms and of the two label types did the work.                     *)
(***************************************************************************)
Adjacent(i, j) ==
  LET dr == Row(i) - Row(j)  dc == Col(i) - Col(j)
  IN  i # j /\ dr \in -1..1 /\ dc \in -1..1 /\ (way = 8 \/ dr = 0 \/ dc = 0)

Obstacles == {i \in Pixels : ~IsBackground(window.pix[i])}

GroupOf(i) ==
  LET grow[n \in Nat] ==
        IF n = 0 THEN {i}
        ELSE LET g == grow[n - 1] IN g \cup {j \in Obstacles : \E k \in g : Adjacent(j, k)}
  IN  grow[Cardinality(Obstacles)]

SmallGroupsAreRemoved ==
  scan.phase = "done" =>
    out = [i \in Pixels |->
             IF i \in Obstacles /\ Cardinality(GroupOf(i)) < least THEN 0 ELSE window.pix[i]]

(***************************************************************************)
(* The labels suffice: the scan never runs out of the labels that          *)
(* maxLabels allows for the window's size.                                 *)
(***************************************************************************)
LabelsSuffice == scan.phase # "failed"

(***************************************************************************)
(* updateCosts of the layer does exactly what its parameters ask for, and  *)
(* never fails for want of labels (denoise/image_processing.hpp).          *)
(***************************************************************************)
DenoiseIsExact == SmallGroupsAreRemoved /\ LabelsSuffice
=============================================================================
