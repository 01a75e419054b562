---------------------------- MODULE CostmapFilters ----------------------------
(***************************************************************************)
(* The costmap filters: SpeedFilter, KeepoutFilter and BinaryFilter over   *)
(* their base CostmapFilter.  A filter hears of its mask on one topic and  *)
(* receives the mask on the topic named there; both topics are latched, so *)
(* a new subscription is given the last message, in a later callback.      *)
(*                                                                         *)
(* The world is a line.  A grid has a resolution of its own, of twice the  *)
(* length half, so that the centre of cell c is at (2 c + 1) half.         *)
(***************************************************************************)
EXTENDS Integers, Sequences, FiniteSetsExt

CONSTANTS
  FilterKinds,   \* of "speed", "keepout", "binary"
  Infos,         \* the filter infos: type, base, mult, topic
  MaskTopics, Masks,  \* the topics of the masks, and the masks: origin, half, frame, cells
  Places,        \* where the robot may be
  Master,        \* the master costmap: origin, half and size
  Beneath,       \* the costs that the layers leave for the filters
  Areas,         \* the windows that the layers ask for: <<min_i, max_i>>
  MaskShift,     \* from the global frame to the other frame of masks
  FlipThreshold, DefaultState,
  MaxHappenings  \* bound of what happens to the filter from outside

\* Masks are occupancy grids of any resolution, anywhere.
ASSUME FiltersAssumption ==
  /\ FilterKinds \subseteq {"speed", "keepout", "binary"}
  /\ Infos \subseteq [type : {"percent", "absolute", "binary", "keepout"}, base : Int, mult : Int,
                      topic : MaskTopics]
  /\ Masks \subseteq [origin : Int, half : Nat \ {0}, frame : {"global", "mask"},
                      cells : Seq(-1..100)]
  /\ "" \notin MaskTopics
  /\ Places \subseteq Int /\ MaskShift \in Int /\ DefaultState \in BOOLEAN
  /\ Master \in [origin : Int, half : Nat \ {0}, size : Nat]
  /\ Beneath \subseteq [0..(Master.size - 1) -> 0..255]
  /\ Areas \subseteq Nat \X Nat

VARIABLES
  filter,    \* which filter it is
  enabled,
  active,    \* the costmap is not stopped_
  latched,   \* the last info and the last mask of each topic
  sub,       \* the subscriptions, and whether a message awaits its callback
  conv,      \* base_, multiplier_, percentage_
  mask,      \* the mask in use, or <<>>
  fresh,     \* has_updated_data_ of the keepout filter
  pose,      \* latest_pose_
  speed,     \* speed_limit_ and speed_limit_prev_
  flipped,   \* binary_state_
  pub,       \* the publisher exists
  heard,     \* the last message on the output topic, or <<>>
  crashed,   \* a message was published without a publisher
  last,      \* the last update: phase, area, before, after, ok
  happened

\* What an update leaves alone, and what the callbacks do.
wiring == <<filter, enabled, active, latched, sub, conv, mask, pub>>
effects == <<speed, flipped, pub, heard, crashed, last>>
filterVars == <<wiring, effects, fresh, pose, happened>>

NoLimit == 0
NoInfoCost == 255
Unknown == -1

-----------------------------------------------------------------------------
(***************************************************************************)
(* Places on the mask.  Conversions to an integer truncate towards zero.   *)
(***************************************************************************)
Trunc(x, d) == IF x >= 0 THEN x \div d ELSE -((-x) \div d)

TransformPose(p) == IF mask[1].frame = "global" THEN p ELSE p + MaskShift

\* mutated form: only the truncated index is compared
WorldToMaskTruncated(w) ==
  LET c == Trunc(w - mask[1].origin, 2 * mask[1].half)
  IN  IF c < 0 \/ c >= Len(mask[1].cells) THEN -1 ELSE c

\* The mask's cell at w, or -1 if w is off the mask.
WorldToMask(w) ==
  LET c == Trunc(w - mask[1].origin, 2 * mask[1].half)
  IN  IF w < mask[1].origin \/ c >= Len(mask[1].cells) THEN -1 ELSE c

MaskData(c) == mask[1].cells[c + 1]

-----------------------------------------------------------------------------
(***************************************************************************)
(* Subscribing and resetting.  Every new subscription finds the latched    *)
(* message waiting, if there is one.  A publisher that is reset is a null  *)
(* pointer: to publish through it ends the process.                        *)
(***************************************************************************)
Unsubscribed == [info |-> FALSE, infoNew |-> FALSE, topic |-> "", maskNew |-> FALSE]
DefaultConv == [base |-> 0, mult |-> 1, percent |-> FALSE]
Listening(s) == [s EXCEPT !.info = TRUE, !.infoNew = latched.info # <<>>]

\* changeState: the state and its message.
ChangeState(state) ==
  IF pub THEN flipped' = state /\ heard' = <<state>> /\ UNCHANGED crashed
  ELSE crashed' = TRUE /\ UNCHANGED <<flipped, heard>>

\* initializeFilter of the three filters, with the subscriptions s, and resetFilter.
SpeedInitialize(s) ==
  sub' = Listening(s) /\ pub' = TRUE /\ conv' = DefaultConv /\ UNCHANGED <<flipped, heard, crashed>>

KeepoutInitialize(s) == sub' = Listening(s) /\ UNCHANGED <<pub, conv, flipped, heard, crashed>>

BinaryInitialize(s) ==
  /\ sub' = Listening(s) /\ pub' = TRUE /\ conv' = DefaultConv
  /\ flipped' = DefaultState /\ heard' = <<DefaultState>> /\ UNCHANGED crashed

SpeedReset == sub' = Unsubscribed /\ pub' = FALSE /\ UNCHANGED <<conv, flipped, heard, crashed>>

KeepoutReset == sub' = Unsubscribed /\ UNCHANGED <<pub, conv, flipped, heard, crashed>>

BinaryReset ==
  ChangeState(DefaultState) /\ sub' = Unsubscribed /\ pub' = FALSE /\ UNCHANGED conv

InitializeFilter(s) ==
  CASE filter = "speed" -> SpeedInitialize(s)
    [] filter = "keepout" -> KeepoutInitialize(s)
    [] filter = "binary" -> BinaryInitialize(s)

ResetFilter ==
  CASE filter = "speed" -> SpeedReset
    [] filter = "keepout" -> KeepoutReset
    [] filter = "binary" -> BinaryReset

\* on_deactivate has waited for the update under way.
FilterActivate ==
  /\ ~active /\ last.phase # "bounds"
  /\ active' = TRUE
  /\ InitializeFilter(sub)
  /\ UNCHANGED <<filter, enabled, latched, mask, fresh, pose, speed, last>>

\* stop() waits for nothing: an update may be between its bounds and its costs.
FilterDeactivate ==
  /\ active
  /\ active' = FALSE
  /\ ResetFilter
  /\ UNCHANGED <<filter, enabled, latched, mask, fresh, pose, speed, last>>

\* resetFilter and then initializeFilter, under the lock of the costmap, active or not;
\* the mask in use stays.
ResetLayer ==
  /\ last.phase # "bounds"
  /\ IF filter = "binary" /\ ~pub
     THEN crashed' = TRUE /\ UNCHANGED <<sub, conv, flipped, pub, heard>>
     ELSE InitializeFilter(Unsubscribed)
  /\ UNCHANGED <<filter, enabled, active, latched, mask, fresh, pose, speed, last>>

EnableCallback(e) ==
  /\ enabled' = e
  /\ UNCHANGED <<filter, active, latched, sub, conv, mask, fresh, pose, effects>>

-----------------------------------------------------------------------------
(***************************************************************************)
(* The callbacks.  A filter of the wrong type drops the old subscription   *)
(* and takes no new one; the speed filter has its new factors by then.     *)
(***************************************************************************)
Follow(i) == [info |-> TRUE, infoNew |-> FALSE, topic |-> i.topic,
              maskNew |-> latched.masks[i.topic] # <<>>]
Forget == [info |-> TRUE, infoNew |-> FALSE, topic |-> "", maskNew |-> FALSE]

SpeedInfo(i) ==
  /\ conv' = [base |-> i.base, mult |-> i.mult,
              percent |-> CASE i.type = "percent" -> TRUE
                            [] i.type = "absolute" -> FALSE
                            [] OTHER -> conv.percent]
  /\ sub' = IF i.type \in {"percent", "absolute"} THEN Follow(i) ELSE Forget

KeepoutInfo(i) == sub' = Follow(i) /\ UNCHANGED conv

BinaryInfo(i) ==
  IF i.type = "binary"
  THEN conv' = [conv EXCEPT !.base = i.base, !.mult = i.mult] /\ sub' = Follow(i)
  ELSE sub' = Forget /\ UNCHANGED conv

FilterInfoCallback ==
  /\ sub.infoNew
  /\ CASE filter = "speed" -> SpeedInfo(latched.info[1])
       [] filter = "keepout" -> KeepoutInfo(latched.info[1])
       [] filter = "binary" -> BinaryInfo(latched.info[1])
  /\ UNCHANGED <<filter, enabled, active, latched, mask, fresh, pose, effects, happened>>

\* The mask, as it came or, for the keepout filter, made into a costmap.
SpeedMask(m) == mask' = m /\ UNCHANGED fresh
KeepoutMask(m) == mask' = m /\ fresh' = TRUE
BinaryMask(m) == mask' = m /\ UNCHANGED fresh

MaskCallback ==
  /\ sub.maskNew
  /\ CASE filter = "speed" -> SpeedMask(latched.masks[sub.topic])
       [] filter = "keepout" -> KeepoutMask(latched.masks[sub.topic])
       [] filter = "binary" -> BinaryMask(latched.masks[sub.topic])
  /\ sub' = [sub EXCEPT !.maskNew = FALSE]
  /\ UNCHANGED <<filter, enabled, active, latched, conv, pose, effects, happened>>

PublishInfo(i) ==
  /\ latched' = [latched EXCEPT !.info = <<i>>]
  /\ sub' = [sub EXCEPT !.infoNew = sub.info]
  /\ UNCHANGED <<filter, enabled, active, conv, mask, fresh, pose, effects>>

PublishMask(t, m) ==
  /\ latched' = [latched EXCEPT !.masks[t] = <<m>>]
  /\ sub' = [sub EXCEPT !.maskNew = @ \/ sub.topic = t]
  /\ UNCHANGED <<filter, enabled, active, conv, mask, fresh, pose, effects>>

-----------------------------------------------------------------------------
(***************************************************************************)
(* An update of the costmap by its thread: the bounds, with the robot's    *)
(* pose, and later the costs.  A filter without its mask does nothing.     *)
(***************************************************************************)
\* A new keepout mask has as many cells of the costmap updated as it has itself.
AskedArea ==
  IF fresh /\ enabled THEN <<0, Min({Len(mask[1].cells) + 1, Master.size})>> ELSE <<Master.size, 0>>

FilterUpdateBounds(p) ==
  /\ active /\ last.phase # "bounds"
  /\ pose' = IF enabled THEN p ELSE pose
  /\ fresh' = (fresh /\ ~enabled)
  /\ last' = [last EXCEPT !.phase = "bounds", !.area = AskedArea]
  /\ UNCHANGED <<wiring, speed, flipped, heard, crashed, happened>>

Limit(data) ==
  LET v == data * conv.mult + conv.base
  IN  IF data = 0 \/ v < 0 \/ (conv.percent /\ v > 100) THEN NoLimit ELSE v

\* ok: the transform to the mask's frame can be looked up.
SpeedProcess(c, ok) ==
  /\ IF ok /\ c # -1 /\ MaskData(c) # Unknown
     THEN LET v == Limit(MaskData(c))
          IN  /\ speed' = [limit |-> v, prev |-> IF pub THEN v ELSE speed.prev]
              /\ IF v = speed.prev THEN UNCHANGED <<heard, crashed>>
                 ELSE IF pub
                 THEN heard' = <<[limit |-> v, percent |-> conv.percent]>> /\ UNCHANGED crashed
                 ELSE crashed' = TRUE /\ UNCHANGED heard
     ELSE UNCHANGED <<speed, heard, crashed>>
  /\ UNCHANGED flipped

BinaryProcess(c, ok) ==
  LET over == conv.base + MaskData(c) * conv.mult > FlipThreshold
      state == IF over THEN ~DefaultState ELSE DefaultState
  IN  /\ CASE ok /\ c = -1 -> ChangeState(DefaultState)
           [] ok /\ c # -1 /\ MaskData(c) # Unknown /\ state # flipped -> ChangeState(state)
           [] OTHER -> UNCHANGED <<flipped, heard, crashed>>
      /\ UNCHANGED speed

\* The Costmap2D made from the mask.
MaskCost(data) == IF data = Unknown THEN NoInfoCost ELSE (data * 254 + 50) \div 100

CellCentre(g) == Master.origin + (2 * g + 1) * Master.half

\* In the same frame only the overlap of the window and the mask is visited, from the
\* costmap's cell at half a cell of the mask beyond its start to the one as far beyond its end.
KeepoutProcess(area, grid, ok) ==
  LET m == mask[1]
      from == Trunc(m.origin + m.half - Master.origin, 2 * Master.half)
      to == Trunc(m.origin + (2 * Len(m.cells) + 1) * m.half - Master.origin, 2 * Master.half)
      same == m.frame = "global"
      visited == IF ~same THEN area[1]..(area[2] - 1)
                 ELSE IF from >= area[2] \/ to <= area[1] THEN {}
                 ELSE Max({area[1], from})..(Min({area[2], to}) - 1)
  IN  [c \in DOMAIN grid |->
         LET at == WorldToMask(TransformPose(CellCentre(c)))
             data == IF at = -1 THEN NoInfoCost ELSE MaskCost(MaskData(at))
         IN  IF /\ ok /\ c \in visited /\ data # NoInfoCost
                /\ data > grid[c] \/ grid[c] = NoInfoCost
             THEN data ELSE grid[c]]

FilterUpdateCosts(layers, grid, tf) ==
  LET area == <<Min({layers[1], last.area[1]}), Max({layers[2], last.area[2]})>>
      works == enabled /\ mask # <<>>
      ok == tf \/ (mask # <<>> /\ mask[1].frame = "global")
      c == WorldToMask(TransformPose(pose))
  IN  /\ last.phase = "bounds"
      /\ last' = [phase |-> "costs", area |-> area, before |-> grid, ok |-> ok,
                  after |-> IF works /\ filter = "keepout" THEN KeepoutProcess(area, grid, ok)
                            ELSE grid]
      /\ CASE works /\ filter = "speed" -> SpeedProcess(c, ok)
           [] works /\ filter = "binary" -> BinaryProcess(c, ok)
           [] OTHER -> UNCHANGED <<speed, heard, flipped, crashed>>
      /\ UNCHANGED <<wiring, fresh, pose, happened>>

-----------------------------------------------------------------------------
FiltersInit ==
  /\ filter \in FilterKinds
  /\ enabled = TRUE
  /\ active = FALSE
  /\ latched = [info |-> <<>>, masks |-> [t \in MaskTopics |-> <<>>]]
  /\ sub = Unsubscribed
  /\ conv = DefaultConv
  /\ mask = <<>>
  /\ fresh = FALSE
  /\ pose = 0
  /\ speed = [limit |-> NoLimit, prev |-> NoLimit]
  /\ flipped = DefaultState
  /\ pub = FALSE
  /\ heard = <<>>
  /\ crashed = FALSE
  /\ last = [phase |-> "none", area |-> <<0, 0>>, before |-> <<>>, after |-> <<>>, ok |-> FALSE]
  /\ happened = 0

Happening ==
  /\ happened < MaxHappenings
  /\ happened' = happened + 1
  /\ \/ FilterActivate \/ FilterDeactivate \/ ResetLayer
     \/ \E e \in BOOLEAN : e # enabled /\ EnableCallback(e)
     \/ \E i \in Infos : PublishInfo(i)
     \/ \E t \in MaskTopics, m \in Masks : PublishMask(t, m)

FiltersNext ==
  /\ ~crashed
  /\ \/ Happening
     \/ FilterInfoCallback \/ MaskCallback
     \/ \E p \in Places : FilterUpdateBounds(p)
     \/ \E area \in Areas, grid \in Beneath, tf \in BOOLEAN : FilterUpdateCosts(area, grid, tf)

FiltersSpec == FiltersInit /\ [][FiltersNext]_filterVars

-----------------------------------------------------------------------------
(***************************************************************************)
(* An update applies the mask that the filter has, at the place where the  *)
(* robot was.  The limit last published has the number of the robot's      *)
(* cell, and a limit that is published has the unit in force; one that     *)
(* differs from the last in its unit alone is not published.  The state is *)
(* flipped exactly if the value of the robot's cell is over the threshold, *)
(* and is the default off the mask.  In the window of the update, a cell   *)
(* of the costmap whose centre lies in a known cell of the mask has at     *)
(* least that cost, unless the loop does not reach it, and every other     *)
(* cell is as the layers left it.  A cell without information changes      *)
(* nothing.                                                                *)
(*                                                                         *)
(* In the costmap's frame the loop reaches the cells whose centre is past  *)
(* the mask's start and not past its end, both moved by half of what the   *)
(* mask's resolution exceeds the costmap's: with a coarser mask it leaves  *)
(* out the first cells, with a finer one the last, and with equal ones     *)
(* only a cell whose centre is exactly at the start.                       *)
(***************************************************************************)
InCell(w, c) ==
  w - mask[1].origin \in (2 * mask[1].half * c)..(2 * mask[1].half * (c + 1) - 1)
MaskCells == 0..(Len(mask[1].cells) - 1)
RobotCell == {c \in MaskCells : InCell(TransformPose(pose), c)}

Reached(w) ==
  LET excess == mask[1].half - Master.half
      along == w - mask[1].origin
  IN  mask[1].frame = "global" =>
        along > excess /\ along - 2 * mask[1].half * Len(mask[1].cells) <= excess

Announced == IF heard = <<>> THEN NoLimit ELSE heard[1].limit

SpeedSays ==
  LET known == {c \in RobotCell : MaskData(c) # Unknown}
  IN  /\ known = {} => heard' = heard
      /\ \A c \in known :
           LET v == Limit(MaskData(c))
           IN  heard' = IF v = Announced THEN heard
                        ELSE <<[limit |-> v, percent |-> conv.percent]>>

BinarySays ==
  /\ RobotCell = {} => heard' = <<DefaultState>>
  /\ \A c \in RobotCell :
       IF MaskData(c) = Unknown THEN heard' = heard
       ELSE (heard'[1] # DefaultState) = (conv.base + MaskData(c) * conv.mult > FlipThreshold)

KeepoutMarks(area, before, after) ==
  \A g \in DOMAIN after :
    LET w == TransformPose(CellCentre(g))
        over == {c \in MaskCells : /\ InCell(w, c) /\ MaskData(c) # Unknown
                                   /\ g \in area[1]..(area[2] - 1) /\ Reached(w)}
    IN  IF over = {} THEN after[g] = before[g]
        ELSE \A c \in over :
               LET cost == MaskCost(MaskData(c))
               IN  after[g] = IF before[g] = NoInfoCost THEN cost ELSE Max({cost, before[g]})

MaskIsApplied ==
  CASE filter = "speed" -> SpeedSays
    [] filter = "binary" -> BinarySays
    [] OTHER -> KeepoutMarks(last'.area, last'.before, last'.after)

\* Every update that ends (process() of a filter) does to the robot's speed, state or
\* costmap what the mask in force says of the cells under it, at the borders of the mask
\* too; disabled, without a mask or without the transform to it, it changes nothing.
UpdatesApplyTheMask ==
  [][last.phase = "bounds" /\ last'.phase = "costs" /\ ~crashed' =>
       IF enabled /\ mask # <<>> /\ last'.ok THEN MaskIsApplied
       ELSE last'.after = last'.before /\ heard' = heard]_filterVars
=============================================================================
