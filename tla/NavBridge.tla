------------------------------ MODULE NavBridge ------------------------------
(***************************************************************************)
(* slam_gnss_nav_bridge_node: turns GNSS fixes into /odom/gps for the EKF.  *)
(* One executor thread; a callback is one step.  Positions are points of a  *)
(* small set on the plane; angles are whole numbers, HalfTurn of them to    *)
(* half a turn, and a fraction of an angle is rounded down.  The heading is *)
(* computed from the positions (heading_source "computed", as in            *)
(* nav_bridge.yaml), not taken from the receiver.                           *)
(***************************************************************************)
EXTENDS Integers

CONSTANTS
  Positions,        \* map coordinates of the fixes
  HalfTurn,         \* pi
  Direction,        \* atan2 of the way from one position to another
  Alpha,            \* heading_smoothing_alpha, in hundredths
  HeadingMin,       \* heading_min_distance
  MinPub,           \* min_publish_distance
  Accuracies, Floor,    \* hAcc, *_floor_m
  Scale,            \* *_scale, in hundredths; a variance is in hundredths too
  MaxVariance,      \* max_covariance_threshold
  AcceptSingle,     \* accept_single
  Compensates,      \* lever_arm_compensation
  LeverVariance,    \* lever_arm_x^2 + lever_arm_y^2
  AdoptionTimeout,  \* adoption_timeout_sec
  NoValue,          \* an empty std::optional
  MaxTime           \* bound: length of the run

\* params/nav_bridge.yaml: 1.0 m and 0.6 m
ASSUME DistancesAssumption == HeadingMin \in Nat \ {0} /\ MinPub \in Nat /\ MinPub >= HeadingMin
\* numbers where the node has numbers; an empty optional is none of them
ASSUME BridgeAssumption ==
  /\ Positions \subseteq Int \X Int /\ NoValue \notin Int \X Int /\ NoValue \notin Int
  /\ HalfTurn \in Nat \ {0} /\ Alpha \in 0 .. 100 /\ Compensates \in BOOLEAN
  /\ Direction \in [Positions \X Positions -> -HalfTurn .. HalfTurn]
  /\ {"fixed", "single"} \subseteq DOMAIN Floor
  /\ \A c \in DOMAIN Floor : Floor[c] \in Nat /\ Scale[c] \in Nat
  /\ Accuracies \subseteq Nat /\ MaxVariance \in Nat /\ LeverVariance \in Nat

VARIABLES now, loaded, lastMap, lastHeading, lastPub, enabled, lastAdopted, adopting, gpsOdom

bridgeVars == <<now, loaded, lastMap, lastHeading, lastPub, enabled, lastAdopted, adopting, gpsOdom>>

\* the square of std::hypot
Apart(a, b) == (a[1] - b[1]) * (a[1] - b[1]) + (a[2] - b[2]) * (a[2] - b[2])
Within(a, b, distance) == Apart(a, b) < distance * distance

\* std::remainder(angle, 2 pi), for what two headings can add up to
Remainder(angle) == IF angle > HalfTurn THEN angle - 2 * HalfTurn
                    ELSE IF angle < -HalfTurn THEN angle + 2 * HalfTurn ELSE angle

\* PositionVariance(): NoValue when the solution is not good enough
PositionVariance(carrier, hacc) ==
  LET sigma == IF hacc > Floor[carrier] THEN hacc ELSE Floor[carrier]
      variance == sigma * sigma * Scale[carrier]
  IN IF (carrier = "single" /\ ~AcceptSingle) \/ variance * 2 > MaxVariance
     THEN NoValue ELSE variance

\* the circular moving average: part of the way to the new direction
Smoothed(heading, new) ==
  IF heading = NoValue THEN new
  ELSE Remainder(heading + (Alpha * Remainder(new - heading)) \div 100)

\* compute_heading(): updated once the antenna has moved far enough
HeadingUpdate(x) ==
  IF lastMap = NoValue THEN [map |-> x, heading |-> lastHeading]
  ELSE IF Within(x, lastMap, HeadingMin) THEN [map |-> lastMap, heading |-> lastHeading]
  ELSE [map |-> x, heading |-> Smoothed(lastHeading, Direction[lastMap, x])]

\* publish_odom(): with lever_arm_compensation at the base when its yaw is
\* known, else at the antenna with the lever arm as uncertainty
PublishOdom(x, heading, variance, yawKnown) ==
  gpsOdom' = IF ~enabled THEN gpsOdom
             ELSE [x |-> x, heading |-> heading,
                   at |-> IF Compensates /\ yawKnown THEN "base" ELSE "antenna",
                   variance |-> IF Compensates /\ ~yawKnown THEN variance + LeverVariance
                                ELSE variance]

\* mutated form: a fix too near to publish still moves the heading base
UseFixNear(x, variance, heading, map, yawKnown) ==
  /\ lastMap' = map /\ lastHeading' = heading
  /\ IF lastPub # NoValue /\ Within(x, lastPub, MinPub)
     THEN lastAdopted' = now /\ UNCHANGED <<lastPub, gpsOdom>>
     ELSE IF heading = NoValue THEN UNCHANGED <<lastPub, lastAdopted, gpsOdom>>
     ELSE /\ lastAdopted' = now /\ lastPub' = x
          /\ PublishOdom(x, heading, variance, yawKnown)

\* a usable fix at x, past the quality gates
UseFix(x, variance, heading, map, yawKnown) ==
  IF lastPub # NoValue /\ Within(x, lastPub, MinPub)
  THEN /\ lastAdopted' = now
       /\ UNCHANGED <<lastMap, lastHeading, lastPub, gpsOdom>>
  ELSE /\ lastMap' = map /\ lastHeading' = heading
       /\ IF heading = NoValue THEN UNCHANGED <<lastPub, lastAdopted, gpsOdom>>
          ELSE /\ lastAdopted' = now /\ lastPub' = x
               /\ PublishOdom(x, heading, variance, yawKnown)

\* on_navpvt() with heading_source "computed"
OnNavpvt(fixOk, carrier, hacc, x, yawKnown) ==
  /\ loaded
  /\ IF ~fixOk \/ PositionVariance(carrier, hacc) = NoValue
     THEN UNCHANGED <<lastMap, lastHeading, lastPub, lastAdopted, gpsOdom>>
     ELSE UseFix(x, PositionVariance(carrier, hacc), HeadingUpdate(x).heading, HeadingUpdate(x).map, yawKnown)
  /\ UNCHANGED <<now, loaded, enabled, adopting>>

\* on_navsatfix(): only GBAS_FIX counts as fixed, everything else as single
OnNavsatfix(status, hacc, x, yawKnown) ==
  LET carrier == IF status >= 2 THEN "fixed" ELSE "single" IN
  /\ loaded
  /\ IF status < 0 \/ PositionVariance(carrier, hacc) = NoValue
     THEN UNCHANGED <<lastMap, lastHeading, lastPub, lastAdopted, gpsOdom>>
     ELSE UseFix(x, PositionVariance(carrier, hacc), HeadingUpdate(x).heading, HeadingUpdate(x).map, yawKnown)
  /\ UNCHANGED <<now, loaded, enabled, adopting>>

\* the change_publish_state service, from a waypoint's gps_on and gps_off
ChangePublishState(on) ==
  /\ loaded
  /\ enabled' = on
  /\ UNCHANGED <<now, loaded, lastMap, lastHeading, lastPub, lastAdopted, adopting, gpsOdom>>

IsAdopting == lastAdopted # NoValue /\ now - lastAdopted < AdoptionTimeout

\* the one-second timer
CheckAdoption ==
  /\ now < MaxTime
  /\ now' = now + 1
  /\ adopting' = (lastAdopted # NoValue /\ now' - lastAdopted < AdoptionTimeout)
  /\ UNCHANGED <<loaded, lastMap, lastHeading, lastPub, enabled, lastAdopted, gpsOdom>>

\* a node without its transform file stays up for its diagnostics only
BridgeInit ==
  /\ now = 0 /\ loaded \in BOOLEAN
  /\ lastMap = NoValue /\ lastHeading = NoValue /\ lastPub = NoValue
  /\ enabled = TRUE /\ lastAdopted = NoValue /\ adopting = NoValue /\ gpsOdom = NoValue

BridgeNext ==
  \/ \E ok \in BOOLEAN, c \in DOMAIN Floor, h \in Accuracies, x \in Positions, y \in BOOLEAN :
       OnNavpvt(ok, c, h, x, y)
  \/ \E st \in {-1, 0, 2}, h \in Accuracies, x \in Positions, y \in BOOLEAN :
       OnNavsatfix(st, h, x, y)
  \/ \E on \in BOOLEAN : ChangePublishState(on)
  \/ CheckAdoption

BridgeSpec == BridgeInit /\ [][BridgeNext]_bridgeVars

\* how far two headings are apart
Between(a, b) == LET turn == Remainder(a - b) IN IF turn < 0 THEN -turn ELSE turn

(* The heading sent with a position has been turned to the way from the     *)
(* position used before it: what it lags behind that direction is at most   *)
(* the part of half a turn the smoothing leaves, and the rounding.  The     *)
(* reference points of min_publish_distance and of heading_min_distance     *)
(* stay the same point, also while publishing is off and fixes are dropped. *)
(* Nothing the EKF gets is worse than the accepted variance plus the lever  *)
(* arm.                                                                     *)
HeadingIsCurrent ==
  /\ [](lastPub # NoValue => lastPub = lastMap)
  /\ [][enabled /\ lastPub # NoValue /\ lastPub' # lastPub =>
           /\ gpsOdom'.x = lastPub'
           /\ 100 * Between(Direction[lastPub, lastPub'], gpsOdom'.heading)
                < (100 - Alpha) * HalfTurn + 100]_bridgeVars
  /\ [](gpsOdom # NoValue => 2 * (gpsOdom.variance - LeverVariance) <= MaxVariance)
=============================================================================
