------------------------------ MODULE SlamInput ------------------------------
(***************************************************************************)
(* The input side of slam_gnss_2d: how laser scans, odometry and GNSS fixes *)
(* that arrive separately become frames.  Mode "live" is the ROS node (the  *)
(* sources of ros_adapter.cpp, filled by callbacks of one executor thread); *)
(* mode "bag" is the offline node (bag_reader.cpp), which loads odometry    *)
(* and fixes first and then steps through the scans.                        *)
(*                                                                          *)
(* Time and positions are integers.  The robot moves along a line, Truth(t) *)
(* is where it is at t, and Landmark is the obstacle every beam hits, so    *)
(* what a frame should contain is known.                                    *)
(***************************************************************************)
EXTENDS Integers, Sequences, FiniteSets, SequencesExt, TLC

CONSTANTS
  Modes,                   \* subset of {"live", "bag"}
  OdomStamps, ScanStamps,  \* stamps of the messages of a live run
  FixMsgs,                 \* fixes of a live run, [ts, status]
  GnssKinds,               \* subset of {"fix", "navpvt"}: the GNSS input used
  MaxClock,                \* bound: length of a live run
  OdomCap, GnssCap,        \* kOdomBufferSize, kGnssBufferSize
  MaxDt,                   \* the 5.0 s within which a fix belongs to a scan
  Margin,                  \* the 5.0 s kept around the requested part of a bag
  Bags,                    \* recordings explored, see Bag
  Starts, Ends,            \* start_time and end_time, 0 for none
  Beams, Duration, StartOffset, Directions, Samples   \* deskew.*, kSamples

VARIABLES mode, clock, seen, tfReady, odomBuf, gnssBuf, frames, bag
VARIABLE latency   \* history: the longest a fix in use was under way to its stamp

inputVars == <<mode, clock, seen, tfReady, odomBuf, gnssBuf, frames, bag, latency>>

Nothing == [none |-> TRUE]
Truth(t) == 12 * t
Landmark == 1000
Dist(a, b) == IF a >= b THEN a - b ELSE b - a
ByStamp(list) == SortSeq(list, LAMBDA a, b : a.ts < b.ts)

----------------------------------------------------------------------------
(* time_series.cpp: all three look a stamp up in a list sorted by stamp.    *)

LowerBound(list, t) == 1 + Cardinality({i \in DOMAIN list : list[i].ts < t})

InterpolateOdom(list, t) ==
  LET idx == LowerBound(list, t) IN
  CASE list = <<>> -> Nothing
    [] list # <<>> /\ idx = 1 -> list[1]
    [] list # <<>> /\ idx > Len(list) -> list[Len(list)]
    [] OTHER ->
         LET prev == list[idx - 1] next == list[idx] span == next.ts - prev.ts
         IN IF span = 0 THEN prev
            ELSE [ts |-> t, x |-> prev.x + ((t - prev.ts) * (next.x - prev.x)) \div span]

\* mutated form: the first and the last fix are held whatever their age
InterpolateGnssHeld(list, t) ==
  LET idx == LowerBound(list, t)
  IN CASE list = <<>> -> Nothing
       [] list # <<>> /\ idx = 1 -> list[1]
       [] list # <<>> /\ idx > Len(list) -> list[Len(list)]
       [] OTHER ->
            LET prev == list[idx - 1] next == list[idx] span == next.ts - prev.ts
            IN CASE span = 0 -> prev
                 [] span > MaxDt -> Nothing
                 [] OTHER -> [ts |-> t, status |-> prev.status,
                              x |-> prev.x + ((t - prev.ts) * (next.x - prev.x)) \div span]

\* between two fixes further apart than MaxDt there is nothing to interpolate;
\* the status of the result is that of the earlier one
InterpolateGnss(list, t) ==
  LET idx == LowerBound(list, t)
      within(g) == IF Dist(t, g.ts) > MaxDt THEN Nothing ELSE g
  IN CASE list = <<>> -> Nothing
       [] list # <<>> /\ idx = 1 -> within(list[1])
       [] list # <<>> /\ idx > Len(list) -> within(list[Len(list)])
       [] OTHER ->
            LET prev == list[idx - 1] next == list[idx] span == next.ts - prev.ts
            IN CASE span = 0 -> prev
                 [] span > MaxDt -> Nothing
                 [] OTHER -> [ts |-> t, status |-> prev.status,
                              x |-> prev.x + ((t - prev.ts) * (next.x - prev.x)) \div span]

NearestByTimestamp(list, t) ==
  LET idx == LowerBound(list, t)
      best == CASE idx = 1 -> list[1]
                [] idx > Len(list) -> list[Len(list)]
                [] OTHER -> IF Dist(t, list[idx - 1].ts) <= Dist(t, list[idx].ts)
                            THEN list[idx - 1] ELSE list[idx]
  IN IF list = <<>> THEN Nothing ELSE IF Dist(t, best.ts) > MaxDt THEN Nothing ELSE best

----------------------------------------------------------------------------
(* The sources.                                                             *)

Buffered(buf, cap, m) == Append(IF Len(buf) >= cap THEN Tail(buf) ELSE buf, m)

\* ROS2OdomSource: outside the buffered span the nearest end is used, however
\* old it is (the code only warns beyond 0.5 s)
LiveOdomAt(t) ==
  LET list == ByStamp(odomBuf) IN
  CASE list = <<>> -> Nothing
    [] list # <<>> /\ t <= list[1].ts -> list[1]
    [] list # <<>> /\ t >= list[Len(list)].ts -> list[Len(list)]
    [] OTHER -> InterpolateOdom(list, t)

LiveGnssAt(t) == NearestByTimestamp(ByStamp(gnssBuf), t)

OdomAt(t) == IF mode = "live" THEN LiveOdomAt(t) ELSE InterpolateOdom(odomBuf, t)
GnssAt(t) == IF mode = "live" THEN LiveGnssAt(t) ELSE InterpolateGnss(gnssBuf, t)

\* what the lidar measures: beam i is taken during the sweep, while the robot moves
BeamTime(ts, dir, i) ==
  LET frac == IF dir > 0 THEN i - 1 ELSE Beams - i
  IN ts + StartOffset + (Duration * frac) \div (Beams - 1)
RawScan(ts, dir) == [i \in 1 .. Beams |-> Landmark - Truth(BeamTime(ts, dir, i))]

\* deskew_scan(): odometry is sampled over the sweep and every beam is moved
\* to where the robot was at the scan's stamp
DeskewScan(ts, ranges, dir) ==
  LET offset == [k \in 0 .. Samples - 1 |->
        OdomAt(ts + StartOffset + (Duration * k) \div (Samples - 1)).x - OdomAt(ts).x]
      beam(i) == LET u == (IF dir > 0 THEN i - 1 ELSE Beams - i) * (Samples - 1)
                     k == IF u \div (Beams - 1) < Samples - 2 THEN u \div (Beams - 1) ELSE Samples - 2
                     w == u - k * (Beams - 1)
                 IN offset[k] + (w * (offset[k + 1] - offset[k])) \div (Beams - 1)
  IN IF dir = 0 \/ Beams < 2 \/ Duration <= 0 THEN ranges
     ELSE [i \in DOMAIN ranges |-> ranges[i] + beam(i)]

\* SensorSynchronizer::on_scan(): no odometry, no frame
OnScan(ts, dir) ==
  IF OdomAt(ts) = Nothing THEN frames
  ELSE Append(frames, [ts |-> ts, odom |-> OdomAt(ts), gnss |-> GnssAt(ts),
                       ranges |-> DeskewScan(ts, RawScan(ts, dir), dir)])

----------------------------------------------------------------------------
(* Live: every message is delivered once, in any order after its stamp.     *)

Deliver(kind, ts) ==
  /\ mode = "live" /\ ts <= clock /\ <<kind, ts>> \notin seen
  /\ seen' = seen \cup {<<kind, ts>>}

OdomMsg(ts) ==
  /\ Deliver("odom", ts)
  /\ odomBuf' = Buffered(odomBuf, OdomCap, [ts |-> ts, x |-> Truth(ts)])
  /\ UNCHANGED <<mode, clock, tfReady, gnssBuf, frames, bag, latency>>

\* NavSatFix carries its stamp, NavPVT is stamped when it arrives; a message
\* without a fix is dropped
UsableFix(m) == m.status >= 0
GnssMsg(m) ==
  LET stamp == IF bag.kind = "fix" THEN m.ts ELSE clock IN
  /\ Deliver("gnss", m.ts)
  /\ gnssBuf' = IF ~UsableFix(m) THEN gnssBuf
                ELSE Buffered(gnssBuf, GnssCap,
                       [ts |-> stamp, status |-> m.status, x |-> Truth(m.ts)])
  /\ latency' = IF UsableFix(m) /\ stamp - m.ts > latency THEN stamp - m.ts ELSE latency
  /\ UNCHANGED <<mode, clock, tfReady, odomBuf, frames, bag>>

\* the static transform of the lidar is looked up until it is there
LidarTf ==
  /\ mode = "live" /\ ~tfReady
  /\ tfReady' = TRUE
  /\ UNCHANGED <<mode, clock, seen, odomBuf, gnssBuf, frames, bag, latency>>

ScanMsg(ts) ==
  /\ Deliver("scan", ts)
  /\ frames' = IF tfReady THEN OnScan(ts, bag.dir) ELSE frames
  /\ UNCHANGED <<mode, clock, tfReady, odomBuf, gnssBuf, bag, latency>>

Tick ==
  /\ mode = "live" /\ clock < MaxClock
  /\ clock' = clock + 1
  /\ UNCHANGED <<mode, seen, tfReady, odomBuf, gnssBuf, frames, bag, latency>>

----------------------------------------------------------------------------
(* Bag: messages [topic, ts, recorded, status] in the order of recording.   *)

\* a reader of one topic, positioned back before the start of the part
OpenReader(file, name, r, back) ==
  SelectSeq(file, LAMBDA m : m.topic = name /\ (r.start > 0 => m.recorded >= r.start - back))

\* compute_bag_time_range(): 0 means no limit; an end before the start is ignored
ComputeBagTimeRange(first, start, end) ==
  [start |-> IF start > 0 THEN first + start ELSE 0,
   end   |-> IF end > 0 /\ ~(start > 0 /\ end <= start) THEN first + end ELSE 0]

IsBeforeStart(r, t) == r.start > 0 /\ t < r.start
IsPastEnd(r, t) == r.end > 0 /\ t > r.end
IsInRange(r, t, margin) == ~IsBeforeStart(r, t + margin) /\ ~IsPastEnd(r, t - margin)

\* start() of the odometry and GNSS sources: read until the end of the part is
\* left behind, keep what is in range, sort by stamp
Loaded(msgs, r) ==
  LET past == SelectInSeq(msgs, LAMBDA m : IsPastEnd(r, m.ts - Margin))
      read == IF past = 0 THEN msgs ELSE SubSeq(msgs, 1, past - 1)
  IN SelectSeq(read, LAMBDA m : IsInRange(r, m.ts, Margin))

\* mutated form: the odometry is read without a margin around the range
LoadOdomTight(file, r) ==
  LET l == Loaded(OpenReader(file, "odom", r, 0), r)
  IN ByStamp([i \in DOMAIN l |-> [ts |-> l[i].ts, x |-> Truth(l[i].ts)]])

LoadOdom(file, r) ==
  LET l == Loaded(OpenReader(file, "odom", r, Margin), r)
  IN ByStamp([i \in DOMAIN l |-> [ts |-> l[i].ts, x |-> Truth(l[i].ts)]])

LoadFix(file, r) ==
  LET l == SelectSeq(Loaded(OpenReader(file, "gnss", r, Margin), r), UsableFix)
  IN ByStamp([i \in DOMAIN l |-> [ts |-> l[i].ts, status |-> l[i].status, x |-> Truth(l[i].ts)]])

\* NavPVT has no stamp of its own: the time it was recorded at is used
LoadNavPvt(file, r) ==
  LET msgs == OpenReader(file, "gnss", r, Margin)
      l == SelectSeq(Loaded([i \in DOMAIN msgs |->
             [msgs[i] EXCEPT !.ts = msgs[i].recorded, !.recorded = msgs[i].ts]], r), UsableFix)
  IN ByStamp([i \in DOMAIN l |-> [ts |-> l[i].ts, status |-> l[i].status, x |-> Truth(l[i].recorded)]])

StartBag ==
  /\ mode = "bag" /\ bag.phase = "closed"
  /\ LET r == ComputeBagTimeRange(bag.file[1].recorded, bag.start, bag.end) IN
       /\ odomBuf' = LoadOdom(bag.file, r)
       /\ gnssBuf' = IF bag.kind = "fix" THEN LoadFix(bag.file, r) ELSE LoadNavPvt(bag.file, r)
       /\ bag' = [bag EXCEPT !.phase = "reading", !.range = r]
       /\ latency' = IF bag.kind = "fix" THEN 0
                     ELSE Max({0} \cup {m.recorded - m.ts :
                                m \in {n \in Range(bag.file) : n.topic = "gnss" /\ UsableFix(n)}})
  /\ UNCHANGED <<mode, clock, seen, tfReady, frames>>

Scans(b) == OpenReader(b.file, "scan", b.range, 1)

\* BagScanSource::step(): skips to the next scan of the part
StepTo(b) ==
  LET scans == Scans(b)
      rest == {i \in b.next .. Len(scans) : ~IsBeforeStart(b.range, scans[i].ts)}
      i == CHOOSE k \in rest : \A j \in rest : k <= j
  IN IF rest = {} \/ IsPastEnd(b.range, scans[i].ts) THEN 0 ELSE i

\* process_step(): the next scan; when the stream ends the run is finalised
ProcessStep ==
  /\ mode = "bag" /\ bag.phase = "reading"
  /\ LET i == StepTo(bag) IN
       IF i = 0
       THEN /\ bag' = [bag EXCEPT !.phase = "finalized", !.finalizations = @ + 1]
            /\ UNCHANGED frames
       ELSE /\ frames' = OnScan(Scans(bag)[i].ts, bag.dir)
            /\ bag' = [bag EXCEPT !.next = i + 1]
  /\ UNCHANGED <<mode, clock, seen, tfReady, odomBuf, gnssBuf, latency>>

\* spin ends (on a signal too) and main() finalises; a second time does nothing
Shutdown ==
  /\ mode = "bag" /\ bag.phase \in {"reading", "finalized"}
  /\ bag' = [bag EXCEPT !.phase = "down",
               !.finalizations = IF bag.phase = "reading" THEN @ + 1 ELSE @]
  /\ UNCHANGED <<mode, clock, seen, tfReady, odomBuf, gnssBuf, frames, latency>>

InputInit ==
  /\ mode \in Modes
  /\ clock = 0 /\ seen = {} /\ tfReady = FALSE
  /\ odomBuf = <<>> /\ gnssBuf = <<>> /\ frames = <<>> /\ latency = 0
  /\ \E file \in IF mode = "bag" THEN Bags ELSE {<<>>}, s \in Starts, e \in Ends,
        kind \in GnssKinds, dir \in Directions :
       /\ mode = "live" => s = 0 /\ e = 0
       /\ bag = [file |-> file, start |-> s, end |-> e, kind |-> kind, dir |-> dir, next |-> 1,
                 phase |-> "closed", range |-> [start |-> 0, end |-> 0], finalizations |-> 0]

InputNext ==
  \/ \E ts \in OdomStamps : OdomMsg(ts)
  \/ \E m \in FixMsgs : GnssMsg(m)
  \/ LidarTf
  \/ \E ts \in ScanStamps : ScanMsg(ts)
  \/ Tick
  \/ StartBag
  \/ ProcessStep
  \/ Shutdown

----------------------------------------------------------------------------
(* Properties.                                                              *)

\* the odometry stamps a frame could have been made from
Known == IF mode = "live" THEN {m.ts : m \in Range(odomBuf)}
         ELSE {m.ts : m \in {n \in Range(bag.file) : n.topic = "odom"}}
Covers(t) == \E a, b \in Known : a <= t /\ t <= b

(* A new frame holds the odometry of the scan's own stamp and beams free of *)
(* the robot's motion, whenever odometry from before and after the sweep is *)
(* there: whatever order the messages arrived in, and also for a part cut   *)
(* out of a recording, whose borders the margin of the readers must cover.  *)
FramesAreExact ==
  [][\A f \in Range(frames') \ Range(frames) :
       /\ Covers(f.ts) => f.odom.x = Truth(f.ts)
       /\ bag.dir # 0 /\ Covers(f.ts + StartOffset) /\ Covers(f.ts + StartOffset + Duration) =>
            \A i \in DOMAIN f.ranges : f.ranges[i] = Landmark - Truth(f.ts)]_inputVars

(* The position a fix contributes to a frame, nearest or interpolated, is   *)
(* never further from the scan's than the robot travels in MaxDt and the    *)
(* time fixes were under way to their stamp.  A NavSatFix is stamped when   *)
(* it is measured, so MaxDt alone bounds it; a NavPVT, the shipped input,   *)
(* is stamped when it arrives or is recorded, and its delay counts in full. *)
FixBelongsToScan ==
  /\ bag.kind = "fix" => latency = 0
  /\ \A f \in Range(frames) : f.gnss # Nothing => Dist(f.gnss.x, Truth(f.ts)) <= Truth(MaxDt + latency)

(* A finished offline run has turned every scan of the requested part into  *)
(* one frame, in order, and has been finalised exactly once, whether the    *)
(* bag ended, the part ended or a signal came after it.                     *)
BagRunIsComplete ==
  /\ bag.finalizations <= 1
  /\ bag.phase = "down" => bag.finalizations = 1
  /\ bag.phase = "finalized" /\ odomBuf # <<>> =>
       [i \in DOMAIN frames |-> frames[i].ts] =
       LET scans == SelectSeq(bag.file, LAMBDA m : m.topic = "scan"
                                /\ IsInRange(bag.range, m.ts, 0))
       IN [i \in DOMAIN scans |-> scans[i].ts]

(* What reaches the pose graph is what was measured: a frame's fix belongs  *)
(* to its scan (interpolate_gnss, nearest_gnss), and no scan of a recording *)
(* is lost or finalised twice (process_step, finalize).                     *)
InputIsFaithful == FixBelongsToScan /\ BagRunIsComplete
=============================================================================
