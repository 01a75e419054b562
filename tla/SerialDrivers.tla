--------------------------- MODULE SerialDrivers ---------------------------
(***************************************************************************)
(* The serial devices of mg_drivers: the port (SerialCommunicator2), the    *)
(* motor driver and the wheel odometry on it, and SerialDriverNode, which   *)
(* counts errors, reopens the port and reports the connection.  One         *)
(* executor thread runs the callbacks of a node.  A device that is pulled   *)
(* out and plugged in again is a new generation: a port opened before is    *)
(* still open, but dead.                                                    *)
(***************************************************************************)
EXTENDS Integers, Sequences

CONSTANTS
  Kinds,           \* the drivers explored: "motor", "odometry"
  RecoveryCount,   \* error_recovery_count
  MaxErrors,       \* bound: errors counted
  MaxPlugs,        \* bound: times the device is plugged in
  MaxSpeed, MaxTurn, Pitch,   \* motor_driver.*, in mm/s, mrad/s and mm
  Twists,          \* commands on cmd_vel, [v, w]
  Readings,        \* odometry readings of the device (mm)
  AlwaysPublish,   \* odometry.always_publish
  Inverted,        \* the fields whose odometry.inv_* is set
  Garbage,         \* what an uninitialised double may hold
  Tampers,         \* what the line may do to a reply, [keep, at]: how many bytes
                   \* arrive and which one is flipped (0: none)
  NoValue

\* the range of a 32-bit position, and of a 16-bit heading
Int32 == {n \in Int : -32768 <= n \div 65536 /\ n \div 65536 <= 32767}
UInt16 == {n \in Int : 0 <= n /\ n <= 65535}

ASSUME DriverAssumption ==
  /\ Readings \subseteq [x : Int32, y : Int32, th : UInt16]
  /\ Tampers \subseteq [keep : Nat, at : Nat]
  /\ Twists \subseteq [v : Int, w : Int]

\* The limits keep both wheels within 16 bits, beyond which the casts of
\* create_speed_parameter() are undefined.
ASSUME LimitAssumption ==
  /\ MaxSpeed \in Nat /\ MaxTurn \in Nat /\ Pitch \in Nat
  /\ 2000 * MaxSpeed + MaxTurn * Pitch < 2000 * 32768

VARIABLES
  kind,
  dev,      \* the device: plugged in, its generation, does it answer at all
  port,     \* is_open_serial_, and the generation it was opened on
  node,     \* consecutive_errors_, reset_attempts_, disconnect_count_, last_connected_
  motor,    \* emergency_stop_, the wheels as the device drives them
  odom      \* current_data_.error, last_valid_data_, what was published

driverVars == <<kind, dev, port, node, motor, odom>>

----------------------------------------------------------------------------
(* Frames.  int16 and int32 values are two's complement, high byte first.   *)

\* what the bytes of a number are worth, the last one first
Weights == <<1, 256, 65536, 16777216>>

\* encode<T>(): the most significant of the size bytes first
EncodeInt(v, size) == [i \in 1 .. size |-> (v \div Weights[size - i + 1]) % 256]

\* decode<T>() puts the bytes together again; the cast to a signed type of
\* that width gives the first byte its sign
DecodeInt(b) ==
  LET value[k \in 0 .. Len(b)] == IF k = 0 THEN 0 ELSE value[k - 1] * 256 + b[k]
  IN value[Len(b)]
DecodeSigned(b) ==
  LET value[k \in 1 .. Len(b)] ==
        IF k = 1 THEN (IF b[1] >= 128 THEN b[1] - 256 ELSE b[1]) ELSE value[k - 1] * 256 + b[k]
  IN value[Len(b)]

CalcChecksum(b) ==
  LET sum[k \in 0 .. Len(b)] == IF k = 0 THEN 0 ELSE (sum[k - 1] + b[k]) % 256
  IN sum[Len(b)]

\* check_error(): size, then header, then the sum of all bytes but the last
CheckError(ret, header, size) ==
  CASE Len(ret) # size -> "RECEIVE_SIZE_ERROR"
    [] Len(ret) = size /\ \E i \in DOMAIN header : ret[i] # header[i] -> "INVALID_HEADER"
    [] OTHER -> IF CalcChecksum(SubSeq(ret, 1, size - 1)) # ret[size]
                THEN "CHECKSUM_ERROR" ELSE "NO_ERROR"

SpeedHeader == <<150, 71>>    \* 0x96 0x47
OdomHeader == <<36, 117>>     \* 0x24 0x75

\* MotorDriver::encode(): header, right wheel, left wheel, checksum
EncodeSpeed(p) ==
  LET body == SpeedHeader \o EncodeInt(p.right, 2) \o EncodeInt(p.left, 2)
  IN Append(body, CalcChecksum(body))

\* WheelOdometry::decode(): positions are signed, the heading is not
DecodeOdom(f) == [x |-> DecodeSigned(SubSeq(f, 3, 6)),
                  y |-> DecodeSigned(SubSeq(f, 7, 10)),
                  th |-> DecodeInt(SubSeq(f, 11, 12))]

----------------------------------------------------------------------------
(* The device at the other end of the line (external).                      *)

\* a reply as it arrives: t.keep of its bytes, byte t.at flipped
Arrived(frame, t) ==
  LET cut == SubSeq(frame, 1, IF t.keep < Len(frame) THEN t.keep ELSE Len(frame)) IN
  [i \in DOMAIN cut |-> IF i = t.at THEN (cut[i] + 1) % 256 ELSE cut[i]]

WithSum(body) == Append(body, CalcChecksum(body))
SpeedReply == WithSum(Append(SpeedHeader, 0))
OdomReply(r) ==
  WithSum(OdomHeader \o EncodeInt(r.x, 4) \o EncodeInt(r.y, 4) \o EncodeInt(r.th, 2)
            \o <<0, 0, 0, 0, 0, 0>>)

\* what a device does with a speed command that reaches it: the wheels take the
\* two speeds of the frame
Driven(f) == [right |-> DecodeSigned(SubSeq(f, 3, 4)),
              left |-> DecodeSigned(SubSeq(f, 5, 6))]

----------------------------------------------------------------------------
(* SerialCommunicator2.                                                     *)

OpenSerial == IF dev.present THEN [open |-> TRUE, gen |-> dev.gen] ELSE [open |-> FALSE, gen |-> 0]
CloseSerial == [open |-> FALSE, gen |-> 0]

\* mutated form: an open port is not reopened
ResetSerialLazily == IF port.open THEN port ELSE OpenSerial

\* reset_serial(): close, then open by name
ResetSerial == OpenSerial

----------------------------------------------------------------------------
(* The exchanges: the error they end with, and what they did.  p is the port *)
(* they use (health_check reopens it in the same step).                     *)

\* a port works while it is open on the device that is plugged in now
Reaches(p) == p.open /\ dev.present /\ p.gen = dev.gen

Stop == [right |-> 0, left |-> 0]

\* mutated form: only the upper limit is applied
ClampAbove(v, l) == IF v > l THEN l ELSE v

Clamp(v, l) == IF v > l THEN l ELSE IF v < -l THEN -l ELSE v
Truncated(n, d) == IF n >= 0 THEN n \div d ELSE -((-n) \div d)

\* create_speed_parameter(): wheel speeds in mm/s, truncated toward zero
CreateSpeed(tw) ==
  LET v == Clamp(tw.v, MaxSpeed)
      turn == Clamp(tw.w, MaxTurn) * Pitch
  IN [left |-> Truncated(2000 * v - turn, 2000), right |-> Truncated(2000 * v + turn, 2000)]

\* a device that is plugged in but mute lets the read time out with nothing
SpeedErrors == [t \in Tampers |-> CheckError(Arrived(SpeedReply, t), SpeedHeader, 4)]
OdomErrors == [r \in Readings |->
  [t \in Tampers |-> CheckError(Arrived(OdomReply(r), t), OdomHeader, 19)]]
OdomValues == [r \in Readings |-> [t \in Tampers |->
  IF OdomErrors[r][t] = "NO_ERROR" THEN DecodeOdom(Arrived(OdomReply(r), t)) ELSE NoValue]]
WheelSpeeds == [p \in {Stop} \cup {CreateSpeed(tw) : tw \in Twists} |-> Driven(EncodeSpeed(p))]

\* MotorDriver::send_speed_command(); reached: the frame got to the device
SendSpeed(p, speed, reached, t) ==
  [error |-> CASE ~Reaches(p) -> "WRITE_ERROR"
               [] Reaches(p) /\ reached /\ dev.answers -> SpeedErrors[t]
               [] OTHER -> CheckError(<<>>, SpeedHeader, 4),
   wheels |-> IF Reaches(p) /\ reached /\ dev.answers
              THEN WheelSpeeds[speed] ELSE motor.wheels]

\* WheelOdometry::get_data()
GetData(p, r, t) ==
  LET e == CASE ~Reaches(p) -> "WRITE_ERROR"
             [] Reaches(p) /\ dev.answers -> OdomErrors[r][t]
             [] OTHER -> CheckError(<<>>, OdomHeader, 19)
  IN [error |-> e, data |-> IF e = "NO_ERROR" THEN OdomValues[r][t] ELSE NoValue]

\* probe(): a stop command, or one reading; a motor's bad checksum is an answer
Probe(p, reached, t) ==
  IF kind = "motor"
  THEN LET s == SendSpeed(p, Stop, reached, t) IN
       [error |-> IF s.error = "CHECKSUM_ERROR" THEN "NO_ERROR" ELSE s.error,
        wheels |-> s.wheels]
  ELSE [error |-> GetData(p, CHOOSE r \in Readings : TRUE, t).error, wheels |-> motor.wheels]

----------------------------------------------------------------------------
(* SerialDriverNode.                                                        *)

ResetDevice(n) == [n EXCEPT !.attempts = IF @ < MaxErrors THEN @ + 1 ELSE @]

\* handle_serial_error(): the port is reopened when the count REACHES the limit
HandleSerialError(n, p, error) ==
  IF error = "NO_ERROR" THEN [node |-> [n EXCEPT !.errors = 0], port |-> p]
  ELSE LET e == IF n.errors < MaxErrors THEN n.errors + 1 ELSE n.errors IN
       IF n.errors < MaxErrors /\ e = RecoveryCount
       THEN [node |-> ResetDevice([n EXCEPT !.errors = e]), port |-> ResetSerial]
       ELSE [node |-> [n EXCEPT !.errors = e], port |-> p]

IsConnected(n, p) == p.open /\ dev.present /\ n.errors = 0

\* the branches of health_check() before it reports: close, reopen and probe,
\* probe, or nothing
Checked(reached, t) ==
  LET reopen == dev.present /\ (~port.open \/ node.errors >= RecoveryCount)
      p == CASE ~dev.present -> CloseSerial [] reopen -> ResetSerial [] OTHER -> port
      n == IF reopen THEN ResetDevice(node) ELSE node
      pr == Probe(p, reached, t)
  IN IF dev.present /\ p.open /\ (reopen \/ node.errors > 0)
     THEN LET h == HandleSerialError(n, p, pr.error) IN
          [node |-> h.node, port |-> h.port, wheels |-> pr.wheels]
     ELSE [node |-> n, port |-> p, wheels |-> motor.wheels]

\* produce: the ~/connected message, the counters and the events
Reported(n, p) ==
  LET c == IsConnected(n, p) IN
  IF n.last = c THEN n
  ELSE [n EXCEPT !.last = c, !.attempts = IF c THEN 0 ELSE @,
                 !.disconnects = IF c \/ @ = MaxErrors THEN @ ELSE @ + 1]

HealthCheck(reached, t) ==
  /\ LET h == Checked(reached, t) IN
       /\ node' = Reported(h.node, h.port)
       /\ port' = h.port
       /\ motor' = [motor EXCEPT !.wheels = h.wheels]
  /\ UNCHANGED <<kind, dev, odom>>

\* disconnect_reason()
DisconnectReason ==
  CASE ~dev.present -> "device missing" [] dev.present /\ ~port.open -> "port closed"
    [] dev.present /\ port.open /\ node.errors > 0 -> "communication errors" [] OTHER -> ""

----------------------------------------------------------------------------
(* MotorDriverNode.                                                         *)

\* twist_sub_cb()
TwistSub(tw, reached, t) ==
  /\ kind = "motor" /\ ~motor.estop
  /\ LET s == SendSpeed(port, CreateSpeed(tw), reached, t)
         h == IF s.error = "CHECKSUM_ERROR" THEN [node |-> node, port |-> port]
              ELSE HandleSerialError(node, port, s.error)
     IN /\ motor' = [motor EXCEPT !.wheels = s.wheels]
        /\ node' = h.node /\ port' = h.port
  /\ UNCHANGED <<kind, dev, odom>>

\* emergency_stop_sub_cb(): every message that stops sends a stop command, whose
\* result nobody looks at
EmergencyStopSub(b, reached, t) ==
  /\ kind = "motor"
  /\ motor' = [estop |-> b, wheels |-> IF b THEN SendSpeed(port, Stop, reached, t).wheels
                                            ELSE motor.wheels]
  /\ UNCHANGED <<kind, dev, port, node, odom>>

----------------------------------------------------------------------------
(* WheelOdometryNode: the publish timer.                                    *)

\* the directions of the device's axes, turned as inv_x, inv_y and inv_th say
Turned(d) == [x |-> IF "x" \in Inverted THEN -d.x ELSE d.x,
              y |-> IF "y" \in Inverted THEN -d.y ELSE d.y,
              th |-> IF "th" \in Inverted THEN -d.th ELSE d.th]

\* publish(): update_odometry(), publish_odometry(), publish_tf()
Publish(r, t) ==
  /\ kind = "odometry"
  /\ LET g == GetData(port, r, t)
         h == HandleSerialError(node, port, g.error)
         valid == IF g.error = "NO_ERROR" THEN Turned(g.data) ELSE odom.valid
     IN /\ node' = h.node /\ port' = h.port
        /\ odom' = [valid |-> valid, truth |-> IF g.error = "NO_ERROR" THEN r ELSE odom.truth,
                    out |-> IF g.error = "NO_ERROR" \/ AlwaysPublish THEN valid ELSE odom.out]
  /\ UNCHANGED <<kind, dev, motor>>

\* zero_reset() of the constructor: the position is zeroed if the device answers
DriverInit ==
  /\ kind \in Kinds
  /\ dev \in [present : BOOLEAN, gen : {1}, answers : BOOLEAN]
  /\ port = OpenSerial
  /\ node = [errors |-> 0, attempts |-> 0, disconnects |-> 0, last |-> NoValue]
  /\ motor = [estop |-> FALSE, wheels |-> Stop]
  /\ \E g \in Garbage : odom = [valid |-> g, out |-> NoValue, truth |-> NoValue]

\* the device disappears, comes back as a new one, hangs or answers again
Unplug == dev.present /\ dev' = [dev EXCEPT !.present = FALSE]
Plug == ~dev.present /\ dev.gen < MaxPlugs /\ dev' = [dev EXCEPT !.present = TRUE, !.gen = @ + 1]
Hang == dev.answers /\ dev' = [dev EXCEPT !.answers = FALSE]
Answer == ~dev.answers /\ dev' = [dev EXCEPT !.answers = TRUE]

DeviceNext == (Unplug \/ Plug \/ Hang \/ Answer) /\ UNCHANGED <<kind, port, node, motor, odom>>

Clean == [keep |-> 99, at |-> 0]

DriverNext ==
  \/ DeviceNext
  \/ \E b \in BOOLEAN, t \in Tampers : HealthCheck(b, t)
  \/ \E tw \in Twists, b \in BOOLEAN, t \in Tampers : TwistSub(tw, b, t)
  \/ \E e \in BOOLEAN, b \in BOOLEAN, t \in Tampers : EmergencyStopSub(e, b, t)
  \/ \E r \in Readings, t \in Tampers : Publish(r, t)

DriverSpec == DriverInit /\ [][DriverNext]_driverVars

----------------------------------------------------------------------------
(* Properties.                                                              *)

DriverFairness ==
  /\ WF_driverVars(HealthCheck(TRUE, Clean))
  /\ \A r \in Readings : WF_driverVars(Publish(r, Clean))

(* What crosses the line is what was sent: a published position is exactly   *)
(* the last one the device gave, each field with the sign its inv_ parameter *)
(* asks for, whatever the line did to other replies, and                     *)
(* the wheels only ever turn at a speed some command asked for within the    *)
(* limits (two's complement, checksums and sizes included).                  *)
LineIsFaithful ==
  /\ ~AlwaysPublish /\ odom.out # NoValue =>
       \A f \in {"x", "y", "th"} :
          odom.out[f] = IF f \in Inverted THEN -odom.truth[f] ELSE odom.truth[f]
  /\ \A w \in {motor.wheels.left, motor.wheels.right} :
       2000 * w <= 2000 * MaxSpeed + MaxTurn * Pitch /\ -2000 * w <= 2000 * MaxSpeed + MaxTurn * Pitch

(* A device that is finally there and answers is found again, after any      *)
(* number of unplugged, replugged and hanging phases: the node keeps         *)
(* reporting the connection, and the odometry really reads from the device   *)
(* that is plugged in now, not from a port left open on the previous one.    *)
DeviceComesBack ==
  <>[](dev.present /\ dev.answers) =>
     []<>(node.last = TRUE /\ (kind = "odometry" => Reaches(port)))
=============================================================================
