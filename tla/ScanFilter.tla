----------------------------- MODULE ScanFilter -----------------------------
(***************************************************************************)
(* The node scan_filter behind the driver: it receives the LaserScans of   *)
(* the driver and publishes the part of each that lies within two angles.  *)
(* scan_callback() is a loop over the readings, one action per turn.       *)
(***************************************************************************)
EXTENDS LaserScan

CONSTANTS
  Params,       \* configurations of the driver
  Bounds,       \* values of the parameters lower_angle and upper_angle
  Scans         \* the raw values telegrams may carry

\* A field ends where it begins or at a greater angle.
ASSUME InputsAssumption ==
  /\ Params \subseteq Param
  /\ \A p \in Params : p.dStartAngle <= p.dStopAngle
  /\ Bounds \subseteq [lower : Int, upper : Int]
  /\ Scans \subseteq Seq(Raw)

VARIABLES
  param,            \* parameters of the driver
  bounds,           \* lower_angle_ and upper_angle_
  raw,              \* m_viScanRaw of the scan on its way
  callback,         \* "idle", "received" (a message is waiting), "loop"
  msg,              \* the LaserScan received
  i,                \* index of the loop, past the end after a break
  start_angle,      \* locals of scan_callback()
  current_angle,
  kept,             \* the readings and intensities copied so far
  msg_filtered      \* the message published for msg

scanVars == <<param, bounds, raw, msg>>
loopVars == <<i, start_angle, current_angle, kept>>
vars == <<scanVars, callback, loopVars, msg_filtered>>

Empty == [ranges |-> <<>>, intensities |-> <<>>]

NoScan ==
  [ranges |-> <<>>, intensities |-> <<>>, angle_min |-> 0, angle_max |-> 0,
   angle_increment |-> 0, time_increment |-> 0, stamp |-> 0]

Init ==
  /\ param \in Params
  /\ bounds \in Bounds
  /\ raw = <<>>
  /\ callback = "idle"
  /\ msg = NoScan
  /\ i = 0 /\ start_angle = 0 /\ current_angle = 0 /\ kept = Empty
  /\ msg_filtered = NoScan

\* The driver decodes a telegram and publishes a LaserScan, at time 0.
driverPublishes ==
  /\ callback = "idle"
  /\ \E raws \in Scans :
       /\ Published(raws)
       /\ raw' = raws
       /\ msg' = publishLaserScan(raws, param, 0)
  /\ callback' = "received"
  /\ msg_filtered' = NoScan
  /\ UNCHANGED <<param, bounds, loopVars>>

\* Another node in between republishes the scan without intensities.
intensitiesRemoved ==
  /\ callback = "received"
  /\ msg' = [msg EXCEPT !.intensities = <<>>]
  /\ UNCHANGED <<param, bounds, raw, callback, loopVars, msg_filtered>>

scan_callback ==
  /\ callback = "received"
  /\ callback' = "loop"
  /\ i' = 1
  /\ start_angle' = msg.angle_min
  /\ current_angle' = msg.angle_min
  /\ kept' = Empty
  /\ UNCHANGED <<scanVars, msg_filtered>>

Looping == callback = "loop" /\ i <= Len(msg.ranges)

\* Before the angle to begin at.
skipReading ==
  /\ Looping
  /\ start_angle < bounds.lower
  /\ start_angle' = start_angle + msg.angle_increment
  /\ current_angle' = current_angle + msg.angle_increment
  /\ i' = i + 1
  /\ UNCHANGED <<scanVars, callback, kept, msg_filtered>>

\* Mutant of LastReading: the threshold is tested one reading too late.
lastReadingLate == current_angle > bounds.upper

\* The next increment would put us over the threshold.
LastReading == current_angle + msg.angle_increment > bounds.upper

\* Mutant of copiedIntensities: the test for the last one is off by one.
intensitiesButLast ==
  IF i < Len(msg.intensities)
  THEN Append(kept.intensities, msg.intensities[i])
  ELSE kept.intensities

\* Intensities are copied if there are any.
copiedIntensities ==
  IF i <= Len(msg.intensities)
  THEN Append(kept.intensities, msg.intensities[i])
  ELSE kept.intensities

keepReading ==
  /\ Looping
  /\ start_angle >= bounds.lower
  /\ kept' = [ranges |-> Append(kept.ranges, msg.ranges[i]),
               intensities |-> copiedIntensities]
  /\ \/ LastReading
        /\ i' = Len(msg.ranges) + 1
        /\ UNCHANGED current_angle
     \/ ~LastReading
        /\ i' = i + 1
        /\ current_angle' = current_angle + msg.angle_increment
  /\ UNCHANGED <<scanVars, callback, start_angle, msg_filtered>>

\* Mutant of FilteredMin: the message keeps the first angle of the whole scan.
unfilteredMin == msg.angle_min

FilteredMin == start_angle

publishFiltered ==
  /\ callback = "loop" /\ ~Looping
  /\ callback' = "idle"
  /\ msg_filtered' = [msg EXCEPT !.ranges = kept.ranges,
                                 !.intensities = kept.intensities,
                                 !.angle_min = FilteredMin,
                                 !.angle_max = current_angle]
  /\ i' = 0 /\ start_angle' = 0 /\ current_angle' = 0 /\ kept' = Empty
  /\ UNCHANGED scanVars

Next ==
  \/ driverPublishes
  \/ intensitiesRemoved
  \/ scan_callback
  \/ skipReading
  \/ keepReading
  \/ publishFiltered

Spec == Init /\ [][Next]_vars

-----------------------------------------------------------------------------
Message ==
  [ranges : Seq(Int), intensities : Seq(Int), angle_min : Int, angle_max : Int,
   angle_increment : Int, time_increment : Int, stamp : Int]

\* Every variable has its type, and a message has an intensity for each of its
\* readings or none.
TypeOK ==
  /\ param \in Params
  /\ bounds \in Bounds
  /\ raw \in Scans \cup {<<>>}
  /\ callback \in {"idle", "received", "loop"}
  /\ callback # "idle" => raw # <<>>
  /\ {msg, msg_filtered} \subseteq Message
  /\ Len(msg.ranges) = Len(raw)
  /\ Len(msg.intensities) \in {0, Len(raw)}
  /\ i \in 0 .. Len(raw) + 1
  /\ callback # "loop" => i = 0 /\ kept = Empty
  /\ start_angle \in Int
  /\ current_angle \in Int
  /\ kept \in [ranges : Seq(Int), intensities : Seq(Int)]
  /\ Len(kept.intensities) \in {0, Len(kept.ranges)}

\* The beam that reading k of an unfiltered message was measured with, and the
\* angle of a beam: from dStartAngle to dStopAngle in equal steps.
Beam(k) == IF param.inverted THEN Len(raw) + 1 - k ELSE k

BeamAngle(b) ==
  param.dStartAngle
    + (b - 1) * ((param.dStopAngle - param.dStartAngle) \div (Len(raw) - 1))

(***************************************************************************)
(* publishLaserScan(): "angle_min is always the angle of ranges[0] and     *)
(* angle_max the angle of ranges[num_points - 1]".  Inverted or not, the   *)
(* fields of the message give every range and intensity the angle of the   *)
(* beam that measured it, and the later beam the later time.               *)
(***************************************************************************)
MessageShowsBeams ==
  callback # "idle" =>
    /\ Len(msg.ranges) = Len(raw)
    /\ \A k \in DOMAIN msg.ranges :
         /\ msg.ranges[k] = Distance(raw[Beam(k)])
         /\ AngleOf(msg, k) = BeamAngle(Beam(k))
         /\ \A l \in DOMAIN msg.ranges :
              Beam(k) < Beam(l) => TimeOf(msg, k) <= TimeOf(msg, l)
    /\ \A k \in DOMAIN msg.intensities :
         msg.intensities[k] = Intensity(raw[Beam(k)])
    /\ msg.angle_max = AngleOf(msg, Len(msg.ranges))

\* msg_filtered was made of msg.
Filtered == callback = "idle" /\ raw # <<>>

\* The readings and intensities of the piece are those of msg that follow the
\* first ones, which were skipped.
IsPiece(piece, skipped) ==
  /\ skipped + Len(piece.ranges) <= Len(msg.ranges)
  /\ \A k \in 1 .. Len(piece.ranges) : piece.ranges[k] = msg.ranges[skipped + k]
  /\ Len(piece.intensities) =
       IF msg.intensities = <<>> THEN 0 ELSE Len(piece.ranges)
  /\ \A k \in 1 .. Len(piece.intensities) :
       piece.intensities[k] = msg.intensities[skipped + k]

(***************************************************************************)
(* scan_callback() cuts a piece out of the scan: each of its readings has, *)
(* by the fields of the filtered message, the angle and the intensity it   *)
(* had in the scan received, whichever way that one turns.                 *)
(***************************************************************************)
FilteredIsPiece ==
  Filtered =>
    \E skipped \in 0 .. Len(msg.ranges) :
      /\ IsPiece(msg_filtered, skipped)
      /\ \A k \in 1 .. Len(msg_filtered.ranges) :
           AngleOf(msg_filtered, k) = AngleOf(msg, skipped + k)

WithinBounds ==
  {k \in DOMAIN msg.ranges :
     AngleOf(msg, k) >= bounds.lower /\ AngleOf(msg, k) <= bounds.upper}

(***************************************************************************)
(* Of a scan that turns towards greater angles and has a reading within    *)
(* the bounds, the readings within the bounds are kept and no others, and  *)
(* angle_max is the angle of the last one if the end was cut.  (What       *)
(* happens to other scans is FilteredWithinBounds'.)                       *)
(***************************************************************************)
KeepsWithinBounds ==
  Filtered /\ msg.angle_increment > 0 /\ WithinBounds # {} =>
    /\ msg_filtered.ranges =
         SubSeq(msg.ranges, Min(WithinBounds), Max(WithinBounds))
    /\ Max(WithinBounds) < Len(msg.ranges) =>
         msg_filtered.angle_max = AngleOf(msg_filtered, Len(msg_filtered.ranges))

-----------------------------------------------------------------------------
(***************************************************************************)
(* The inductive invariant behind the properties above.                    *)
(***************************************************************************)

\* The message on its way is the driver's, or that without its intensities.
MessageInv ==
  raw # <<>> =>
    LET full == publishLaserScan(raw, param, 0)
    IN  Published(raw) /\ msg \in {full, [full EXCEPT !.intensities = <<>>]}

\* Where the loop is, when it began to keep readings after the first ones and
\* current_angle is the angle of reading i, or of the last one it keeps.
LoopAt(skipped) ==
  LET count == Len(kept.ranges)
      NextAngle == AngleOf(msg, skipped + count + 1)
  IN  /\ start_angle = AngleOf(msg, skipped + 1)
      /\ \A k \in 1 .. skipped : AngleOf(msg, k) < bounds.lower
      /\ count > 0 => start_angle >= bounds.lower
      /\ \A k \in 1 .. count - 1 : AngleOf(msg, skipped + k + 1) <= bounds.upper
      /\ \/ \* it goes on, or every reading was looked at
            /\ i = skipped + count + 1
            /\ current_angle = NextAngle
            /\ count > 0 => NextAngle <= bounds.upper
         \/ \* it was left by the break
            /\ i = Len(msg.ranges) + 1
            /\ count > 0
            /\ current_angle = AngleOf(msg, skipped + count)
            /\ NextAngle > bounds.upper

LoopInv ==
  callback = "loop" =>
    \E skipped \in 0 .. Len(msg.ranges) : IsPiece(kept, skipped) /\ LoopAt(skipped)

IInv ==
  /\ TypeOK
  /\ MessageInv
  /\ LoopInv
  /\ FilteredIsPiece
  /\ KeepsWithinBounds

-----------------------------------------------------------------------------
(***************************************************************************)
(* README.md of the topic scan_filtered: "The laser scan truncated to      *)
(* [lower_angle, upper_angle]".  Of a scan with readings within them, no   *)
(* reading outside of them is left, whichever way the scan turns.          *)
(***************************************************************************)
FilteredWithinBounds ==
  Filtered /\ WithinBounds # {} =>
    \A k \in DOMAIN msg_filtered.ranges :
      /\ AngleOf(msg_filtered, k) >= bounds.lower
      /\ AngleOf(msg_filtered, k) <= bounds.upper
=============================================================================
