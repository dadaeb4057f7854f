----------------------------- MODULE LaserScan -----------------------------
(***************************************************************************)
(* The data path of a scan: from the raw values of a telegram through      *)
(* convertScanToPolar() of ScannerSickS300 and publishLaserScan() of the   *)
(* node to the LaserScan message.  Element i of an array of the code is    *)
(* element i + 1 of a sequence.                                            *)
(*                                                                         *)
(* Angles and times are integers, in units small enough for the quotients  *)
(* of the code to be exact; rounding is left out.                          *)
(***************************************************************************)
EXTENDS Integers, SequencesExt

CONSTANTS
  dScale,           \* length of a unit of distance
  scan_duration,    \* scan_duration_
  scan_delay        \* scan_delay_

ASSUME ScaleAssumption ==
  dScale \in Nat /\ scan_duration \in Nat /\ scan_delay \in Nat

\* The configuration of the field and of the mounting of the scanner.
Param == [dStartAngle : Int, dStopAngle : Int, inverted : BOOLEAN]

\* A 16-bit value of a telegram: the distance in bits 0 to 12, bit 13 tells a
\* reflector; 0x4004 stands for a point not measured in standby.
Raw == 0 .. 65535
StandbyValue == 16388
Distance(raw) == (raw % 8192) * dScale
Intensity(raw) == (raw % 16384) - (raw % 8192)

Distances(raws) == [i \in DOMAIN raws |-> Distance(raws[i])]
Intensities(raws) == [i \in DOMAIN raws |-> Intensity(raws[i])]

Abs(x) == IF x < 0 THEN -x ELSE x

AngleStep(raws, param) ==
  IF Len(raws) > 1
  THEN Abs(param.dStopAngle - param.dStartAngle) \div (Len(raws) - 1)
  ELSE 0

Angles(raws, param) ==
  [i \in DOMAIN raws |-> param.dStartAngle + (i - 1) * AngleStep(raws, param)]

\* m_bInStandby: not a single point was measured.
InStandby(raws) == \A i \in DOMAIN raws : raws[i] = StandbyValue

\* Mutant of Mirrored: the readings keep their order.
notMirrored(a, param) == a

\* An inverted scanner looks at the world from the other side.
Mirrored(a, param) == IF param.inverted THEN Reverse(a) ELSE a

\* Mutant of AngleIncrement: it is not negated for an inverted scanner.
incrementUnsigned(angles, param) == angles[2] - angles[1]

AngleIncrement(angles, param) ==
  IF param.inverted THEN angles[1] - angles[2] ELSE angles[2] - angles[1]

(***************************************************************************)
(* The message that publishLaserScan() builds at time now for a scan of    *)
(* two points or more.                                                     *)
(***************************************************************************)
publishLaserScan(raws, param, now) ==
  LET num_points == Len(raws)
      angles == Angles(raws, param)
      time_increment == scan_duration \div num_points
  IN  [ranges |-> Mirrored(Distances(raws), param),
       intensities |-> Mirrored(Intensities(raws), param),
       angle_min |-> IF param.inverted THEN angles[num_points] ELSE angles[1],
       angle_max |-> IF param.inverted THEN angles[1] ELSE angles[num_points],
       angle_increment |-> AngleIncrement(angles, param),
       time_increment |->
         IF param.inverted THEN -time_increment ELSE time_increment,
       stamp |-> IF param.inverted THEN now ELSE now - scan_duration - scan_delay]

(***************************************************************************)
(* getScan() and receiveScan(): a telegram leads to a LaserScan unless the *)
(* scanner was in standby or there are fewer than two points.              *)
(***************************************************************************)
Published(raws) == ~InStandby(raws) /\ Len(raws) >= 2

\* What the readers of a message make of its fields.
AngleOf(msg, i) == msg.angle_min + (i - 1) * msg.angle_increment
TimeOf(msg, i) == msg.stamp + (i - 1) * msg.time_increment
=============================================================================
