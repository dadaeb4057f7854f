-------------------------- MODULE ScanFilter_proofs --------------------------
(***************************************************************************)
(* Proofs that the LaserScans of the driver give every range and intensity *)
(* the angle of its beam, and that scan_callback() cuts the right piece    *)
(* out of them: for scans of any length, any field, mounting and bounds.   *)
(***************************************************************************)
EXTENDS ScanFilter, SequenceTheorems, TLAPS

-----------------------------------------------------------------------------
\* Arithmetic of equally spaced angles.
LEMMA Spacing ==
  ASSUME NEW a \in Int, NEW d \in Int, NEW j \in Int
  PROVE  /\ a + (j - 1) * d + d = a + (j + 1 - 1) * d
         /\ a + (j - 1) * (-d) = a - (j - 1) * d
         /\ (j - 1) * d \in Int /\ a + (j - 1) * d \in Int
  OBVIOUS

LEMMA Rising ==
  ASSUME NEW d \in Int, NEW j \in Int, NEW k \in Int
  PROVE  /\ d >= 0 /\ j <= k => (j - 1) * d <= (k - 1) * d
         /\ d > 0 /\ j < k => (j - 1) * d < (k - 1) * d
  OBVIOUS

LEMMA Quotient ==
  ASSUME NEW a \in Nat, NEW n \in Nat, n > 0
  PROVE  a \div n \in Nat /\ a % n \in Nat
  OBVIOUS

\* Reverse() turns a sequence around.
LEMMA ReverseType ==
  ASSUME NEW S, NEW s \in Seq(S)
  PROVE  /\ Reverse(s) \in Seq(S) /\ Len(Reverse(s)) = Len(s)
         /\ \A k \in 1 .. Len(s) : Reverse(s)[k] = s[Len(s) + 1 - k]
  BY DEF Reverse

-----------------------------------------------------------------------------
\* Decoding one raw value of a telegram.
LEMMA ValueType ==
  ASSUME NEW x \in Raw
  PROVE  Distance(x) \in Int /\ Intensity(x) \in Int
<1>1. x \in Nat
  BY DEF Raw
<1>2. \A n \in Nat : n > 0 => x % n \in Nat
  BY <1>1, Quotient
<1>3. x % 8192 \in Nat /\ x % 16384 \in Nat
  BY <1>2
<1>4. QED
  BY <1>3, ScaleAssumption DEF Distance, Intensity

\* Decoding the raw values of a telegram.
LEMMA Decoded ==
  ASSUME NEW raws \in Seq(Raw)
  PROVE  /\ Distances(raws) \in Seq(Int) /\ Len(Distances(raws)) = Len(raws)
         /\ Intensities(raws) \in Seq(Int) /\ Len(Intensities(raws)) = Len(raws)
         /\ \A k \in 1 .. Len(raws) : /\ Distances(raws)[k] = Distance(raws[k])
                                      /\ Intensities(raws)[k] = Intensity(raws[k])
<1>1. \A x \in Raw : Distance(x) \in Int /\ Intensity(x) \in Int
  BY ValueType
<1>2. \A k \in 1 .. Len(raws) : raws[k] \in Raw
  OBVIOUS
<1>3. DOMAIN raws = 1 .. Len(raws) /\ Len(raws) \in Nat
  OBVIOUS
<1>4. /\ Distances(raws) \in [1 .. Len(raws) -> Int]
      /\ Intensities(raws) \in [1 .. Len(raws) -> Int]
  BY <1>1, <1>2, <1>3 DEF Distances, Intensities
<1>5. /\ Distances(raws) \in Seq(Int) /\ Len(Distances(raws)) = Len(raws)
      /\ Intensities(raws) \in Seq(Int) /\ Len(Intensities(raws)) = Len(raws)
  BY <1>3, <1>4, SeqDef
<1>6. QED
  BY <1>3, <1>5 DEF Distances, Intensities

\* The step between the angles of a scan of two points or more.
Step(raws, p) == (p.dStopAngle - p.dStartAngle) \div (Len(raws) - 1)

LEMMA AnglesSpaced ==
  ASSUME NEW raws \in Seq(Raw), Len(raws) >= 2, NEW p \in Params
  PROVE  /\ Step(raws, p) \in Nat /\ p.dStartAngle \in Int
         /\ \A k \in 1 .. Len(raws) :
              Angles(raws, p)[k] = p.dStartAngle + (k - 1) * Step(raws, p)
<1>1. /\ p.dStartAngle \in Int /\ p.dStopAngle \in Int
      /\ p.dStopAngle - p.dStartAngle \in Nat
  BY InputsAssumption DEF Param
<1>2. AngleStep(raws, p) = Step(raws, p)
  BY <1>1 DEF AngleStep, Abs, Step
<1>3. Len(raws) - 1 \in Nat /\ Len(raws) - 1 > 0
  OBVIOUS
<1>4. Step(raws, p) \in Nat
  BY <1>1, <1>3, Quotient DEF Step
<1>5. QED
  BY <1>1, <1>2, <1>4 DEF Angles

\* The place of the beam that is shown as reading k of n.
Shown(p, n, k) == IF p.inverted THEN n + 1 - k ELSE k

\* The message of a scan, field by field.
LEMMA MessageOf ==
  ASSUME NEW raws \in Seq(Raw), Len(raws) >= 2, NEW p \in Params,
         NEW m, m = publishLaserScan(raws, p, 0)
  PROVE  LET n == Len(raws)
             d == Step(raws, p)
             t == scan_duration \div n
         IN  /\ m \in Message
             /\ Len(m.ranges) = n /\ Len(m.intensities) = n
             /\ \A k \in 1 .. n :
                  /\ m.ranges[k] = Distance(raws[Shown(p, n, k)])
                  /\ m.intensities[k] = Intensity(raws[Shown(p, n, k)])
             /\ m.angle_increment = IF p.inverted THEN -d ELSE d
             /\ m.angle_min = p.dStartAngle + (Shown(p, n, 1) - 1) * d
             /\ m.angle_max = p.dStartAngle + (Shown(p, n, n) - 1) * d
             /\ m.time_increment = IF p.inverted THEN -t ELSE t
             /\ m.stamp \in Int
<1> DEFINE n == Len(raws)
           d == Step(raws, p)
           t == scan_duration \div n
           angles == Angles(raws, p)
<1>1. n \in Nat /\ n >= 2 /\ d \in Nat /\ p.dStartAngle \in Int /\ p.inverted \in BOOLEAN
  BY AnglesSpaced, InputsAssumption DEF Param
<1>2. t \in Nat
  BY <1>1, Quotient, ScaleAssumption
<1>3. /\ m.ranges = Mirrored(Distances(raws), p)
      /\ m.intensities = Mirrored(Intensities(raws), p)
      /\ m.angle_min = (IF p.inverted THEN angles[n] ELSE angles[1])
      /\ m.angle_max = (IF p.inverted THEN angles[1] ELSE angles[n])
      /\ m.angle_increment = AngleIncrement(angles, p)
      /\ m.time_increment = (IF p.inverted THEN -t ELSE t)
      /\ m.stamp = (IF p.inverted THEN 0 ELSE 0 - scan_duration - scan_delay)
  BY DEF publishLaserScan
<1>4. \A k \in 1 .. n : angles[k] = p.dStartAngle + (k - 1) * d
  BY AnglesSpaced
<1> HIDE DEF n, d, t, angles
<1>5. /\ angles[1] = p.dStartAngle /\ angles[2] = p.dStartAngle + d
      /\ angles[n] = p.dStartAngle + (n - 1) * d
  BY <1>1, <1>4
<1>6. m.angle_increment = IF p.inverted THEN -d ELSE d
  BY <1>1, <1>3, <1>5 DEF AngleIncrement
<1>7. /\ m.angle_min = p.dStartAngle + (Shown(p, n, 1) - 1) * d
      /\ m.angle_max = p.dStartAngle + (Shown(p, n, n) - 1) * d
  BY <1>1, <1>3, <1>5 DEF Shown
<1>8. ASSUME NEW s \in Seq(Int), Len(s) = n
      PROVE  /\ Mirrored(s, p) \in Seq(Int) /\ Len(Mirrored(s, p)) = n
             /\ \A k \in 1 .. n : Mirrored(s, p)[k] = s[Shown(p, n, k)]
  BY <1>1, <1>8, ReverseType DEF Mirrored, Shown
<1>9. /\ Distances(raws) \in Seq(Int) /\ Len(Distances(raws)) = n
      /\ Intensities(raws) \in Seq(Int) /\ Len(Intensities(raws)) = n
  BY Decoded DEF n
<1>10. /\ m.ranges \in Seq(Int) /\ Len(m.ranges) = n
       /\ m.intensities \in Seq(Int) /\ Len(m.intensities) = n
  BY <1>3, <1>8, <1>9
<1>11. ASSUME NEW k \in 1 .. n
       PROVE  /\ m.ranges[k] = Distance(raws[Shown(p, n, k)])
              /\ m.intensities[k] = Intensity(raws[Shown(p, n, k)])
  <2>1. Shown(p, n, k) \in 1 .. n
    BY <1>1 DEF Shown
  <2>2. QED
    BY <1>3, <1>8, <1>9, <2>1, Decoded DEF n
<1>12. /\ m.angle_min \in Int /\ m.angle_max \in Int /\ m.stamp \in Int
       /\ m.angle_increment \in Int /\ m.time_increment \in Int
  <2>1. \A j \in Int : p.dStartAngle + (j - 1) * d \in Int
    BY <1>1, Spacing
  <2>2. Shown(p, n, 1) \in Int /\ Shown(p, n, n) \in Int
    BY <1>1 DEF Shown
  <2>3. m.angle_min \in Int /\ m.angle_max \in Int
    BY <1>7, <2>1, <2>2
  <2>4. m.stamp \in Int
    BY <1>1, <1>3, ScaleAssumption
  <2>5. m.angle_increment \in Int /\ m.time_increment \in Int
    BY <1>1, <1>2, <1>3, <1>6
  <2>6. QED
    BY <2>3, <2>4, <2>5
<1>13. m \in Message
  BY <1>10, <1>12 DEF publishLaserScan, Message
<1>14. QED
  BY <1>3, <1>6, <1>7, <1>10, <1>11, <1>12, <1>13 DEF n, d, t

-----------------------------------------------------------------------------
\* The angle of the next reading is an increment away.
LEMMA NextReading ==
  ASSUME NEW m \in Message, NEW k \in Int
  PROVE  /\ AngleOf(m, k) \in Int
         /\ AngleOf(m, k + 1) = AngleOf(m, k) + m.angle_increment
         /\ AngleOf(m, 1) = m.angle_min
<1>1. m.angle_min \in Int /\ m.angle_increment \in Int
  BY DEF Message
<1>2. QED
  BY <1>1, Spacing DEF AngleOf

\* The initial state satisfies the invariant.
LEMMA InitIInv == Init => IInv
<1> SUFFICES ASSUME Init PROVE IInv
  OBVIOUS
<1> USE DEF Init
<1>1. NoScan \in Message /\ Len(<<>>) = 0
  BY DEF NoScan, Message
<1>2. TypeOK
  BY <1>1, InputsAssumption DEF TypeOK, Empty, NoScan
<1>3. MessageInv /\ LoopInv /\ FilteredIsPiece /\ KeepsWithinBounds
  BY DEF MessageInv, LoopInv, FilteredIsPiece, KeepsWithinBounds, Filtered
<1>4. QED
  BY <1>2, <1>3 DEF IInv

\* The driver publishes a message.
LEMMA PublishStep == IInv /\ driverPublishes => IInv'
<1> SUFFICES ASSUME IInv, driverPublishes PROVE IInv'
  OBVIOUS
<1> USE DEF driverPublishes
<1>1. PICK raws \in Scans : /\ Published(raws) /\ raw' = raws
                            /\ msg' = publishLaserScan(raws, param, 0)
  OBVIOUS
<1>2. raws \in Seq(Raw) /\ Len(raws) >= 2 /\ raws # <<>> /\ param \in Params
  BY <1>1, InputsAssumption DEF Published, IInv, TypeOK
<1>3. msg' \in Message /\ Len(msg'.ranges) = Len(raw') /\ Len(msg'.intensities) = Len(raw')
  BY <1>1, <1>2, MessageOf
<1>4. NoScan \in Message /\ Len(raw') \in Nat
  BY <1>1, <1>2 DEF NoScan, Message
<1>5. i' = 0 /\ kept' = Empty /\ start_angle' \in Int /\ current_angle' \in Int
  BY DEF IInv, TypeOK, loopVars
<1>6. Empty.ranges = <<>> /\ Empty.intensities = <<>>
      /\ Empty \in [ranges : Seq(Int), intensities : Seq(Int)]
  BY DEF Empty
<1>7. TypeOK'
  <2>1. param' \in Params /\ bounds' \in Bounds /\ raw' \in Scans
    BY <1>1 DEF IInv, TypeOK
  <2>2. callback' = "received" /\ raw' # <<>> /\ msg_filtered' \in Message
    BY <1>1, <1>2, <1>4
  <2>3. Len(kept'.intensities) = 0
    BY <1>5, <1>6
  <2>4. QED
    BY <1>3, <1>4, <1>5, <1>6, <2>1, <2>2, <2>3 DEF TypeOK
<1>8. MessageInv'
  BY <1>1 DEF MessageInv
<1>9. LoopInv' /\ FilteredIsPiece' /\ KeepsWithinBounds'
  BY DEF LoopInv, FilteredIsPiece, KeepsWithinBounds, Filtered
<1>10. QED
  BY <1>7, <1>8, <1>9 DEF IInv

LEMMA WithoutIntensities ==
  ASSUME NEW m \in Message
  PROVE  LET bare == [m EXCEPT !.intensities = <<>>]
         IN  /\ bare \in Message /\ bare.intensities = <<>>
             /\ bare.ranges = m.ranges /\ bare.angle_min = m.angle_min
             /\ bare.angle_max = m.angle_max /\ bare.stamp = m.stamp
             /\ bare.angle_increment = m.angle_increment
             /\ bare.time_increment = m.time_increment
<1>1. <<>> \in Seq(Int)
  OBVIOUS
<1>2. QED
  BY <1>1 DEF Message

\* The intensities are removed from the message on its way.
LEMMA RemoveStep == IInv /\ intensitiesRemoved => IInv'
<1> SUFFICES ASSUME IInv, intensitiesRemoved PROVE IInv'
  OBVIOUS
<1> USE DEF intensitiesRemoved
<1>1. /\ msg' = [msg EXCEPT !.intensities = <<>>] /\ callback' = "received"
      /\ raw # <<>> /\ msg \in Message
  BY DEF IInv, TypeOK
<1>2. /\ msg' \in Message /\ msg'.ranges = msg.ranges /\ msg'.intensities = <<>>
  BY <1>1, WithoutIntensities
<1>3. TypeOK'
  BY <1>1, <1>2 DEF IInv, TypeOK, loopVars
<1>4. MessageInv'
  <2> DEFINE full == publishLaserScan(raw, param, 0)
             bare == [full EXCEPT !.intensities = <<>>]
  <2>1. Published(raw) /\ msg \in {full, bare}
    BY <1>1 DEF IInv, MessageInv
  <2>2. msg' = bare
    BY <1>1, <2>1
  <2>3. QED
    BY <2>1, <2>2 DEF MessageInv
<1>5. LoopInv' /\ FilteredIsPiece' /\ KeepsWithinBounds'
  BY <1>1 DEF LoopInv, FilteredIsPiece, KeepsWithinBounds, Filtered
<1>6. QED
  BY <1>3, <1>4, <1>5 DEF IInv

\* The callback begins its loop: nothing is skipped and nothing kept.
LEMMA BeginStep == IInv /\ scan_callback => IInv'
<1> SUFFICES ASSUME IInv, scan_callback PROVE IInv'
  OBVIOUS
<1> USE DEF scan_callback, scanVars
<1>1. /\ callback' = "loop" /\ i' = 1 /\ kept' = Empty /\ msg' = msg /\ raw' = raw
      /\ start_angle' = msg.angle_min /\ current_angle' = msg.angle_min
      /\ bounds' = bounds /\ param' = param
  OBVIOUS
<1>2. /\ msg \in Message /\ Len(msg.ranges) = Len(raw) /\ Len(raw) \in Nat
      /\ msg.angle_min \in Int /\ Len(msg.ranges) \in Nat
  <2>1. msg \in Message /\ raw \in Seq(Raw)
    BY InputsAssumption DEF IInv, TypeOK
  <2>2. Len(raw) \in Nat
    BY <2>1
  <2>3. QED
    BY <2>1, <2>2 DEF IInv, TypeOK, Message
<1>3. /\ kept'.ranges = <<>> /\ kept'.intensities = <<>> /\ Len(<<>>) = 0
      /\ kept' \in [ranges : Seq(Int), intensities : Seq(Int)]
  BY <1>1 DEF Empty
<1>4. TypeOK'
  BY <1>1, <1>2, <1>3 DEF IInv, TypeOK
<1>5. MessageInv'
  BY <1>1 DEF IInv, MessageInv
<1>6. LoopInv'
  <2>1. IsPiece(kept, 0)'
    BY <1>1, <1>2, <1>3 DEF IsPiece
  <2>2. AngleOf(msg, 1) = msg.angle_min
    BY <1>2, NextReading
  <2>3. LoopAt(0)'
    BY <1>1, <1>2, <1>3, <2>2 DEF LoopAt
  <2>4. QED
    BY <1>1, <1>2, <2>1, <2>3 DEF LoopInv
<1>7. FilteredIsPiece' /\ KeepsWithinBounds'
  BY <1>1 DEF FilteredIsPiece, KeepsWithinBounds, Filtered
<1>8. QED
  BY <1>4, <1>5, <1>6, <1>7 DEF IInv

-----------------------------------------------------------------------------
\* What a turn of the loop knows of the message and of the piece kept so far.
LEMMA InLoop ==
  ASSUME IInv, callback = "loop"
  PROVE  /\ msg \in Message /\ Len(msg.ranges) \in Nat /\ Len(msg.ranges) = Len(raw)
         /\ msg.ranges \in Seq(Int) /\ msg.intensities \in Seq(Int)
         /\ msg.angle_increment \in Int
         /\ Len(msg.intensities) \in {0, Len(msg.ranges)}
         /\ kept.ranges \in Seq(Int) /\ kept.intensities \in Seq(Int)
         /\ Len(kept.ranges) \in Nat
         /\ start_angle \in Int /\ current_angle \in Int
         /\ bounds.lower \in Int /\ bounds.upper \in Int
         /\ \E skipped \in 0 .. Len(msg.ranges) :
              IsPiece(kept, skipped) /\ LoopAt(skipped)
<1>1. msg \in Message /\ Len(msg.ranges) = Len(raw)
      /\ Len(msg.intensities) \in {0, Len(raw)}
  BY DEF IInv, TypeOK
<1>2. msg.ranges \in Seq(Int) /\ msg.intensities \in Seq(Int)
      /\ msg.angle_increment \in Int
  BY <1>1 DEF Message
<1>3. bounds.lower \in Int /\ bounds.upper \in Int
  BY InputsAssumption DEF IInv, TypeOK
<1>4. kept.ranges \in Seq(Int) /\ kept.intensities \in Seq(Int)
      /\ start_angle \in Int /\ current_angle \in Int
  BY DEF IInv, TypeOK
<1>5. QED
  BY <1>1, <1>2, <1>3, <1>4 DEF IInv, LoopInv

\* A reading before the angle to begin at is skipped.
LEMMA SkipStep == IInv /\ skipReading => IInv'
<1> SUFFICES ASSUME IInv, skipReading PROVE IInv'
  OBVIOUS
<1> USE DEF skipReading, Looping, scanVars
<1>1. PICK skipped \in 0 .. Len(msg.ranges) : IsPiece(kept, skipped) /\ LoopAt(skipped)
  BY InLoop
<1> DEFINE n == Len(msg.ranges)
           count == Len(kept.ranges)
<1>2. /\ msg \in Message /\ n \in Nat /\ n = Len(raw) /\ count \in Nat
      /\ start_angle \in Int /\ current_angle \in Int /\ msg.angle_increment \in Int
      /\ bounds.lower \in Int /\ bounds.upper \in Int
      /\ skipped \in Nat /\ skipped + 1 \in Int
  BY InLoop
<1>3. /\ i' = i + 1 /\ kept' = kept /\ msg' = msg /\ bounds' = bounds /\ callback' = "loop"
      /\ start_angle' = start_angle + msg.angle_increment
      /\ current_angle' = current_angle + msg.angle_increment
      /\ start_angle < bounds.lower /\ i <= n /\ raw' = raw /\ param' = param
      /\ msg_filtered' = msg_filtered /\ callback = "loop"
  OBVIOUS
<1>4. /\ start_angle = AngleOf(msg, skipped + 1)
      /\ \A k \in 1 .. skipped : AngleOf(msg, k) < bounds.lower
      /\ count = 0 /\ i = skipped + 1
      /\ current_angle = AngleOf(msg, skipped + 1)
  <2>1. count = 0
    BY <1>1, <1>2, <1>3 DEF LoopAt
  <2>2. skipped + 0 + 1 = skipped + 1
    BY <1>2
  <2>3. /\ i = skipped + 1
        /\ current_angle = AngleOf(msg, skipped + count + 1)
    BY <1>1, <1>2, <2>1 DEF LoopAt
  <2>4. QED
    BY <1>1, <2>1, <2>2, <2>3 DEF LoopAt
<1>5. AngleOf(msg, skipped + 1 + 1) = AngleOf(msg, skipped + 1) + msg.angle_increment
      /\ AngleOf(msg, skipped + 1 + 1) \in Int
  <2>1. \A k \in Int : /\ AngleOf(msg, k) \in Int
                       /\ AngleOf(msg, k + 1) = AngleOf(msg, k) + msg.angle_increment
    BY <1>2, NextReading
  <2>2. skipped + 1 \in Int /\ skipped + 1 + 1 \in Int
    BY <1>2
  <2>3. QED
    BY <2>1, <2>2
<1>6. skipped + 1 \in 0 .. n
  BY <1>2, <1>3, <1>4
<1>7. IsPiece(kept, skipped + 1)'
  <2>1. Len(kept.intensities) = 0
    BY <1>1, <1>4 DEF IsPiece
  <2>2. QED
    BY <1>1, <1>2, <1>3, <1>4, <1>6, <2>1 DEF IsPiece
<1>8. LoopAt(skipped + 1)'
  <2>1. \A k \in 1 .. skipped + 1 : AngleOf(msg, k) < bounds.lower
    BY <1>3, <1>4
  <2>2. QED
    BY <1>2, <1>3, <1>4, <1>5, <2>1 DEF LoopAt
<1>9. LoopInv'
  BY <1>3, <1>6, <1>7, <1>8 DEF LoopInv
<1>10. TypeOK'
  <2>1. i' \in 0 .. Len(raw) + 1 /\ start_angle' \in Int /\ current_angle' \in Int
    BY <1>2, <1>3, <1>4
  <2>2. QED
    BY <1>3, <2>1 DEF IInv, TypeOK
<1>11. MessageInv' /\ FilteredIsPiece' /\ KeepsWithinBounds'
  BY <1>3 DEF IInv, MessageInv, FilteredIsPiece, KeepsWithinBounds, Filtered
<1>12. QED
  BY <1>9, <1>10, <1>11 DEF IInv

LEMMA NotTheLast ==
  ASSUME NEW c \in Nat, NEW k \in 1 .. c + 1, k # c + 1
  PROVE  k \in 1 .. c
  OBVIOUS

\* A part of a sequence grows by the element that follows it.
LEMMA LongerPart ==
  ASSUME NEW part \in Seq(Int), NEW whole \in Seq(Int), NEW skipped \in Nat, NEW next \in Int,
         next = skipped + Len(part) + 1, next <= Len(whole),
         \A k \in 1 .. Len(part) : part[k] = whole[skipped + k]
  PROVE  LET longer == Append(part, whole[next])
         IN  /\ longer \in Seq(Int) /\ Len(longer) = Len(part) + 1
             /\ \A k \in 1 .. Len(part) + 1 : longer[k] = whole[skipped + k]
<1> DEFINE longer == Append(part, whole[next])
<1>1. Len(part) \in Nat /\ whole[next] \in Int
  OBVIOUS
<1>2. /\ longer \in Seq(Int) /\ Len(longer) = Len(part) + 1
      /\ \A k \in 1 .. Len(part) : longer[k] = part[k]
      /\ longer[Len(part) + 1] = whole[next]
  BY <1>1
<1> HIDE DEF longer
<1>3. ASSUME NEW k \in 1 .. Len(part) + 1 PROVE longer[k] = whole[skipped + k]
  <2>1. CASE k = Len(part) + 1
    <3>1. next = skipped + k
      BY <1>1, <2>1
    <3>2. QED
      BY <1>2, <2>1, <3>1
  <2>2. CASE k # Len(part) + 1
    <3>1. k \in 1 .. Len(part)
      BY <1>1, <2>2, NotTheLast
    <3>2. QED
      BY <1>2, <3>1
  <2>3. QED
    BY <2>1, <2>2
<1>4. QED
  BY <1>2, <1>3 DEF longer

\* The piece, with one reading more.
LEMMA LongerPiece ==
  ASSUME IInv, keepReading, NEW skipped \in 0 .. Len(msg.ranges),
         IsPiece(kept, skipped), i = skipped + Len(kept.ranges) + 1
  PROVE  /\ IsPiece(kept, skipped)' /\ Len(kept'.ranges) = Len(kept.ranges) + 1
         /\ kept' \in [ranges : Seq(Int), intensities : Seq(Int)]
         /\ Len(kept'.intensities) \in {0, Len(kept'.ranges)}
<1> DEFINE n == Len(msg.ranges)
           count == Len(kept.ranges)
<1>1. /\ n \in Nat /\ count \in Nat /\ skipped \in Nat
      /\ msg.ranges \in Seq(Int) /\ msg.intensities \in Seq(Int)
      /\ kept.ranges \in Seq(Int) /\ kept.intensities \in Seq(Int)
      /\ Len(msg.intensities) \in {0, n}
  BY InLoop DEF keepReading, Looping
<1>2. /\ kept' = [ranges |-> Append(kept.ranges, msg.ranges[i]),
                  intensities |-> copiedIntensities]
      /\ i <= n /\ msg' = msg
  BY DEF keepReading, Looping, scanVars
<1>3. /\ \A k \in 1 .. count : kept.ranges[k] = msg.ranges[skipped + k]
      /\ Len(kept.intensities) = IF msg.intensities = <<>> THEN 0 ELSE count
      /\ \A k \in 1 .. Len(kept.intensities) :
           kept.intensities[k] = msg.intensities[skipped + k]
  BY DEF IsPiece
<1>4. /\ kept'.ranges \in Seq(Int) /\ Len(kept'.ranges) = count + 1
      /\ \A k \in 1 .. count + 1 : kept'.ranges[k] = msg.ranges[skipped + k]
  <2>1. LET longer == Append(kept.ranges, msg.ranges[i])
        IN  /\ longer \in Seq(Int) /\ Len(longer) = count + 1
            /\ \A k \in 1 .. count + 1 : longer[k] = msg.ranges[skipped + k]
    <3>1. /\ i \in Int
          /\ i = skipped + Len(kept.ranges) + 1 /\ i <= Len(msg.ranges)
          /\ \A k \in 1 .. Len(kept.ranges) : kept.ranges[k] = msg.ranges[skipped + k]
          /\ kept.ranges \in Seq(Int) /\ msg.ranges \in Seq(Int) /\ skipped \in Nat
      BY <1>1, <1>2, <1>3
    <3>2. QED
      BY <3>1, LongerPart
  <2>2. kept'.ranges = Append(kept.ranges, msg.ranges[i])
    BY <1>2
  <2>3. QED
    BY <2>1, <2>2
<1>5. /\ kept'.intensities \in Seq(Int)
      /\ Len(kept'.intensities) = IF msg.intensities = <<>> THEN 0 ELSE count + 1
      /\ \A k \in 1 .. Len(kept'.intensities) :
           kept'.intensities[k] = msg.intensities[skipped + k]
  <2>1. kept'.intensities = copiedIntensities
    BY <1>2
  <2>2. CASE msg.intensities = <<>>
    <3>1. i > 0 /\ Len(msg.intensities) = 0
      BY <1>1, <2>2
    <3>2. kept'.intensities = kept.intensities
      BY <1>1, <2>1, <3>1 DEF copiedIntensities
    <3>3. QED
      BY <1>1, <1>3, <2>2, <3>2
  <2>3. CASE msg.intensities # <<>>
    <3>1. Len(msg.intensities) = n /\ Len(kept.intensities) = count
      BY <1>1, <1>3, <2>3
    <3>2. kept'.intensities = Append(kept.intensities, msg.intensities[i])
      BY <1>2, <2>1, <3>1 DEF copiedIntensities
    <3>3. LET longer == Append(kept.intensities, msg.intensities[i])
          IN  /\ longer \in Seq(Int) /\ Len(longer) = count + 1
              /\ \A k \in 1 .. count + 1 : longer[k] = msg.intensities[skipped + k]
      <4>1. /\ i \in Int
            /\ i = skipped + Len(kept.intensities) + 1 /\ i <= Len(msg.intensities)
            /\ \A k \in 1 .. Len(kept.intensities) :
                 kept.intensities[k] = msg.intensities[skipped + k]
            /\ kept.intensities \in Seq(Int) /\ msg.intensities \in Seq(Int)
            /\ skipped \in Nat
        BY <1>1, <1>2, <1>3, <3>1
      <4>2. LET longer == Append(kept.intensities, msg.intensities[i])
            IN  /\ longer \in Seq(Int) /\ Len(longer) = Len(kept.intensities) + 1
                /\ \A k \in 1 .. Len(kept.intensities) + 1 :
                     longer[k] = msg.intensities[skipped + k]
        BY <4>1, LongerPart
      <4>3. QED
        BY <3>1, <4>2
    <3>4. QED
      BY <2>3, <3>2, <3>3
  <2>4. QED
    BY <2>2, <2>3
<1>6. kept' \in [ranges : Seq(Int), intensities : Seq(Int)]
  BY <1>2, <1>4, <1>5
<1>7. IsPiece(kept, skipped)'
  <2>1. skipped + Len(kept'.ranges) <= Len(msg'.ranges)
    BY <1>1, <1>2, <1>4
  <2>2. QED
    BY <1>2, <1>4, <1>5, <2>1 DEF IsPiece
<1>8. Len(kept'.intensities) \in {0, Len(kept'.ranges)}
  BY <1>4, <1>5
<1>9. QED
  BY <1>4, <1>6, <1>7, <1>8

\* A reading is kept, and the loop goes on or is left.
LEMMA KeepStep == IInv /\ keepReading => IInv'
<1> SUFFICES ASSUME IInv, keepReading PROVE IInv'
  OBVIOUS
<1>1. PICK skipped \in 0 .. Len(msg.ranges) : IsPiece(kept, skipped) /\ LoopAt(skipped)
  BY InLoop DEF keepReading, Looping
<1> DEFINE n == Len(msg.ranges)
           count == Len(kept.ranges)
           here == skipped + count + 1
<1>2. /\ msg \in Message /\ n \in Nat /\ n = Len(raw) /\ count \in Nat
      /\ start_angle \in Int /\ current_angle \in Int /\ msg.angle_increment \in Int
      /\ bounds.lower \in Int /\ bounds.upper \in Int
      /\ skipped \in Nat /\ here \in Nat
  BY InLoop DEF keepReading, Looping
<1>3. /\ msg' = msg /\ bounds' = bounds /\ callback' = "loop" /\ callback = "loop"
      /\ start_angle' = start_angle /\ start_angle >= bounds.lower /\ i <= n
      /\ raw' = raw /\ param' = param /\ msg_filtered' = msg_filtered
      /\ \/ LastReading /\ i' = n + 1 /\ current_angle' = current_angle
         \/ ~LastReading /\ i' = i + 1
            /\ current_angle' = current_angle + msg.angle_increment
  BY DEF keepReading, Looping, scanVars
<1>4. /\ i = here /\ current_angle = AngleOf(msg, here)
      /\ count > 0 => current_angle <= bounds.upper
  BY <1>1, <1>2, <1>3 DEF LoopAt
<1>5. /\ IsPiece(kept, skipped)' /\ Len(kept'.ranges) = count + 1
      /\ kept' \in [ranges : Seq(Int), intensities : Seq(Int)]
      /\ Len(kept'.intensities) \in {0, Len(kept'.ranges)}
  BY <1>1, <1>4, LongerPiece
<1>6. AngleOf(msg, here + 1) = current_angle + msg.angle_increment
  <2>1. \A k \in Int : AngleOf(msg, k + 1) = AngleOf(msg, k) + msg.angle_increment
    BY <1>2, NextReading
  <2>2. here \in Int
    BY <1>2
  <2>3. QED
    BY <1>4, <2>1, <2>2
<1>7. LoopAt(skipped)'
  <2>1. /\ start_angle = AngleOf(msg, skipped + 1)
        /\ \A k \in 1 .. skipped : AngleOf(msg, k) < bounds.lower
        /\ \A k \in 1 .. count - 1 : AngleOf(msg, skipped + k + 1) <= bounds.upper
    BY <1>1 DEF LoopAt
  <2>2. \A k \in 1 .. count + 1 - 1 : AngleOf(msg, skipped + k + 1) <= bounds.upper
    <3>1. TAKE k \in 1 .. count + 1 - 1
    <3>2. CASE k = count
      <4>1. count > 0 /\ skipped + k + 1 = here
        BY <1>2, <3>2
      <4>2. QED
        BY <1>4, <4>1
    <3>3. CASE k # count
      <4>1. k \in 1 .. count - 1
        BY <1>2, <3>3
      <4>2. QED
        BY <2>1, <4>1
    <3>4. QED
      BY <3>2, <3>3
  <2>3. /\ here + 1 = skipped + (count + 1) + 1 /\ here = skipped + (count + 1)
        /\ count + 1 > 0
    BY <1>2
  <2>4. \/ /\ i' = skipped + (count + 1) + 1
           /\ current_angle' = AngleOf(msg, skipped + (count + 1) + 1)
           /\ AngleOf(msg, skipped + (count + 1) + 1) <= bounds.upper
        \/ /\ i' = n + 1
           /\ current_angle' = AngleOf(msg, skipped + (count + 1))
           /\ AngleOf(msg, skipped + (count + 1) + 1) > bounds.upper
    <3>1. CASE LastReading
      <4>1. i' = n + 1 /\ current_angle' = current_angle
        BY <1>3, <3>1
      <4>2. AngleOf(msg, here + 1) > bounds.upper
        BY <1>6, <3>1 DEF LastReading
      <4>3. QED
        BY <1>4, <2>3, <4>1, <4>2
    <3>2. CASE ~LastReading
      <4>1. i' = i + 1 /\ current_angle' = current_angle + msg.angle_increment
        BY <1>3, <3>2
      <4>2. current_angle + msg.angle_increment <= bounds.upper
        BY <1>2, <3>2 DEF LastReading
      <4>3. QED
        BY <1>2, <1>4, <1>6, <2>3, <4>1, <4>2
    <3>3. QED
      BY <3>1, <3>2
  <2>5. QED
    BY <1>3, <1>5, <2>1, <2>2, <2>3, <2>4 DEF LoopAt
<1>8. LoopInv'
  BY <1>3, <1>5, <1>7 DEF LoopInv
<1>9. TypeOK'
  <2>1. i' \in 0 .. Len(raw) + 1 /\ current_angle' \in Int
    BY <1>2, <1>3, <1>4
  <2>2. QED
    BY <1>2, <1>3, <1>5, <2>1 DEF IInv, TypeOK
<1>10. MessageInv' /\ FilteredIsPiece' /\ KeepsWithinBounds'
  BY <1>3 DEF IInv, MessageInv, FilteredIsPiece, KeepsWithinBounds, Filtered
<1>11. QED
  BY <1>8, <1>9, <1>10 DEF IInv

-----------------------------------------------------------------------------
\* The angles of a message that turns towards greater angles.
LEMMA Sorted ==
  ASSUME NEW m \in Message, m.angle_increment > 0, NEW j \in Int, NEW k \in Int, j <= k
  PROVE  AngleOf(m, j) \in Int /\ AngleOf(m, k) \in Int /\ AngleOf(m, j) <= AngleOf(m, k)
<1>1. m.angle_min \in Int /\ m.angle_increment \in Int
  BY DEF Message
<1>2. (j - 1) * m.angle_increment <= (k - 1) * m.angle_increment
  BY <1>1, Rising
<1>3. (j - 1) * m.angle_increment \in Int /\ (k - 1) * m.angle_increment \in Int
  BY <1>1, Spacing
<1>4. QED
  BY <1>1, <1>2, <1>3 DEF AngleOf

LEMMA MinMaxOfInterval ==
  ASSUME NEW a \in Int, NEW b \in Int, a <= b
  PROVE  Min(a .. b) = a /\ Max(a .. b) = b
<1>1. /\ a \in a .. b /\ \A y \in a .. b : a <= y
      /\ b \in a .. b /\ \A y \in a .. b : b >= y
  OBVIOUS
<1>2. \A x \in a .. b : (\A y \in a .. b : x <= y) => x = a
  OBVIOUS
<1>3. \A x \in a .. b : (\A y \in a .. b : x >= y) => x = b
  OBVIOUS
<1>4. QED
  BY <1>1, <1>2, <1>3 DEF Min, Max

\* When the loop has ended in a scan that turns towards greater angles, the
\* readings within the bounds, if any, are those kept.
LEMMA AllWithin ==
  ASSUME IInv, callback = "loop", ~Looping, msg.angle_increment > 0,
         NEW skipped \in 0 .. Len(msg.ranges), IsPiece(kept, skipped), LoopAt(skipped),
         WithinBounds # {}
  PROVE  LET last == skipped + Len(kept.ranges)
         IN  /\ WithinBounds = skipped + 1 .. last
             /\ skipped + 1 <= last
             /\ last < Len(msg.ranges) => current_angle = AngleOf(msg, last)
<1> DEFINE n == Len(msg.ranges)
           count == Len(kept.ranges)
           last == skipped + count
<1>1. /\ msg \in Message /\ n \in Nat /\ count \in Nat /\ i \in Int
      /\ msg.ranges \in Seq(Int) /\ bounds.lower \in Int /\ bounds.upper \in Int
      /\ start_angle \in Int /\ current_angle \in Int
      /\ skipped \in Nat /\ last \in Nat /\ last <= n
  <2>1. skipped + count <= n
    BY DEF IsPiece
  <2>2. i \in Int
    <3>1. Len(raw) \in Nat
      BY InLoop
    <3>2. QED
      BY <3>1 DEF IInv, TypeOK
  <2>3. QED
    BY <2>1, <2>2, InLoop
<1>2. i > n
  BY <1>1 DEF Looping
<1>3. /\ start_angle = AngleOf(msg, skipped + 1)
      /\ \A k \in 1 .. skipped : AngleOf(msg, k) < bounds.lower
      /\ count > 0 => start_angle >= bounds.lower
      /\ \A k \in 1 .. count - 1 : AngleOf(msg, skipped + k + 1) <= bounds.upper
      /\ \/ i = last + 1 /\ (count > 0 => AngleOf(msg, last + 1) <= bounds.upper)
         \/ /\ count > 0 /\ current_angle = AngleOf(msg, last)
            /\ AngleOf(msg, last + 1) > bounds.upper
  BY DEF LoopAt
<1>4. \A j \in Int : \A k \in Int : j <= k =>
        AngleOf(msg, j) \in Int /\ AngleOf(msg, k) \in Int
        /\ AngleOf(msg, j) <= AngleOf(msg, k)
  BY <1>1, Sorted
<1>5. \A k \in WithinBounds : k \in 1 .. n /\ k \in Int /\ AngleOf(msg, k) >= bounds.lower
                              /\ AngleOf(msg, k) <= bounds.upper
  <2>1. DOMAIN msg.ranges = 1 .. n
    BY <1>1
  <2>2. QED
    BY <1>1, <2>1 DEF WithinBounds
<1>6. \A k \in WithinBounds : k >= skipped + 1
  <2>1. ASSUME NEW k \in WithinBounds, k <= skipped PROVE FALSE
    <3>1. k \in 1 .. skipped /\ k \in Int
      BY <1>1, <1>5, <2>1
    <3>2. AngleOf(msg, k) < bounds.lower /\ AngleOf(msg, k) >= bounds.lower
      BY <1>3, <1>5, <3>1
    <3>3. AngleOf(msg, k) \in Int
      BY <1>4, <3>1
    <3>4. QED
      BY <1>1, <3>2, <3>3
  <2>2. QED
    BY <1>1, <1>5, <2>1
<1>7. count > 0
  <2>1. CASE count = 0
    <3>1. n = skipped
      BY <1>1, <1>2, <1>3, <2>1
    <3>2. WithinBounds = {}
      BY <1>1, <1>5, <1>6, <3>1
    <3>3. QED
      BY <3>2
  <2>2. QED
    BY <1>1, <2>1
<1>8. \A k \in WithinBounds : k <= last
  <2>1. CASE i = last + 1
    BY <1>1, <1>2, <1>5, <2>1
  <2>2. CASE AngleOf(msg, last + 1) > bounds.upper
    <3>1. ASSUME NEW k \in WithinBounds, k > last PROVE FALSE
      <4>1. k \in Int /\ last + 1 \in Int /\ AngleOf(msg, k) <= bounds.upper
        BY <1>1, <1>5
      <4>2. last + 1 <= k
        BY <1>1, <3>1, <4>1
      <4>3. /\ AngleOf(msg, k) \in Int /\ AngleOf(msg, last + 1) \in Int
            /\ AngleOf(msg, last + 1) <= AngleOf(msg, k)
        BY <1>4, <4>1, <4>2
      <4>4. QED
        BY <1>1, <2>2, <4>1, <4>3
    <3>2. QED
      BY <1>1, <1>5, <3>1
  <2>3. QED
    BY <1>3, <2>1, <2>2
<1>9. AngleOf(msg, skipped + 1) <= bounds.upper
  <2>1. PICK k \in WithinBounds : TRUE
    OBVIOUS
  <2>2. k >= skipped + 1 /\ k \in Int /\ skipped + 1 \in Int
        /\ AngleOf(msg, k) <= bounds.upper
    BY <1>1, <1>5, <1>6
  <2>3. /\ AngleOf(msg, skipped + 1) \in Int /\ AngleOf(msg, k) \in Int
        /\ AngleOf(msg, skipped + 1) <= AngleOf(msg, k)
    BY <1>4, <2>2
  <2>4. QED
    BY <1>1, <2>2, <2>3
<1>10. \A k \in skipped + 1 .. last : k \in WithinBounds
  <2>1. TAKE k \in skipped + 1 .. last
  <2>2. k \in 1 .. n /\ k \in Int /\ skipped + 1 \in Int /\ skipped + 1 <= k
    BY <1>1
  <2>3. AngleOf(msg, k) >= bounds.lower
    <3>1. /\ AngleOf(msg, skipped + 1) \in Int /\ AngleOf(msg, k) \in Int
          /\ AngleOf(msg, skipped + 1) <= AngleOf(msg, k)
      BY <1>4, <2>2
    <3>2. AngleOf(msg, skipped + 1) >= bounds.lower
      BY <1>3, <1>7
    <3>3. QED
      BY <1>1, <3>1, <3>2
  <2>4. AngleOf(msg, k) <= bounds.upper
    <3>1. CASE k = skipped + 1
      BY <1>9, <3>1
    <3>2. CASE k # skipped + 1
      <4>1. k - skipped - 1 \in 1 .. count - 1 /\ skipped + (k - skipped - 1) + 1 = k
        BY <1>1, <2>2, <3>2
      <4>2. QED
        BY <1>3, <4>1
    <3>3. QED
      BY <3>1, <3>2
  <2>5. k \in DOMAIN msg.ranges
    BY <1>1, <2>2
  <2>6. QED
    BY <2>3, <2>4, <2>5 DEF WithinBounds
<1>11. WithinBounds = skipped + 1 .. last
  <2>1. \A k \in WithinBounds : k \in skipped + 1 .. last
    BY <1>1, <1>5, <1>6, <1>8
  <2>2. QED
    BY <1>10, <2>1
<1>12. last < n => current_angle = AngleOf(msg, last)
  BY <1>1, <1>2, <1>3
<1>13. QED
  BY <1>1, <1>7, <1>11, <1>12

\* The filtered message is published.
LEMMA PublishFilteredStep == IInv /\ publishFiltered => IInv'
<1> SUFFICES ASSUME IInv, publishFiltered PROVE IInv'
  OBVIOUS
<1>1. /\ callback = "loop" /\ callback' = "idle" /\ ~Looping
      /\ msg' = msg /\ raw' = raw /\ param' = param /\ bounds' = bounds
      /\ i' = 0 /\ start_angle' = 0 /\ current_angle' = 0 /\ kept' = Empty
      /\ msg_filtered' = [msg EXCEPT !.ranges = kept.ranges,
                                     !.intensities = kept.intensities,
                                     !.angle_min = start_angle,
                                     !.angle_max = current_angle]
  BY DEF publishFiltered, scanVars, FilteredMin
<1>2. PICK skipped \in 0 .. Len(msg.ranges) : IsPiece(kept, skipped) /\ LoopAt(skipped)
  BY <1>1, InLoop
<1> DEFINE n == Len(msg.ranges)
           count == Len(kept.ranges)
<1>3. /\ msg \in Message /\ n \in Nat /\ n = Len(raw) /\ count \in Nat
      /\ msg.ranges \in Seq(Int) /\ msg.angle_increment \in Int
      /\ kept.ranges \in Seq(Int) /\ kept.intensities \in Seq(Int)
      /\ start_angle \in Int /\ current_angle \in Int /\ skipped \in Nat
  BY <1>1, InLoop
<1>4. /\ msg_filtered' \in Message /\ msg_filtered'.ranges = kept.ranges
      /\ msg_filtered'.intensities = kept.intensities
      /\ msg_filtered'.angle_min = start_angle /\ msg_filtered'.angle_max = current_angle
      /\ msg_filtered'.angle_increment = msg.angle_increment
  <2> DEFINE cut == [msg EXCEPT !.ranges = kept.ranges,
                                !.intensities = kept.intensities,
                                !.angle_min = start_angle,
                                !.angle_max = current_angle]
  <2>1. /\ cut \in Message /\ cut.ranges = kept.ranges
        /\ cut.intensities = kept.intensities
        /\ cut.angle_min = start_angle /\ cut.angle_max = current_angle
        /\ cut.angle_increment = msg.angle_increment
    BY <1>3 DEF Message
  <2>2. msg_filtered' = cut
    BY <1>1
  <2> HIDE DEF cut
  <2>3. QED
    BY <2>1, <2>2
<1>5. TypeOK'
  <2>1. /\ Empty.ranges = <<>> /\ Empty.intensities = <<>> /\ Len(<<>>) = 0
        /\ Empty \in [ranges : Seq(Int), intensities : Seq(Int)]
    BY DEF Empty
  <2>2. 0 \in 0 .. Len(raw) + 1
    BY <1>3
  <2>3. QED
    BY <1>1, <1>3, <1>4, <2>1, <2>2 DEF IInv, TypeOK
<1>6. MessageInv' /\ LoopInv'
  BY <1>1 DEF IInv, MessageInv, LoopInv
<1>7. start_angle = AngleOf(msg, skipped + 1)
  BY <1>2 DEF LoopAt
<1>8. \A k \in Int : AngleOf(msg_filtered', k) = AngleOf(msg, skipped + k)
  <2>1. TAKE k \in Int
  <2>2. msg.angle_min \in Int
    BY <1>3 DEF Message
  <2>3. start_angle = msg.angle_min + (skipped + 1 - 1) * msg.angle_increment
    BY <1>7 DEF AngleOf
  <2>4. AngleOf(msg_filtered', k) = start_angle + (k - 1) * msg.angle_increment
    BY <1>4 DEF AngleOf
  <2>5. AngleOf(msg, skipped + k) = msg.angle_min + (skipped + k - 1) * msg.angle_increment
    BY DEF AngleOf
  <2>6. (msg.angle_min + (skipped + 1 - 1) * msg.angle_increment)
            + (k - 1) * msg.angle_increment
          = msg.angle_min + (skipped + k - 1) * msg.angle_increment
    <3>1. PICK a \in Int, d \in Int : a = msg.angle_min /\ d = msg.angle_increment
      BY <1>3, <2>2
    <3>2. (a + (skipped + 1 - 1) * d) + (k - 1) * d = a + (skipped + k - 1) * d
      BY <1>3
    <3>3. QED
      BY <3>1, <3>2
  <2>7. QED
    BY <2>3, <2>4, <2>5, <2>6
<1>9. FilteredIsPiece'
  <2>1. IsPiece(msg_filtered, skipped)'
    BY <1>1, <1>2, <1>4 DEF IsPiece
  <2>2. \A k \in 1 .. Len(msg_filtered'.ranges) :
          AngleOf(msg_filtered', k) = AngleOf(msg', skipped + k)
    BY <1>1, <1>4, <1>8
  <2>3. QED
    BY <1>1, <2>1, <2>2 DEF FilteredIsPiece
<1>10. KeepsWithinBounds'
  <2>1. WithinBounds' = WithinBounds
    BY <1>1 DEF WithinBounds
  <2>2. SUFFICES
          ASSUME msg.angle_increment > 0, WithinBounds # {}
          PROVE  /\ kept.ranges =
                      SubSeq(msg.ranges, Min(WithinBounds), Max(WithinBounds))
                 /\ Max(WithinBounds) < n =>
                      current_angle = AngleOf(msg_filtered', count)
    BY <1>1, <1>4, <2>1 DEF KeepsWithinBounds
  <2>3. /\ WithinBounds = skipped + 1 .. skipped + count /\ skipped + 1 <= skipped + count
        /\ skipped + count < n => current_angle = AngleOf(msg, skipped + count)
    BY <1>1, <1>2, <2>2, AllWithin
  <2>4. Min(WithinBounds) = skipped + 1 /\ Max(WithinBounds) = skipped + count
    <3>1. skipped + 1 \in Int /\ skipped + count \in Int
      BY <1>3
    <3>2. QED
      BY <2>3, <3>1, MinMaxOfInterval
  <2>5. kept.ranges = SubSeq(msg.ranges, skipped + 1, skipped + count)
    <3> DEFINE part == SubSeq(msg.ranges, skipped + 1, skipped + count)
    <3>1. skipped + count <= n /\ \A k \in 1 .. count : kept.ranges[k] = msg.ranges[skipped + k]
      BY <1>2 DEF IsPiece
    <3>2. \A k \in skipped + 1 .. skipped + count : msg.ranges[k] \in Int
      BY <1>3, <3>1
    <3>3. /\ part \in Seq(Int) /\ Len(part) = skipped + count - (skipped + 1) + 1
          /\ \A k \in 1 .. skipped + count - (skipped + 1) + 1 :
               part[k] = msg.ranges[skipped + 1 + k - 1]
      <4>1. skipped + 1 \in Int /\ skipped + count \in Int
        BY <1>3
      <4>2. QED
        BY <2>3, <3>2, <4>1, SubSeqProperties
    <3> HIDE DEF part
    <3>4. skipped + count - (skipped + 1) + 1 = count
          /\ \A k \in 1 .. count : skipped + 1 + k - 1 = skipped + k
      BY <1>3
    <3>5. part \in Seq(Int) /\ Len(part) = count
          /\ \A k \in 1 .. count : part[k] = kept.ranges[k]
      BY <3>1, <3>3, <3>4
    <3>6. kept.ranges = part
      BY <1>3, <3>5, SeqEqual
    <3>7. QED
      BY <3>6 DEF part
  <2>6. AngleOf(msg_filtered', count) = AngleOf(msg, skipped + count)
    <3>1. count \in Int
      BY <1>3
    <3>2. QED
      BY <1>8, <3>1
  <2>7. QED
    BY <2>3, <2>4, <2>5, <2>6
<1>11. QED
  BY <1>5, <1>6, <1>9, <1>10 DEF IInv

LEMMA Stutter == IInv /\ UNCHANGED vars => IInv'
<1> SUFFICES ASSUME IInv, UNCHANGED vars PROVE IInv'
  OBVIOUS
<1>1. /\ param' = param /\ bounds' = bounds /\ raw' = raw /\ msg' = msg
      /\ callback' = callback /\ i' = i /\ start_angle' = start_angle
      /\ current_angle' = current_angle /\ kept' = kept /\ msg_filtered' = msg_filtered
  BY DEF vars, scanVars, loopVars
<1>2. TypeOK' /\ MessageInv'
  BY <1>1 DEF IInv, TypeOK, MessageInv
<1>3. LoopInv'
  BY <1>1 DEF IInv, LoopInv, IsPiece, LoopAt
<1>4. FilteredIsPiece'
  BY <1>1 DEF IInv, FilteredIsPiece, Filtered, IsPiece
<1>5. KeepsWithinBounds'
  BY <1>1 DEF IInv, KeepsWithinBounds, Filtered, WithinBounds
<1>6. QED
  BY <1>2, <1>3, <1>4, <1>5 DEF IInv

-----------------------------------------------------------------------------
(***************************************************************************)
(* The invariant of scan_callback() holds in every state: the readings and *)
(* intensities copied so far follow those skipped, and start_angle and     *)
(* current_angle are the angles of the first and of the next of them.      *)
(***************************************************************************)
THEOREM Invariance == Spec => []IInv
<1>1. IInv /\ [Next]_vars => IInv'
  <2> SUFFICES ASSUME IInv, [Next]_vars PROVE IInv'
    OBVIOUS
  <2>1. CASE driverPublishes
    BY <2>1, PublishStep
  <2>2. CASE intensitiesRemoved
    BY <2>2, RemoveStep
  <2>3. CASE scan_callback
    BY <2>3, BeginStep
  <2>4. CASE skipReading
    BY <2>4, SkipStep
  <2>5. CASE keepReading
    BY <2>5, KeepStep
  <2>6. CASE publishFiltered
    BY <2>6, PublishFilteredStep
  <2>7. CASE UNCHANGED vars
    BY <2>7, Stutter
  <2>8. QED
    BY <2>1, <2>2, <2>3, <2>4, <2>5, <2>6, <2>7 DEF Next
<1>2. QED
  BY InitIInv, <1>1, PTL DEF Spec

\* The fields of the message that publishLaserScan() builds, of a scan of any
\* length, give every range and intensity the angle of the beam that measured
\* it, and the later beam the later time.
LEMMA MessageTrue == IInv => MessageShowsBeams
<1> SUFFICES ASSUME IInv, callback # "idle"
             PROVE  /\ Len(msg.ranges) = Len(raw)
                    /\ \A k \in DOMAIN msg.ranges :
                         /\ msg.ranges[k] = Distance(raw[Beam(k)])
                         /\ AngleOf(msg, k) = BeamAngle(Beam(k))
                         /\ \A l \in DOMAIN msg.ranges :
                              Beam(k) < Beam(l) => TimeOf(msg, k) <= TimeOf(msg, l)
                    /\ \A k \in DOMAIN msg.intensities :
                         msg.intensities[k] = Intensity(raw[Beam(k)])
                    /\ msg.angle_max = AngleOf(msg, Len(msg.ranges))
  BY DEF MessageShowsBeams
<1> DEFINE n == Len(raw)
           d == Step(raw, param)
           t == scan_duration \div n
           full == publishLaserScan(raw, param, 0)
<1>1. /\ raw \in Seq(Raw) /\ n \in Nat /\ n >= 2 /\ param \in Params
      /\ msg \in {full, [full EXCEPT !.intensities = <<>>]}
      /\ msg \in Message /\ param.inverted \in BOOLEAN
  <2>1. raw # <<>> /\ raw \in Scans /\ param \in Params /\ msg \in Message
    BY DEF IInv, TypeOK
  <2>2. raw \in Seq(Raw) /\ Len(raw) \in Nat /\ param.inverted \in BOOLEAN
    BY <2>1, InputsAssumption DEF Param
  <2>3. Published(raw) /\ msg \in {full, [full EXCEPT !.intensities = <<>>]}
    BY <2>1 DEF IInv, MessageInv
  <2>4. QED
    BY <2>1, <2>2, <2>3 DEF Published
<1>2. /\ d \in Nat /\ t \in Nat /\ param.dStartAngle \in Int
  BY <1>1, AnglesSpaced, Quotient, ScaleAssumption
<1>3. /\ full \in Message
      /\ Len(full.ranges) = n /\ Len(full.intensities) = n
      /\ \A k \in 1 .. n :
           /\ full.ranges[k] = Distance(raw[Shown(param, n, k)])
           /\ full.intensities[k] = Intensity(raw[Shown(param, n, k)])
      /\ full.angle_increment = IF param.inverted THEN -d ELSE d
      /\ full.angle_min = param.dStartAngle + (Shown(param, n, 1) - 1) * d
      /\ full.angle_max = param.dStartAngle + (Shown(param, n, n) - 1) * d
      /\ full.time_increment = IF param.inverted THEN -t ELSE t
      /\ full.stamp \in Int
  BY <1>1, MessageOf
<1> HIDE DEF full, d, t
<1>4. /\ msg.ranges = full.ranges /\ msg.angle_increment = full.angle_increment
      /\ msg.angle_min = full.angle_min /\ msg.angle_max = full.angle_max
      /\ msg.time_increment = full.time_increment /\ msg.stamp = full.stamp
      /\ msg.intensities \in {full.intensities, <<>>}
  BY <1>1, <1>3, WithoutIntensities
<1>5. \A k \in Int : Beam(k) = Shown(param, n, k) /\ Beam(k) \in Int
  BY <1>1 DEF Beam, Shown
<1>6. \A k \in Int : AngleOf(msg, k) = param.dStartAngle + (Beam(k) - 1) * d
  <2>1. TAKE k \in Int
  <2>2. CASE param.inverted
    <3>1. /\ Beam(k) = n + 1 - k /\ msg.angle_increment = -d
          /\ msg.angle_min = param.dStartAngle + (n - 1) * d
      <4>1. Shown(param, n, 1) - 1 = n - 1
        BY <1>1, <2>2 DEF Shown
      <4>2. QED
        BY <1>3, <1>4, <2>2, <4>1 DEF Beam
    <3>2. msg.angle_min + (k - 1) * (-d) = param.dStartAngle + (n + 1 - k - 1) * d
      <4>1. msg.angle_min \in Int
        BY <1>1 DEF Message
      <4>2. msg.angle_min + (k - 1) * (-d) = msg.angle_min - (k - 1) * d
        BY <1>2, <4>1, Spacing
      <4>3. (param.dStartAngle + (n - 1) * d) - (k - 1) * d
              = param.dStartAngle + (n + 1 - k - 1) * d
        <5>1. PICK a \in Int : a = param.dStartAngle
          BY <1>2
        <5>2. (a + (n - 1) * d) - (k - 1) * d = a + (n + 1 - k - 1) * d
          BY <1>1, <1>2
        <5>3. QED
          BY <5>1, <5>2
      <4>4. QED
        BY <3>1, <4>2, <4>3
    <3>3. QED
      BY <3>1, <3>2 DEF AngleOf
  <2>3. CASE ~param.inverted
    <3>1. /\ Beam(k) = k /\ msg.angle_increment = d
          /\ msg.angle_min = param.dStartAngle
      BY <1>2, <1>3, <1>4, <2>3 DEF Beam, Shown
    <3>2. QED
      BY <3>1 DEF AngleOf
  <2>4. QED
    BY <2>2, <2>3
<1>7. \A k \in Int : BeamAngle(Beam(k)) = param.dStartAngle + (Beam(k) - 1) * d
  BY DEF BeamAngle, Step, d
<1>8. DOMAIN msg.ranges = 1 .. n /\ DOMAIN msg.intensities \subseteq 1 .. n
      /\ Len(msg.ranges) = n
  <2>1. msg.ranges \in Seq(Int) /\ full.intensities \in Seq(Int) /\ Len(msg.ranges) = n
    BY <1>1, <1>3, <1>4 DEF Message
  <2>2. DOMAIN full.intensities = 1 .. n /\ DOMAIN <<>> = {}
    BY <1>3, <2>1
  <2>3. DOMAIN msg.ranges = 1 .. n
    BY <2>1
  <2>4. QED
    BY <1>4, <2>1, <2>2, <2>3
<1>9. ASSUME NEW k \in 1 .. n, NEW l \in 1 .. n, Beam(k) < Beam(l)
      PROVE  TimeOf(msg, k) <= TimeOf(msg, l)
  <2>1. k \in Int /\ l \in Int /\ msg.stamp \in Int
    BY <1>3, <1>4
  <2>2. /\ (k - 1) * t \in Int /\ (l - 1) * t \in Int
        /\ (k - 1) * (-t) = -((k - 1) * t) /\ (l - 1) * (-t) = -((l - 1) * t)
    BY <1>2, <2>1
  <2>3. CASE param.inverted
    <3>1. l <= k /\ msg.time_increment = -t
      BY <1>1, <1>3, <1>4, <1>9, <2>1, <2>3 DEF Beam
    <3>2. (l - 1) * t <= (k - 1) * t
      BY <1>2, <2>1, <3>1, Rising
    <3>3. QED
      BY <2>1, <2>2, <3>1, <3>2 DEF TimeOf
  <2>4. CASE ~param.inverted
    <3>1. k <= l /\ msg.time_increment = t
      BY <1>1, <1>3, <1>4, <1>9, <2>1, <2>4 DEF Beam
    <3>2. (k - 1) * t <= (l - 1) * t
      BY <1>2, <2>1, <3>1, Rising
    <3>3. QED
      BY <2>1, <2>2, <3>1, <3>2 DEF TimeOf
  <2>5. QED
    BY <2>3, <2>4
<1>10. \A k \in 1 .. n : msg.ranges[k] = Distance(raw[Beam(k)])
  <2>1. TAKE k \in 1 .. n
  <2>2. Beam(k) = Shown(param, n, k)
    BY <1>5
  <2>3. QED
    BY <1>3, <1>4, <2>2
<1>11. \A k \in DOMAIN msg.intensities : msg.intensities[k] = Intensity(raw[Beam(k)])
  <2>1. TAKE k \in DOMAIN msg.intensities
  <2>2. k \in 1 .. n /\ k \in Int
    BY <1>8
  <2>3. msg.intensities = full.intensities
    BY <1>4, <2>1
  <2>4. QED
    BY <1>3, <1>5, <2>2, <2>3
<1>12. msg.angle_max = AngleOf(msg, n)
  <2>1. n \in Int
    BY <1>1
  <2>2. Beam(n) = Shown(param, n, n)
        /\ AngleOf(msg, n) = param.dStartAngle + (Beam(n) - 1) * d
    BY <1>5, <1>6, <2>1
  <2>3. QED
    BY <1>3, <1>4, <2>2
<1>13. \A k \in 1 .. n : AngleOf(msg, k) = BeamAngle(Beam(k))
  BY <1>6, <1>7
<1>14. QED
  BY <1>8, <1>9, <1>10, <1>11, <1>12, <1>13

-----------------------------------------------------------------------------
\* Type correctness, and what a message carries beside its readings.
THEOREM TypeCorrect == Spec => []TypeOK
<1>1. IInv => TypeOK
  BY DEF IInv
<1>2. QED
  BY Invariance, <1>1, PTL

\* publishLaserScan() describes every scan by the angles and times of its
\* beams, for any number of points and any field, inverted or not.
THEOREM BeamsShown == Spec => []MessageShowsBeams
  BY Invariance, MessageTrue, PTL

\* scan_callback() cuts one piece out of every scan and describes it by the
\* angles it had.
THEOREM PieceCut == Spec => []FilteredIsPiece
<1>1. IInv => FilteredIsPiece
  BY DEF IInv
<1>2. QED
  BY Invariance, <1>1, PTL

\* scan_callback() keeps, of a scan that turns towards greater angles, the
\* readings within any two bounds.
THEOREM WithinBoundsKept == Spec => []KeepsWithinBounds
<1>1. IInv => KeepsWithinBounds
  BY DEF IInv
<1>2. QED
  BY Invariance, <1>1, PTL
=============================================================================
