----------------------------- MODULE CRC_proofs -----------------------------
(***************************************************************************)
(* Proofs that createCRC() is CRC-CCITT and that damage of up to two bytes *)
(* in a row changes its sum: for messages of any length and any content.   *)
(* The argument is that the division is linear and loses nothing.          *)
(***************************************************************************)
EXTENDS CRC, TLAPS

-----------------------------------------------------------------------------
(***************************************************************************)
(* Exclusive or, and the shifts.                                           *)
(***************************************************************************)
LEMMA XorBits == \A a, b, i : i \in a (+) b <=> (i \in a /\ i \notin b) \/ (i \notin a /\ i \in b)
  BY DEF (+)

LEMMA XorLaws ==
  /\ \A a, b : a (+) b = b (+) a
  /\ \A a, b, c : (a (+) b) (+) c = a (+) (b (+) c)
  /\ \A a : a (+) {} = a /\ {} (+) a = a /\ a (+) a = {}
  /\ \A a, b : a (+) b = {} => a = b
  /\ \A a, b, c : a (+) b = a (+) c => b = c
  BY DEF (+)

LEMMA XorTypes ==
  /\ \A a, b \in Word : a (+) b \in Word
  /\ \A a, b \in Byte : a (+) b \in Byte
  BY DEF (+), Word, Byte

LEMMA ShiftTypes ==
  /\ Byte \subseteq Word /\ {} \in Byte /\ 0 .. 15 \in Word
  /\ \A w : Raised(w) \in Word /\ Upper(w) \in Byte
  BY DEF Word, Byte, Raised, Upper

LEMMA RaisedXor == \A a, b : Raised(a (+) b) = Raised(a) (+) Raised(b)
  BY XorBits DEF Raised

\* A byte that was raised differs from one that was not.
LEMMA RaisedByte ==
  ASSUME NEW a \in Byte, NEW b \in Byte, Raised(a) = b
  PROVE  a = {}
<1>1. ASSUME NEW i \in a PROVE FALSE
  <2>1. i \in 0 .. 7 /\ i + 8 \in 8 .. 15 /\ (i + 8) - 8 = i
    BY DEF Byte
  <2>2. i + 8 \in b
    BY <1>1, <2>1 DEF Raised
  <2>3. i + 8 \in 0 .. 7
    BY <2>2 DEF Byte
  <2>4. QED
    BY <2>1, <2>3
<1>2. QED
  BY <1>1

\* A word consists of its two bytes.
LEMMA WordOfBytes ==
  ASSUME NEW w \in Word
  PROVE  w = (w \cap 0 .. 7) (+) Raised(Upper(w))
<1>1. ASSUME NEW i \in 0 .. 15
      PROVE  i \in w <=> i \in (w \cap 0 .. 7) (+) Raised(Upper(w))
  <2>1. CASE i \in 0 .. 7
    <3>1. i \notin Raised(Upper(w))
      BY <2>1 DEF Raised
    <3>2. QED
      BY <2>1, <3>1, XorBits
  <2>2. CASE i \in 8 .. 15
    <3>1. i - 8 \in 0 .. 7 /\ (i - 8) + 8 = i /\ i \notin 0 .. 7
      BY <2>2
    <3>2. i \in Raised(Upper(w)) <=> i \in w
      BY <2>2, <3>1 DEF Raised, Upper
    <3>3. QED
      BY <3>1, <3>2, XorBits
  <2>3. QED
    BY <2>1, <2>2
<1>2. (w \cap 0 .. 7) (+) Raised(Upper(w)) \in Word
  BY XorTypes, ShiftTypes DEF Word
<1>3. QED
  BY <1>1, <1>2 DEF Word

-----------------------------------------------------------------------------
(***************************************************************************)
(* The division by the polynomial.                                         *)
(***************************************************************************)
LEMMA ShiftedBits ==
  ASSUME NEW r \in Word
  PROVE  /\ Shifted(r) \in Word
         /\ \A i \in 0 .. 15 :
              LET moved == i \in 1 .. 15 /\ i - 1 \in r
                  reduced == 15 \in r /\ i \in {0, 5, 12}
              IN  i \in Shifted(r) <=> (moved /\ ~reduced) \/ (~moved /\ reduced)
  BY XorBits DEF Shifted, Word

\* One shift is linear ...
LEMMA ShiftedXor ==
  ASSUME NEW a \in Word, NEW b \in Word
  PROVE  Shifted(a (+) b) = Shifted(a) (+) Shifted(b)
<1>1. a (+) b \in Word
  BY XorTypes
<1>2. /\ Shifted(a (+) b) \in Word
      /\ Shifted(a) (+) Shifted(b) \in Word
  BY <1>1, ShiftedBits, XorTypes
<1>3. ASSUME NEW i \in 0 .. 15
      PROVE  i \in Shifted(a (+) b) <=> i \in Shifted(a) (+) Shifted(b)
  <2>1. /\ 15 \in a (+) b <=> (15 \in a /\ 15 \notin b) \/ (15 \notin a /\ 15 \in b)
        /\ i - 1 \in a (+) b <=>
             (i - 1 \in a /\ i - 1 \notin b) \/ (i - 1 \notin a /\ i - 1 \in b)
        /\ i \in Shifted(a) (+) Shifted(b) <=>
             \/ i \in Shifted(a) /\ i \notin Shifted(b)
             \/ i \notin Shifted(a) /\ i \in Shifted(b)
    BY XorBits
  <2>2. QED
    BY <1>1, <2>1, ShiftedBits
<1>4. QED
  BY <1>2, <1>3 DEF Word

\* ... and loses nothing: the lowest bit tells whether the word was reduced.
LEMMA ShiftedInjective ==
  ASSUME NEW a \in Word, NEW b \in Word, Shifted(a) = Shifted(b)
  PROVE  a = b
<1>1. 15 \in a <=> 15 \in b
  BY ShiftedBits
<1>2. ASSUME NEW i \in 0 .. 14 PROVE i \in a <=> i \in b
  <2>1. i + 1 \in 0 .. 15 /\ i + 1 \in 1 .. 15 /\ (i + 1) - 1 = i
    OBVIOUS
  <2>2. i + 1 \in Shifted(a) <=> i + 1 \in Shifted(b)
    OBVIOUS
  <2>3. QED
    BY <1>1, <2>1, <2>2, ShiftedBits
<1>3. \A i \in 0 .. 15 : i \in a <=> i \in b
  <2>1. \A i \in 0 .. 15 : i = 15 \/ i \in 0 .. 14
    OBVIOUS
  <2>2. QED
    BY <1>1, <1>2, <2>1
<1>4. QED
  BY <1>3 DEF Word

LEMMA TwiceLemma ==
  /\ \A a \in Word : Twice(a) \in Word
  /\ \A a, b \in Word : Twice(a (+) b) = Twice(a) (+) Twice(b)
  /\ \A a, b \in Word : Twice(a) = Twice(b) => a = b
<1>1. \A a \in Word : Shifted(a) \in Word
  BY ShiftedBits
<1>2. \A a, b \in Word : Shifted(a (+) b) = Shifted(a) (+) Shifted(b)
  BY ShiftedXor
<1>3. \A a, b \in Word : Shifted(a) = Shifted(b) => a = b
  BY ShiftedInjective
<1>4. QED
  BY <1>1, <1>2, <1>3 DEF Twice

LEMMA ShiftedByteLemma ==
  /\ \A a \in Word : ShiftedByte(a) \in Word
  /\ \A a, b \in Word : ShiftedByte(a (+) b) = ShiftedByte(a) (+) ShiftedByte(b)
  /\ \A a, b \in Word : ShiftedByte(a) = ShiftedByte(b) => a = b
  BY TwiceLemma DEF ShiftedByte

\* The lower byte of a word only moves.
Moved(r, n) == {i \in 0 .. 15 : i - n \in r}

LEMMA ShiftedMoves ==
  ASSUME NEW r \in Byte, NEW n \in 0 .. 7
  PROVE  Moved(r, n) \in Word /\ Shifted(Moved(r, n)) = Moved(r, n + 1)
<1>1. \A i \in r : i \in 0 .. 7
  BY DEF Byte
<1>2. Moved(r, n) \in Word /\ Moved(r, n + 1) \in Word
  BY DEF Moved, Word
<1>3. 15 \notin Moved(r, n)
  <2>1. 15 - n \notin 0 .. 7
    OBVIOUS
  <2>2. QED
    BY <1>1, <2>1 DEF Moved
<1>4. ASSUME NEW i \in 0 .. 15
      PROVE  i \in Shifted(Moved(r, n)) <=> i \in Moved(r, n + 1)
  <2>1. i \in Shifted(Moved(r, n)) <=> i \in 1 .. 15 /\ i - 1 \in Moved(r, n)
    BY <1>2, <1>3, ShiftedBits
  <2>2. CASE i = 0
    <3>1. 0 - (n + 1) \notin 0 .. 7
      OBVIOUS
    <3>2. QED
      BY <1>1, <2>1, <2>2, <3>1 DEF Moved
  <2>3. CASE i \in 1 .. 15
    <3>1. i - 1 \in 0 .. 15 /\ i - 1 - n = i - (n + 1)
      BY <2>3
    <3>2. QED
      BY <2>1, <2>3, <3>1 DEF Moved
  <2>4. QED
    BY <2>2, <2>3
<1>5. Shifted(Moved(r, n)) \in Word
  BY <1>2, ShiftedBits
<1>6. QED
  BY <1>2, <1>4, <1>5 DEF Word

LEMMA ShiftedByteMoves ==
  ASSUME NEW r \in Byte
  PROVE  ShiftedByte(r) = Raised(r)
<1>1. r = Moved(r, 0)
  <2>1. \A i \in r : i \in 0 .. 15 /\ i - 0 = i
    BY DEF Byte
  <2>2. \A i \in 0 .. 15 : i - 0 = i
    OBVIOUS
  <2>3. QED
    BY <2>1, <2>2 DEF Moved
<1>2. \A n \in 0 .. 7 : Shifted(Moved(r, n)) = Moved(r, n + 1)
  BY ShiftedMoves
<1>3. /\ Twice(Moved(r, 0)) = Moved(r, 2)
      /\ Twice(Moved(r, 2)) = Moved(r, 4)
      /\ Twice(Moved(r, 4)) = Moved(r, 6)
      /\ Twice(Moved(r, 6)) = Moved(r, 8)
  <2>1. /\ Shifted(Moved(r, 0)) = Moved(r, 1) /\ Shifted(Moved(r, 1)) = Moved(r, 2)
        /\ Shifted(Moved(r, 2)) = Moved(r, 3) /\ Shifted(Moved(r, 3)) = Moved(r, 4)
        /\ Shifted(Moved(r, 4)) = Moved(r, 5) /\ Shifted(Moved(r, 5)) = Moved(r, 6)
        /\ Shifted(Moved(r, 6)) = Moved(r, 7) /\ Shifted(Moved(r, 7)) = Moved(r, 8)
    BY <1>2
  <2>2. QED
    BY <2>1 DEF Twice
<1>4. Moved(r, 8) = Raised(r)
  <2>1. \A i \in 0 .. 15 : i - 8 \in 0 .. 7 => i \in 8 .. 15
    OBVIOUS
  <2>2. QED
    BY <2>1 DEF Moved, Raised, Byte
<1>5. QED
  BY <1>1, <1>3, <1>4 DEF ShiftedByte

-----------------------------------------------------------------------------
(***************************************************************************)
(* createCRC() divides, byte by byte.                                      *)
(***************************************************************************)
LEMMA StepDivides ==
  ASSUME NEW crc \in Word, NEW byte \in Byte
  PROVE  /\ crcStep(crc, byte) \in Word
         /\ crcStep(crc, byte) = Divided(crc, byte)
<1> DEFINE low == crc \cap 0 .. 7
           index == Upper(crc) (+) byte
<1>1. /\ low \in Byte /\ low \in Word /\ index \in Byte
      /\ Raised(index) \in Word /\ Raised(byte) \in Word
  BY ShiftTypes, XorTypes DEF Byte, Word
<1>2. crc (+) Raised(byte) = low (+) Raised(index)
  <2>1. crc = low (+) Raised(Upper(crc))
    BY WordOfBytes
  <2>2. Raised(index) = Raised(Upper(crc)) (+) Raised(byte)
    BY RaisedXor
  <2>3. (low (+) Raised(Upper(crc))) (+) Raised(byte) =
          low (+) (Raised(Upper(crc)) (+) Raised(byte))
    BY XorLaws
  <2>4. QED
    BY <2>1, <2>2, <2>3
<1>3. Divided(crc, byte) = ShiftedByte(low) (+) ShiftedByte(Raised(index))
  BY <1>1, <1>2, ShiftedByteLemma DEF Divided
<1>4. ShiftedByte(low) = Raised(crc)
  <2>1. Raised(low) = Raised(crc)
    BY DEF Raised
  <2>2. QED
    BY <1>1, <2>1, ShiftedByteMoves
<1>5. ShiftedByte(Raised(index)) = Looked[index]
  <2>1. Looked[index] = ShiftedByte({} (+) Raised(index))
    BY <1>1, TableAssumption DEF Divided
  <2>2. QED
    BY <2>1, XorLaws
<1>6. crcStep(crc, byte) = Divided(crc, byte)
  BY <1>3, <1>4, <1>5 DEF crcStep
<1>7. Divided(crc, byte) \in Word
  BY <1>1, ShiftedByteLemma, XorTypes DEF Divided
<1>8. QED
  BY <1>6, <1>7

\* How two sums differ that differed, after bytes that differ.
LEMMA DifferenceDivided ==
  ASSUME NEW crc \in Word, NEW d \in Word, NEW byte \in Byte, NEW e \in Byte
  PROVE  crcStep(crc (+) d, byte (+) e) = crcStep(crc, byte) (+) Divided(d, e)
<1>1. crc (+) d \in Word /\ byte (+) e \in Byte
      /\ crc (+) Raised(byte) \in Word /\ d (+) Raised(e) \in Word
  BY XorTypes, ShiftTypes
<1>2. (crc (+) d) (+) Raised(byte (+) e) =
        (crc (+) Raised(byte)) (+) (d (+) Raised(e))
  BY RaisedXor, XorLaws
<1>3. QED
  BY <1>1, <1>2, StepDivides, ShiftedByteLemma DEF Divided

\* Sums that differ do so after the same byte, too.
LEMMA StepInjective ==
  ASSUME NEW a \in Word, NEW b \in Word, NEW byte \in Byte,
         crcStep(a, byte) = crcStep(b, byte)
  PROVE  a = b
<1>1. a (+) Raised(byte) \in Word /\ b (+) Raised(byte) \in Word
  BY XorTypes, ShiftTypes
<1>2. a (+) Raised(byte) = b (+) Raised(byte)
  BY <1>1, StepDivides, ShiftedByteLemma DEF Divided
<1>3. QED
  BY <1>2, XorLaws

\* The second byte of a burst cannot make up for the first.
LEMMA BurstStays ==
  ASSUME NEW e \in Byte, NEW f \in Byte, e # {}
  PROVE  Divided(Divided({}, e), f) # {}
<1>1. /\ Raised(e) \in Word /\ Raised(f) \in Word /\ f \in Word /\ {} \in Word
      /\ Divided({}, e) = ShiftedByte(Raised(e))
      /\ Divided({}, e) \in Word
      /\ Divided({}, e) (+) Raised(f) \in Word
  BY ShiftTypes, XorLaws, XorTypes, ShiftedByteLemma DEF Divided
<1>2. SUFFICES ASSUME Divided(Divided({}, e), f) = {} PROVE FALSE
  OBVIOUS
<1>3. ShiftedByte({}) = {}
  BY ShiftTypes, ShiftedByteMoves DEF Raised
<1>4. Divided({}, e) (+) Raised(f) = {}
  BY <1>1, <1>2, <1>3, ShiftedByteLemma DEF Divided
<1>5. ShiftedByte(Raised(e)) = ShiftedByte(f)
  BY <1>1, <1>4, XorLaws, ShiftedByteMoves
<1>6. Raised(e) = f
  BY <1>1, <1>5, ShiftedByteLemma
<1>7. QED
  BY <1>6, RaisedByte

-----------------------------------------------------------------------------
(***************************************************************************)
(* The invariant.                                                          *)
(***************************************************************************)
LEMMA InitIInv == Init => IInv
  BY ShiftTypes, InputsAssumption DEF Init, IInv, TypeOK, SumIsRemainder, SumsDiffer

LEMMA StepIInv == IInv /\ [Next]_vars => IInv'
<1> SUFFICES ASSUME IInv, [Next]_vars PROVE IInv'
  OBVIOUS
<1>1. CASE UNCHANGED vars
  BY <1>1 DEF vars, IInv, TypeOK, SumIsRemainder, SumsDiffer
<1>2. CASE createCRC
  <2>1. PICK byte \in NextBytes :
          /\ CrcValue' = crcStep(CrcValue, byte)
          /\ reference' = Divided(reference, byte)
          /\ received' = crcStep(received, byte (+) Errors(size'))
    BY <1>2 DEF createCRC
  <2>2. size < MaxSize /\ size' = size + 1 /\ burst' = burst
    BY <1>2 DEF createCRC
  <2>3. /\ CrcValue \in Word /\ received \in Word /\ CrcValue = reference
        /\ size \in 0 .. MaxSize /\ burst.at \in 1 .. MaxSize /\ MaxSize \in Nat
        /\ burst \in [at : 1 .. MaxSize, pattern : Patterns]
        /\ burst.pattern[1] \in Byte /\ burst.pattern[2] \in Byte
    BY InputsAssumption DEF IInv, TypeOK, SumIsRemainder
  <2>4. byte \in Byte
    BY InputsAssumption DEF NextBytes
  <2>5. Errors(size') =
          IF size + 1 = burst.at THEN burst.pattern[1]
          ELSE IF size = burst.at THEN burst.pattern[2] ELSE {}
    BY <2>2, <2>3 DEF Errors
  <2>6. Errors(size') \in Byte
    BY <2>3, <2>5, ShiftTypes
  <2>7. TypeOK'
    <3>1. CrcValue' \in Word /\ received' \in Word /\ reference' \in Word
      BY <2>1, <2>3, <2>4, <2>6, StepDivides, XorTypes
    <3>2. size' \in 0 .. MaxSize
      BY <2>2, <2>3
    <3>3. QED
      BY <2>2, <2>3, <3>1, <3>2 DEF TypeOK
  <2>8. SumIsRemainder'
    BY <2>1, <2>3, <2>4, StepDivides DEF SumIsRemainder
  <2>9. SumsDiffer'
    <3>1. CASE size + 1 < burst.at
      <4>1. received = CrcValue /\ Errors(size') = {}
        BY <2>2, <2>3, <2>5, <3>1 DEF IInv, SumsDiffer
      <4>2. received' = CrcValue'
        BY <2>1, <4>1, XorLaws
      <4>3. QED
        BY <2>2, <2>3, <3>1, <4>2 DEF SumsDiffer
    <3>2. CASE size + 1 = burst.at
      <4>1. received = CrcValue (+) {} /\ Errors(size') = burst.pattern[1]
        BY <2>2, <2>3, <2>5, <3>2, XorLaws DEF IInv, SumsDiffer
      <4>2. received' = CrcValue' (+) Divided({}, burst.pattern[1])
        BY <2>1, <2>3, <2>4, <4>1, DifferenceDivided, ShiftTypes
      <4>3. QED
        BY <2>2, <2>3, <3>2, <4>2 DEF SumsDiffer
    <3>3. CASE size = burst.at
      <4> DEFINE d == Divided({}, burst.pattern[1])
      <4>1. /\ received = CrcValue (+) d /\ Errors(size') = burst.pattern[2]
            /\ d \in Word
        BY <2>2, <2>3, <2>5, <3>3, StepDivides, ShiftTypes DEF IInv, SumsDiffer
      <4>2. received' = CrcValue' (+) Divided(d, burst.pattern[2])
        BY <2>1, <2>3, <2>4, <4>1, DifferenceDivided
      <4>3. ASSUME burst.pattern[1] # {} PROVE received' # CrcValue'
        <5>1. Divided(d, burst.pattern[2]) # {}
          BY <2>3, <4>3, BurstStays
        <5>2. QED
          BY <4>2, <5>1, XorLaws
      <4>4. QED
        BY <2>2, <2>3, <3>3, <4>3 DEF SumsDiffer
    <3>4. CASE size > burst.at
      <4>1. Errors(size') = {} /\ size + 1 > burst.at /\ size + 1 # burst.at
        BY <2>2, <2>3, <2>5, <3>4
      <4>2. ASSUME burst.pattern[1] # {} PROVE received' # CrcValue'
        <5>1. received # CrcValue
          BY <3>4, <4>2 DEF IInv, SumsDiffer
        <5>2. received' = crcStep(received, byte)
          BY <2>1, <4>1, XorLaws
        <5>3. QED
          BY <2>1, <2>3, <2>4, <5>1, <5>2, StepInjective
      <4>3. QED
        BY <2>2, <2>3, <4>1, <4>2 DEF SumsDiffer
    <3>5. QED
      BY <2>3, <3>1, <3>2, <3>3, <3>4
  <2>10. QED
    BY <2>7, <2>8, <2>9 DEF IInv
<1>3. QED
  BY <1>1, <1>2 DEF Next

-----------------------------------------------------------------------------
(***************************************************************************)
(* The theorems, of the table that TableAssumption describes.              *)
(***************************************************************************)

(***************************************************************************)
(* After every byte of every message the sum is the remainder of the       *)
(* division, and the damaged copy's differs from it as SumsDiffer says.    *)
(***************************************************************************)
THEOREM Invariance == Spec => []IInv
  BY InitIInv, StepIInv, PTL DEF Spec

(***************************************************************************)
(* createCRC() computes words of 16 bits.                                  *)
(***************************************************************************)
THEOREM TypeCorrect == Spec => []TypeOK
<1>1. IInv => TypeOK
  BY DEF IInv
<1>2. QED
  BY <1>1, Invariance, PTL

(***************************************************************************)
(* createCRC() is the division by the polynomial of CRC-CCITT, of messages *)
(* of any length and any content.                                          *)
(***************************************************************************)
THEOREM RemainderComputed == Spec => []SumIsRemainder
<1>1. IInv => SumIsRemainder
  BY DEF IInv
<1>2. QED
  BY <1>1, Invariance, PTL

(***************************************************************************)
(* Damage of one byte or of two that follow each other changes the sum,    *)
(* wherever it is and whatever precedes and follows it.                    *)
(***************************************************************************)
THEOREM BurstDetected == Spec => []BurstChangesSum
<1>1. IInv => BurstChangesSum
  <2> SUFFICES ASSUME IInv, size >= burst.at, burst.pattern[1] # {}
               PROVE  received # CrcValue
    BY DEF BurstChangesSum
  <2>1. /\ burst.pattern[1] \in Byte /\ burst.at \in Int /\ size \in Int
        /\ CrcValue \in Word
    BY InputsAssumption DEF IInv, TypeOK
  <2>2. CASE size > burst.at
    BY <2>2 DEF IInv, SumsDiffer
  <2>3. CASE size = burst.at
    <3>1. received = CrcValue (+) Divided({}, burst.pattern[1])
      BY <2>3 DEF IInv, SumsDiffer
    <3>2. Divided({}, burst.pattern[1]) # {}
      <4>1. ShiftedByte({}) = {}
        BY ShiftTypes, ShiftedByteMoves DEF Raised
      <4>2. Raised(burst.pattern[1]) # {}
        BY <2>1, ShiftTypes, RaisedByte
      <4>3. Divided({}, burst.pattern[1]) = ShiftedByte(Raised(burst.pattern[1]))
        BY XorLaws DEF Divided
      <4>4. QED
        BY <4>1, <4>2, <4>3, ShiftTypes, ShiftedByteLemma
    <3>3. QED
      BY <3>1, <3>2, XorLaws
  <2>4. QED
    BY <2>1, <2>2, <2>3
<1>2. QED
  BY <1>1, Invariance, PTL
=============================================================================
