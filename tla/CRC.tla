-------------------------------- MODULE CRC --------------------------------
(***************************************************************************)
(* createCRC(): the checksum of a telegram, computed byte by byte with a   *)
(* table of 256 words, next to the division by a polynomial that the table *)
(* stands for, and next to the checksum the receiver computes of a copy    *)
(* in which a burst of errors on the line changed up to two bytes.         *)
(*                                                                         *)
(* A word (uint16_t) or a byte (uint8_t) is the set of its bits that are   *)
(* 1, so that << and >> move the elements and ^ is (+).                    *)
(***************************************************************************)
EXTENDS Integers, Sequences

Word == SUBSET (0 .. 15)
Byte == SUBSET (0 .. 7)

CONSTANTS
  Bytes,        \* bytes of the messages sent, but for the first
  MaxSize,      \* bound: bytes of a message
  Patterns      \* the bits that a burst flips, in two bytes

ASSUME InputsAssumption ==
  /\ Bytes \subseteq Byte
  /\ MaxSize \in Nat
  /\ Patterns \subseteq Byte \X Byte

VARIABLES
  CrcValue,     \* local of createCRC() in the scanner
  reference,    \* remainder of the message so far, computed bit by bit
  received,     \* CrcValue of the copy that the driver receives
  burst,        \* the first byte that is damaged, and how
  size          \* how many bytes were added

vars == <<CrcValue, reference, received, burst, size>>

crc_LookUpTable == <<
   \h0000, \h1021, \h2042, \h3063, \h4084, \h50A5, \h60C6, \h70E7,
   \h8108, \h9129, \hA14A, \hB16B, \hC18C, \hD1AD, \hE1CE, \hF1EF,
   \h1231, \h0210, \h3273, \h2252, \h52B5, \h4294, \h72F7, \h62D6,
   \h9339, \h8318, \hB37B, \hA35A, \hD3BD, \hC39C, \hF3FF, \hE3DE,
   \h2462, \h3443, \h0420, \h1401, \h64E6, \h74C7, \h44A4, \h5485,
   \hA56A, \hB54B, \h8528, \h9509, \hE5EE, \hF5CF, \hC5AC, \hD58D,
   \h3653, \h2672, \h1611, \h0630, \h76D7, \h66F6, \h5695, \h46B4,
   \hB75B, \hA77A, \h9719, \h8738, \hF7DF, \hE7FE, \hD79D, \hC7BC,
   \h48C4, \h58E5, \h6886, \h78A7, \h0840, \h1861, \h2802, \h3823,
   \hC9CC, \hD9ED, \hE98E, \hF9AF, \h8948, \h9969, \hA90A, \hB92B,
   \h5AF5, \h4AD4, \h7AB7, \h6A96, \h1A71, \h0A50, \h3A33, \h2A12,
   \hDBFD, \hCBDC, \hFBBF, \hEB9E, \h9B79, \h8B58, \hBB3B, \hAB1A,
   \h6CA6, \h7C87, \h4CE4, \h5CC5, \h2C22, \h3C03, \h0C60, \h1C41,
   \hEDAE, \hFD8F, \hCDEC, \hDDCD, \hAD2A, \hBD0B, \h8D68, \h9D49,
   \h7E97, \h6EB6, \h5ED5, \h4EF4, \h3E13, \h2E32, \h1E51, \h0E70,
   \hFF9F, \hEFBE, \hDFDD, \hCFFC, \hBF1B, \hAF3A, \h9F59, \h8F78,
   \h9188, \h81A9, \hB1CA, \hA1EB, \hD10C, \hC12D, \hF14E, \hE16F,
   \h1080, \h00A1, \h30C2, \h20E3, \h5004, \h4025, \h7046, \h6067,
   \h83B9, \h9398, \hA3FB, \hB3DA, \hC33D, \hD31C, \hE37F, \hF35E,
   \h02B1, \h1290, \h22F3, \h32D2, \h4235, \h5214, \h6277, \h7256,
   \hB5EA, \hA5CB, \h95A8, \h8589, \hF56E, \hE54F, \hD52C, \hC50D,
   \h34E2, \h24C3, \h14A0, \h0481, \h7466, \h6447, \h5424, \h4405,
   \hA7DB, \hB7FA, \h8799, \h97B8, \hE75F, \hF77E, \hC71D, \hD73C,
   \h26D3, \h36F2, \h0691, \h16B0, \h6657, \h7676, \h4615, \h5634,
   \hD94C, \hC96D, \hF90E, \hE92F, \h99C8, \h89E9, \hB98A, \hA9AB,
   \h5844, \h4865, \h7806, \h6827, \h18C0, \h08E1, \h3882, \h28A3,
   \hCB7D, \hDB5C, \hEB3F, \hFB1E, \h8BF9, \h9BD8, \hABBB, \hBB9A,
   \h4A75, \h5A54, \h6A37, \h7A16, \h0AF1, \h1AD0, \h2AB3, \h3A92,
   \hFD2E, \hED0F, \hDD6C, \hCD4D, \hBDAA, \hAD8B, \h9DE8, \h8DC9,
   \h7C26, \h6C07, \h5C64, \h4C45, \h3CA2, \h2C83, \h1CE0, \h0CC1,
   \hEF1F, \hFF3E, \hCF5D, \hDF7C, \hAF9B, \hBFBA, \h8FD9, \h9FF8,
   \h6E17, \h7E36, \h4E55, \h5E74, \h2E93, \h3EB2, \h0ED1, \h1EF0 >>

a (+) b == (a \ b) \cup (b \ a)
Raised(w) == {i \in 8 .. 15 : i - 8 \in w}   \* w << 8, cut to 16 bits
Upper(w) == {i \in 0 .. 7 : i + 8 \in w}     \* w >> 8

\* The bits of a number, and the words of the table by the bits of their index.
Bits(n) == {i \in 0 .. 15 : (n \div 2 ^ i) % 2 = 1}
Looked ==
  [byte \in Byte |->
     Bits(crc_LookUpTable[1 + CHOOSE n \in 0 .. 255 : Bits(n) = byte])]

\* Mutants of crcStep: the sum is not cut to 16 bits; the wrong half of the
\* sum selects the word of the table; the sum is not shifted.
crcStepWide(crc, byte) == {i + 8 : i \in crc} (+) Looked[Upper(crc) (+) byte]
crcStepLow(crc, byte) == Raised(crc) (+) Looked[(crc \cap 0 .. 7) (+) byte]
crcStepUnshifted(crc, byte) == crc (+) Looked[Upper(crc) (+) byte]

\* One turn of the loop of createCRC().
crcStep(crc, byte) == Raised(crc) (+) Looked[Upper(crc) (+) byte]

\* Division by x^16 + x^12 + x^5 + 1, one bit and one byte at a time.
Shifted(r) ==
  {i \in 1 .. 15 : i - 1 \in r} (+) (IF 15 \in r THEN {0, 5, 12} ELSE {})

Twice(r) == Shifted(Shifted(r))
ShiftedByte(r) == Twice(Twice(Twice(Twice(r))))
Divided(r, byte) == ShiftedByte(r (+) Raised(byte))

\* Every entry of the table is the remainder of its index.
ASSUME TableAssumption == \A byte \in Byte : Looked[byte] = Divided({}, byte)

\* The bits of byte number n that the burst flips.
Errors(n) ==
  IF n \in {burst.at, burst.at + 1} THEN burst.pattern[n - burst.at + 1] ELSE {}

Init ==
  /\ CrcValue = 0 .. 15 /\ reference = 0 .. 15 /\ received = 0 .. 15
  /\ burst \in [at : 1 .. MaxSize, pattern : Patterns]
  /\ size = 0

\* Messages that arrive undamaged begin with any byte.
NextBytes == IF size = 0 /\ burst.pattern = <<{}, {}>> THEN Byte ELSE Bytes

createCRC ==
  /\ size < MaxSize
  /\ size' = size + 1
  /\ \E byte \in NextBytes :
       /\ CrcValue' = crcStep(CrcValue, byte)
       /\ reference' = Divided(reference, byte)
       /\ received' = crcStep(received, byte (+) Errors(size'))
  /\ UNCHANGED burst

Next == createCRC

Spec == Init /\ [][Next]_vars

-----------------------------------------------------------------------------
\* The sums are words of 16 bits.
TypeOK ==
  /\ {CrcValue, received, reference} \subseteq Word
  /\ burst \in [at : 1 .. MaxSize, pattern : Patterns]
  /\ size \in 0 .. MaxSize

(***************************************************************************)
(* createCRC() is CRC-CCITT: after every byte its sum is the remainder of  *)
(* the division by the polynomial.                                         *)
(***************************************************************************)
SumIsRemainder == CrcValue = reference

(***************************************************************************)
(* A telegram in which one of the summed bytes, or two of them that follow *)
(* each other, were damaged has another sum than the one that was sent,    *)
(* however many bytes follow: of such damage what TelegramParser takes for *)
(* granted.  Damage of the size field or of the CRC is not in it.          *)
(***************************************************************************)
BurstChangesSum ==
  size >= burst.at /\ burst.pattern[1] # {} => received # CrcValue

(***************************************************************************)
(* The inductive invariant behind them: how the two sums differ before the *)
(* burst, after its first byte, and from its second byte on.               *)
(***************************************************************************)
SumsDiffer ==
  /\ size < burst.at => received = CrcValue
  /\ size = burst.at => received = CrcValue (+) Divided({}, burst.pattern[1])
  /\ size > burst.at /\ burst.pattern[1] # {} => received # CrcValue

IInv == TypeOK /\ SumIsRemainder /\ SumsDiffer
=============================================================================
