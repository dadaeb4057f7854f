--------------------------- MODULE TelegramParser ---------------------------
(***************************************************************************)
(* Class TelegramParser: what parseHeader() makes of the bytes at some     *)
(* place of the receive buffer, and what its members hold afterwards.      *)
(*                                                                         *)
(* The bytes are abstracted to what parseHeader() reads of them: whether   *)
(* they have the constant bytes of a header, the device address, protocol  *)
(* version, size and type fields, the field a distance telegram is of, and *)
(* the places p at which the two bytes are the CRC of the bytes from       *)
(* JUNK_SIZE up to p.                                                      *)
(***************************************************************************)
EXTENDS Integers

CONSTANTS
  Payloads,      \* how many points the distance telegrams have
  Addresses,     \* device addresses
  DEVICE_ADDR,   \* the scan_id the driver is configured with
  Fields,        \* the fields they are of
  Sizes,         \* what else the bytes of a size field may say
  Received,      \* how many bytes were received from the place parsed on
  SizeWidth      \* size_t counts modulo SizeWidth

ASSUME ParserAssumption ==
  /\ Payloads \subseteq Nat
  /\ Fields \subseteq 1 .. 5
  /\ Sizes \subseteq Nat
  /\ Received \subseteq Nat
  /\ SizeWidth \in Nat /\ \A n \in Payloads : 2 * n < SizeWidth

VARIABLES
  buffer,           \* what there is at the place that is parsed
  max_size,         \* how many bytes of it were received
  result,           \* what parseHeader() made of it: "none" yet, or a Boolean
  type,             \* tc3_
  td_field,         \* td_, as getField() shows it
  user_data_size_   \* user_data_size_

members == <<type, td_field, user_data_size_>>
vars == <<buffer, max_size, result, members>>

\* The sizes of the structures of the telegram, in bytes.
COMMON1 == 10
COMMON2 == 10
COMMON3 == 2
DISTANCE == 2
TAIL == 2
HEADER == COMMON1 + COMMON2

Types == {"IO", "DISTANCE", "REFLEXION", "unknown"}

-----------------------------------------------------------------------------
(***************************************************************************)
(* What scanners send.  The size field counts 16-bit words, from a byte    *)
(* and up to a byte that depend on the protocol and the configuration.     *)
(***************************************************************************)
Conventions == {"old", "new", "newWithFields"}

\* The payload: type, field and two bytes per point, or the type alone.
UserData(t) == IF t.type = "DISTANCE" THEN COMMON3 + DISTANCE + 2 * t.points
                                      ELSE COMMON3
TotalSize(t) == HEADER + UserData(t) + TAIL

\* Half of the bytes that are counted.
SizeField(t) ==
  CASE t.convention = "old" -> (TotalSize(t) - 4) \div 2
    [] t.convention = "new" -> (TotalSize(t) - 8) \div 2
    [] t.convention = "newWithFields" -> (TotalSize(t) - TAIL - 12) \div 2

Telegram ==
  [convention : Conventions, type : Types, points : Payloads,
   address : Addresses, field : Fields]

\* The bytes of telegram t.  No place but its end holds a CRC by accident; the
\* end does not either when its bytes are stale and not those of the telegram.
Bytes(t, stale) ==
  [pattern |-> TRUE, address |-> t.address, old |-> t.convention = "old",
   size |-> SizeField(t), type |-> t.type, field |-> t.field,
   crcs |-> IF stale THEN {} ELSE {TotalSize(t) - TAIL}]

\* Bytes that are no telegram, though they may look like the start of one.
Noise(pattern, old, size, tc3) ==
  [pattern |-> pattern, address |-> DEVICE_ADDR, old |-> old, size |-> size,
   type |-> tc3, field |-> 1, crcs |-> {}]

\* n bytes were received of what is parsed next.  A telegram that was not
\* received whole is followed by stale bytes, maybe those of one like it.
bytesReceived(n) ==
  /\ result # "none"
  /\ result' = "none"
  /\ max_size' = n
  /\ \/ \E t \in Telegram, stale \in BOOLEAN :
          /\ stale => n < TotalSize(t)
          /\ buffer' = Bytes(t, stale)
     \/ \E pattern, old \in BOOLEAN, size \in Sizes, tc3 \in Types :
          buffer' = Noise(pattern, old, size, tc3)
  /\ UNCHANGED members

-----------------------------------------------------------------------------
(***************************************************************************)
(* parseHeader().                                                          *)
(***************************************************************************)

\* check(): the address is masked out.
check == buffer.pattern

\* Mutant of sizeOld: the byte it starts at is subtracted as well.
sizeOldShort == 2 * buffer.size - (HEADER + 4 + 2)

\* What is counted starts at byte 4, 8 or 12, and includes the CRC or not.
sizeOld == 2 * buffer.size - (HEADER - 4 + 2)
sizeWithoutFields == 2 * buffer.size - (HEADER - 8 + 2)
sizeWithFields == 2 * buffer.size - (HEADER - 12 + 0)

crcMatches(size) == HEADER + size \in buffer.crcs

\* Mutant of guessedSize: the size with fields is tried for no telegram.
guessedOnce == IF buffer.old THEN sizeOld ELSE sizeWithoutFields

\* The new protocol does not tell what is counted: both are tried.
guessedSize ==
  IF buffer.old THEN sizeOld
  ELSE IF crcMatches(sizeWithoutFields) THEN sizeWithoutFields
  ELSE sizeWithFields

\* Mutant of fits: the tail is not counted.
fitsWithoutTail(size) == HEADER + size <= max_size

\* No sum is negative, so nothing wraps in the comparison of sizes.
fits(size) == HEADER + size + TAIL <= max_size

\* Mutant of fieldRead: td_ keeps its value unless there is a new one.
fieldKept == IF buffer.type = "DISTANCE" THEN buffer.field ELSE td_field

\* td_ is cleared, then read from a distance telegram; getField() is -1 for 0.
fieldRead == IF buffer.type = "DISTANCE" THEN buffer.field ELSE -1

\* The members change as far as parsing gets.
parsesNoHeader ==
  /\ COMMON1 > max_size \/ ~check
  /\ result' = "false"
  /\ UNCHANGED members

parsesHeader ==
  /\ COMMON1 <= max_size /\ check
  /\ type' = buffer.type
  /\ user_data_size_' = guessedSize
  /\ \/ /\ ~(fits(guessedSize) /\ crcMatches(guessedSize))
        /\ result' = "false"
        /\ UNCHANGED td_field
     \/ /\ fits(guessedSize) /\ crcMatches(guessedSize)
        /\ td_field' = fieldRead
        /\ result' = IF type' = "unknown" THEN "false" ELSE "true"

parseHeader ==
  /\ result = "none"
  /\ parsesNoHeader \/ parsesHeader
  /\ UNCHANGED <<buffer, max_size>>

getCompletePacketSize == HEADER + user_data_size_ + TAIL

\* readDistRaw(): the points read, none for what is no distance telegram.
numPoints ==
  IF type # "DISTANCE" THEN 0
  ELSE ((user_data_size_ - COMMON3 - DISTANCE) % SizeWidth) \div 2

\* tc3_ and td_ are not initialised: nobody looks before a success.
Init ==
  /\ buffer = Noise(FALSE, FALSE, 0, "unknown") /\ max_size = 0
  /\ result = "false"
  /\ type = "unknown"
  /\ td_field = -1
  /\ user_data_size_ = 0

Next ==
  \/ \E n \in Received : bytesReceived(n)
  \/ parseHeader

Spec == Init /\ [][Next]_vars

-----------------------------------------------------------------------------
\* Every variable has its type, and the sums of signed and unsigned sizes are
\* not negative, whatever the size field says: no comparison wraps.
TypeOK ==
  /\ buffer.type \in Types
  /\ buffer.pattern \in BOOLEAN /\ buffer.old \in BOOLEAN
  /\ max_size \in Received \cup {0}
  /\ result \in {"none", "true", "false"}
  /\ type \in Types
  /\ td_field \in {-1} \cup Fields
  /\ user_data_size_ \in Int /\ getCompletePacketSize >= 0

\* What is parsed is a telegram of a known type, received to its last byte.
Complete ==
  /\ buffer.pattern /\ buffer.type # "unknown"
  /\ \E crc \in buffer.crcs : crc + TAIL <= max_size

(***************************************************************************)
(* parseHeader() accepts nothing but telegrams of a known type of which    *)
(* every byte has been received, in both protocols and whatever their size *)
(* field counts, and overlooks none of the scanner that is configured: no  *)
(* telegram is returned early, when its first bytes arrived, or too late.  *)
(* (Whether one of another device address should be accepted is left open. *)
(* It is; getScan() speaks of a "header with correct scan id".)            *)
(***************************************************************************)
AcceptsCompleteTelegrams ==
  /\ result = "true" => Complete
  /\ result = "false" /\ Complete => buffer.address # DEVICE_ADDR

(***************************************************************************)
(* After a success the members, which earlier attempts have changed too,   *)
(* describe the telegram that was accepted: its size, by which getScan()   *)
(* finds the end of it, the number of its points and its field.            *)
(***************************************************************************)
MembersDescribeAccepted ==
  result = "true" =>
    LET distance == buffer.type = "DISTANCE"
    IN \A crc \in buffer.crcs :
         /\ getCompletePacketSize = crc + TAIL
         /\ 2 * numPoints = IF distance
                            THEN crc - HEADER - COMMON3 - DISTANCE ELSE 0
         /\ td_field = IF distance THEN buffer.field ELSE -1

\* What the bytes to parse are: the shape that bytesReceived() gives them.
BufferShape ==
  \/ \E t \in Telegram, stale \in BOOLEAN :
       buffer = Bytes(t, stale) /\ (stale => max_size < TotalSize(t))
  \/ \E pattern, old \in BOOLEAN, size \in Sizes \cup {0}, tc3 \in Types :
       buffer = Noise(pattern, old, size, tc3)

\* The inductive invariant.
IInv ==
  TypeOK /\ BufferShape /\ AcceptsCompleteTelegrams /\ MembersDescribeAccepted

=============================================================================
