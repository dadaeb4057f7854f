------------------------ MODULE TelegramParser_proofs ------------------------
(***************************************************************************)
(* What TelegramParser promises, for telegrams of every size: the size     *)
(* that parseHeader() guesses is the one the scanner meant, so what it     *)
(* accepts is what was received whole.                                     *)
(***************************************************************************)
EXTENDS TelegramParser, TLAPS

\* Every telegram has an even number of bytes, and its size field is exact.
LEMMA SizeFieldExact ==
  ASSUME NEW t \in Telegram
  PROVE  /\ UserData(t) \in Nat /\ TotalSize(t) \in Nat
         /\ TotalSize(t) = UserData(t) + 22
         /\ t.type = "DISTANCE" => UserData(t) = 4 + 2 * t.points
         /\ SizeField(t) \in Nat
         /\ t.convention = "old" => 2 * SizeField(t) = TotalSize(t) - 4
         /\ t.convention = "new" => 2 * SizeField(t) = TotalSize(t) - 8
         /\ t.convention = "newWithFields" => 2 * SizeField(t) = TotalSize(t) - 14
<1>1. t.points \in Nat /\ t.convention \in Conventions /\ t.type \in Types
  BY ParserAssumption DEF Telegram
<1>2. PICK half \in Nat : UserData(t) = 2 * half /\ half >= 1
  <2>1. CASE t.type = "DISTANCE"
    BY <1>1, <2>1, 2 + t.points \in Nat, UserData(t) = 2 * (2 + t.points)
       DEF UserData, COMMON3, DISTANCE
  <2>2. CASE t.type # "DISTANCE"
    BY <2>2, UserData(t) = 2 * 1 DEF UserData, COMMON3
  <2> QED BY <2>1, <2>2
<1>3. TotalSize(t) = 2 * half + 22
  BY <1>2 DEF TotalSize, HEADER, COMMON1, COMMON2, TAIL
<1>4. /\ (TotalSize(t) - 4) \div 2 = half + 9
      /\ (TotalSize(t) - 8) \div 2 = half + 7
      /\ (TotalSize(t) - 14) \div 2 = half + 4
  BY <1>2, <1>3
<1>5. /\ t.convention = "old" => SizeField(t) = half + 9
      /\ t.convention = "new" => SizeField(t) = half + 7
      /\ t.convention = "newWithFields" => SizeField(t) = half + 4
  <2>1. TotalSize(t) - TAIL - 12 = TotalSize(t) - 14
    BY <1>2, <1>3 DEF TAIL
  <2> QED BY <1>1, <1>4, <2>1 DEF SizeField, Conventions
<1>6. t.type = "DISTANCE" => UserData(t) = 4 + 2 * t.points
  BY <1>1 DEF UserData, COMMON3, DISTANCE
<1> QED BY <1>1, <1>2, <1>3, <1>5, <1>6 DEF Conventions

\* The size that parseHeader() arrives at, trying one size and then another,
\* is the one at whose end there is a CRC, if there is a CRC anywhere.
LEMMA GuessedRight ==
  ASSUME BufferShape, buffer.crcs # {}
  PROVE  \E t \in Telegram :
           /\ buffer = Bytes(t, FALSE)
           /\ buffer.crcs = {UserData(t) + 20}
           /\ guessedSize = UserData(t)
<1>1. PICK t \in Telegram : buffer = Bytes(t, FALSE)
  BY DEF BufferShape, Bytes, Noise
<1>2. /\ buffer.crcs = {UserData(t) + 20}
      /\ buffer.size = SizeField(t)
      /\ buffer.old = (t.convention = "old")
  BY <1>1, SizeFieldExact DEF Bytes, TAIL
<1>3. ASSUME t.convention = "old" PROVE guessedSize = UserData(t)
  <2>1. guessedSize = sizeOld
    BY <1>2, <1>3 DEF guessedSize
  <2>2. 2 * SizeField(t) = UserData(t) + 18 /\ UserData(t) \in Nat
    BY <1>3, SizeFieldExact
  <2> QED BY <1>2, <2>1, <2>2 DEF sizeOld, HEADER, COMMON1, COMMON2
<1>4. ASSUME t.convention = "new" PROVE guessedSize = UserData(t)
  <2>1. sizeWithoutFields = UserData(t)
    BY <1>2, <1>4, SizeFieldExact DEF sizeWithoutFields, HEADER, COMMON1, COMMON2
  <2>2. crcMatches(sizeWithoutFields)
    BY <2>1, <1>2, SizeFieldExact DEF crcMatches, HEADER, COMMON1, COMMON2
  <2> QED BY <1>2, <1>4, <2>1, <2>2 DEF guessedSize
<1>5. ASSUME t.convention = "newWithFields" PROVE guessedSize = UserData(t)
  <2>1. sizeWithoutFields = UserData(t) - 6
    BY <1>2, <1>5, SizeFieldExact DEF sizeWithoutFields, HEADER, COMMON1, COMMON2
  <2>2. ~crcMatches(sizeWithoutFields)
    BY <2>1, <1>2, SizeFieldExact DEF crcMatches, HEADER, COMMON1, COMMON2
  <2>3. sizeWithFields = UserData(t)
    BY <1>2, <1>5, SizeFieldExact DEF sizeWithFields, HEADER, COMMON1, COMMON2
  <2> QED BY <1>2, <1>5, <2>2, <2>3 DEF guessedSize
<1>6. guessedSize = UserData(t)
  <2>1. t.convention \in Conventions
    BY DEF Telegram
  <2> QED BY <2>1, <1>3, <1>4, <1>5 DEF Conventions
<1> QED BY <1>1, <1>2, <1>6

\* Without a CRC anywhere there is none where parseHeader() looks for it.
LEMMA NoCrcNoMatch ==
  ASSUME buffer.crcs = {}
  PROVE  ~crcMatches(guessedSize)
BY DEF crcMatches

\* The bytes in front of the parser have the types of their fields.
LEMMA BufferTypes ==
  ASSUME BufferShape
  PROVE  /\ buffer.pattern \in BOOLEAN /\ buffer.old \in BOOLEAN
         /\ buffer.type \in Types
         /\ buffer.size \in Nat
         /\ buffer.crcs # {} => buffer.field \in Fields
         /\ guessedSize \in Int /\ guessedSize + 22 >= 0
<1>1. CASE \E t \in Telegram, stale \in BOOLEAN : buffer = Bytes(t, stale)
  <2>1. PICK t \in Telegram, stale \in BOOLEAN : buffer = Bytes(t, stale)
    BY <1>1
  <2>2. /\ t.type \in Types /\ t.field \in Fields
        /\ SizeField(t) \in Nat
    BY SizeFieldExact DEF Telegram
  <2>3. /\ buffer.pattern = TRUE /\ buffer.old = (t.convention = "old")
        /\ buffer.type = t.type /\ buffer.size = SizeField(t)
        /\ buffer.field = t.field
    BY <2>1 DEF Bytes
  <2>4. guessedSize \in Int /\ guessedSize + 22 >= 0
    BY <2>2, <2>3 DEF guessedSize, sizeOld, sizeWithoutFields, sizeWithFields,
                      HEADER, COMMON1, COMMON2
  <2> QED BY <2>2, <2>3, <2>4
<1>2. CASE \E pattern, old \in BOOLEAN, size \in Sizes \cup {0}, tc3 \in Types :
             buffer = Noise(pattern, old, size, tc3)
  <2>1. PICK pattern \in BOOLEAN, old \in BOOLEAN, size \in Sizes \cup {0},
             tc3 \in Types : buffer = Noise(pattern, old, size, tc3)
    BY <1>2
  <2>2. /\ buffer.pattern = pattern /\ buffer.old = old
        /\ buffer.type = tc3 /\ buffer.size = size /\ buffer.crcs = {}
    BY <2>1 DEF Noise
  <2>3. size \in Nat
    BY ParserAssumption
  <2>4. guessedSize \in Int /\ guessedSize + 22 >= 0
    BY <2>2, <2>3 DEF guessedSize, sizeOld, sizeWithoutFields, sizeWithFields,
                      HEADER, COMMON1, COMMON2
  <2> QED BY <2>2, <2>3, <2>4
<1> QED BY <1>1, <1>2 DEF BufferShape

\* The initial state satisfies the invariant.
LEMMA Initially == Init => IInv
<1> SUFFICES ASSUME Init PROVE IInv
  OBVIOUS
<1>1. BufferShape
  BY DEF Init, BufferShape, Types
<1>2. /\ buffer.crcs = {} /\ buffer.type = "unknown"
      /\ buffer.pattern = FALSE /\ buffer.old = FALSE
  BY DEF Init, Noise
<1>3. getCompletePacketSize >= 0
  BY DEF Init, getCompletePacketSize, HEADER, COMMON1, COMMON2, TAIL
<1>4. TypeOK
  <2>1. max_size \in Received \cup {0} /\ td_field \in {-1} \cup Fields
    BY DEF Init
  <2>2. user_data_size_ \in Int /\ type \in Types /\ buffer.type \in Types
    <3>1. user_data_size_ = 0 /\ type = "unknown"
      BY DEF Init
    <3> QED BY <1>2, <3>1 DEF Types
  <2> QED BY <1>2, <1>3, <2>1, <2>2 DEF Init, TypeOK
<1>5. AcceptsCompleteTelegrams /\ MembersDescribeAccepted
  BY <1>2 DEF Init, AcceptsCompleteTelegrams, Complete, MembersDescribeAccepted
<1> QED BY <1>1, <1>4, <1>5 DEF IInv

\* Nothing is promised of bytes that were not parsed yet.
LEMMA ReceivedKeeps ==
  ASSUME IInv, NEW n \in Received, bytesReceived(n)
  PROVE  IInv'
<1>1. BufferShape'
  BY DEF bytesReceived, BufferShape, Bytes, Noise, TotalSize, UserData, SizeField
<1>2. buffer'.pattern \in BOOLEAN /\ buffer'.old \in BOOLEAN /\ buffer'.type \in Types
  <2>1. CASE \E t \in Telegram, stale \in BOOLEAN : buffer' = Bytes(t, stale)
    BY <2>1 DEF Telegram, Bytes
  <2>2. CASE \E pattern, old \in BOOLEAN, size \in Sizes, tc3 \in Types :
               buffer' = Noise(pattern, old, size, tc3)
    BY <2>2 DEF Noise
  <2> QED BY <2>1, <2>2 DEF bytesReceived
<1>3. TypeOK'
  BY <1>2 DEF IInv, TypeOK, bytesReceived, members, getCompletePacketSize
<1>4. AcceptsCompleteTelegrams' /\ MembersDescribeAccepted'
  BY DEF bytesReceived, AcceptsCompleteTelegrams, Complete, MembersDescribeAccepted
<1> QED BY <1>1, <1>3, <1>4 DEF IInv

\* Parsing tells the complete telegrams from the rest, and describes them.
LEMMA ParsingKeeps ==
  ASSUME IInv, parseHeader
  PROVE  IInv'
<1>1. /\ BufferShape /\ TypeOK /\ UNCHANGED <<buffer, max_size>>
  BY DEF IInv, parseHeader
<1>2. BufferShape'
  BY <1>1 DEF BufferShape
<1>3. max_size \in Nat
  BY <1>1, ParserAssumption DEF TypeOK
<1>4. CASE parsesNoHeader
  <2>1. TypeOK'
    BY <1>1, <1>4 DEF TypeOK, parsesNoHeader, members, getCompletePacketSize
  <2>2. MembersDescribeAccepted'
    BY <1>4 DEF parsesNoHeader, MembersDescribeAccepted
  <2>3. ASSUME buffer.pattern, NEW crc \in buffer.crcs
        PROVE  crc + TAIL > max_size
    <3>1. PICK t \in Telegram : buffer.crcs = {UserData(t) + 20}
      BY <1>1, <2>3, GuessedRight
    <3> QED BY <1>3, <1>4, <2>3, <3>1, SizeFieldExact
            DEF parsesNoHeader, check, COMMON1, TAIL
  <2>4. AcceptsCompleteTelegrams'
    <3>1. ASSUME NEW crc \in buffer.crcs PROVE crc \in Int
      <4>1. PICK t \in Telegram : buffer.crcs = {UserData(t) + 20}
        BY <1>1, GuessedRight
      <4> QED BY <4>1, SizeFieldExact
    <3> QED BY <1>1, <1>3, <1>4, <2>3, <3>1
            DEF parsesNoHeader, AcceptsCompleteTelegrams, Complete, TAIL
  <2> QED BY <1>2, <2>1, <2>2, <2>4 DEF IInv
<1>5. CASE parsesHeader
  <2>1. /\ type' = buffer.type /\ user_data_size_' = guessedSize
        /\ buffer.pattern /\ COMMON1 <= max_size
    BY <1>5 DEF parsesHeader, check
  <2>2. CASE buffer.crcs = {}
    <3>1. result' = "false" /\ td_field' = td_field
      BY <1>5, <2>2, NoCrcNoMatch DEF parsesHeader
    <3>2. TypeOK'
      BY <1>1, <2>1, <3>1, BufferTypes
         DEF TypeOK, getCompletePacketSize, HEADER, COMMON1, COMMON2, TAIL
    <3> QED BY <1>1, <1>2, <2>2, <3>1, <3>2
            DEF IInv, AcceptsCompleteTelegrams, Complete, MembersDescribeAccepted
  <2>3. CASE buffer.crcs # {}
    <3>1. PICK t \in Telegram :
            /\ buffer = Bytes(t, FALSE)
            /\ buffer.crcs = {UserData(t) + 20}
            /\ guessedSize = UserData(t)
      BY <1>1, <2>3, GuessedRight
    <3>0. buffer.crcs = {UserData(t) + 20} /\ guessedSize = UserData(t)
      BY <3>1
    <3>2. /\ UserData(t) \in Nat /\ TotalSize(t) = UserData(t) + 22
          /\ t.type = "DISTANCE" => UserData(t) = 4 + 2 * t.points
          /\ t.points \in Nat /\ 2 * t.points < SizeWidth
          /\ buffer.type = t.type
      BY <3>1, SizeFieldExact, ParserAssumption DEF Telegram, Bytes
    <3>3. /\ crcMatches(guessedSize)
          /\ fits(guessedSize) <=> TotalSize(t) <= max_size
      <4>1. HEADER = 20 /\ TAIL = 2
        BY DEF HEADER, COMMON1, COMMON2, TAIL
      <4>2. crcMatches(guessedSize)
        BY <3>0, <3>2, <4>1 DEF crcMatches
      <4>3. HEADER + guessedSize + TAIL = TotalSize(t)
        BY <3>0, <3>2, <4>1
      <4> QED BY <4>2, <4>3 DEF fits
    <3>4. /\ result' \in {"true", "false"}
          /\ result' = "true" <=> TotalSize(t) <= max_size /\ buffer.type # "unknown"
          /\ td_field' = IF TotalSize(t) <= max_size THEN fieldRead ELSE td_field
      BY <1>5, <2>1, <3>3 DEF parsesHeader
    <3>5. TypeOK'
      <4>1. fieldRead \in {-1} \cup Fields
        BY <1>1, <2>3, BufferTypes DEF fieldRead
      <4>2. td_field' \in {-1} \cup Fields
        BY <1>1, <3>4, <4>1 DEF TypeOK
      <4> QED BY <1>1, <2>1, <3>4, <4>2, BufferTypes
              DEF TypeOK, getCompletePacketSize, HEADER, COMMON1, COMMON2, TAIL
    <3>6. AcceptsCompleteTelegrams'
      <4>1. ASSUME NEW crc \in buffer.crcs PROVE crc + TAIL = TotalSize(t)
        BY <3>0, <3>2 DEF TAIL
      <4>2. (\E crc \in buffer.crcs : crc + TAIL <= max_size)
              <=> TotalSize(t) <= max_size
        BY <2>3, <4>1
      <4> QED BY <1>1, <2>1, <3>4, <4>2 DEF AcceptsCompleteTelegrams, Complete
    <3>7. MembersDescribeAccepted'
      <4> SUFFICES ASSUME result' = "true", NEW crc \in buffer.crcs
                   PROVE
              /\ getCompletePacketSize' = crc + TAIL
              /\ 2 * numPoints' = IF buffer.type = "DISTANCE"
                                  THEN crc - HEADER - COMMON3 - DISTANCE ELSE 0
              /\ td_field' = IF buffer.type = "DISTANCE" THEN buffer.field ELSE -1
        BY <1>1 DEF MembersDescribeAccepted
      <4>1. crc = UserData(t) + 20
        BY <3>0
      <4>2. getCompletePacketSize' = crc + TAIL
        BY <2>1, <3>0, <3>2, <4>1
           DEF getCompletePacketSize, HEADER, COMMON1, COMMON2, TAIL
      <4>3. td_field' = IF buffer.type = "DISTANCE" THEN buffer.field ELSE -1
        BY <3>4 DEF fieldRead
      <4>4. 2 * numPoints' = IF buffer.type = "DISTANCE"
                             THEN crc - HEADER - COMMON3 - DISTANCE ELSE 0
        <5>1. CASE buffer.type = "DISTANCE"
          <6>1. user_data_size_' - COMMON3 - DISTANCE = 2 * t.points
            BY <2>1, <3>0, <3>2, <5>1 DEF COMMON3, DISTANCE
          <6>2. (2 * t.points) % SizeWidth = 2 * t.points
            BY <3>2, ParserAssumption
          <6>3. numPoints' = (2 * t.points) \div 2
            BY <2>1, <5>1, <6>1, <6>2 DEF numPoints
          <6>4. numPoints' = t.points
            BY <3>2, <6>3
          <6> QED BY <3>2, <4>1, <5>1, <6>4
                  DEF HEADER, COMMON1, COMMON2, COMMON3, DISTANCE
        <5>2. CASE buffer.type # "DISTANCE"
          BY <2>1, <5>2 DEF numPoints
        <5> QED BY <5>1, <5>2
      <4> QED BY <4>2, <4>3, <4>4
    <3> QED BY <1>2, <3>5, <3>6, <3>7 DEF IInv
  <2> QED BY <2>2, <2>3
<1> QED BY <1>4, <1>5 DEF parseHeader

\* The invariant is inductive: it holds of every state that is reached.
THEOREM Invariance == Spec => []IInv
<1>1. IInv /\ [Next]_vars => IInv'
  <2> SUFFICES ASSUME IInv, [Next]_vars PROVE IInv'
    OBVIOUS
  <2>1. ASSUME NEW n \in Received, bytesReceived(n) PROVE IInv'
    BY <2>1, ReceivedKeeps
  <2>2. CASE parseHeader
    BY <2>2, ParsingKeeps
  <2>3. CASE UNCHANGED vars
    BY <2>3 DEF vars, members, IInv, TypeOK, BufferShape,
                AcceptsCompleteTelegrams, Complete, MembersDescribeAccepted,
                getCompletePacketSize, numPoints
  <2> QED BY <2>1, <2>2, <2>3 DEF Next
<1> QED BY Initially, <1>1, PTL DEF Spec

(***************************************************************************)
(* Types, and no wrapping of sizes, whatever the size field of what is     *)
(* parsed says.                                                            *)
(***************************************************************************)
THEOREM TypeCorrect == Spec => []TypeOK
BY Invariance, PTL DEF IInv

(***************************************************************************)
(* parseHeader() accepts complete telegrams only, and all of those of the  *)
(* configured device, for every number of points, every number of bytes    *)
(* received and all three meanings of the size field.                      *)
(***************************************************************************)
THEOREM AcceptsComplete == Spec => []AcceptsCompleteTelegrams
BY Invariance, PTL DEF IInv

(***************************************************************************)
(* After a success the size, the number of points and the field are those  *)
(* of the telegram, as long as twice the number of points fits a size_t.   *)
(***************************************************************************)
THEOREM DescribesAccepted == Spec => []MembersDescribeAccepted
BY Invariance, PTL DEF IInv
=============================================================================
