-------------------------- MODULE ScannerSickS300 ---------------------------
(***************************************************************************)
(* Class ScannerSickS300 with the serial line it reads: the scanner sends  *)
(* its telegrams cell by cell, the input queue of the tty holds the cells  *)
(* that were not read yet, and getScan() collects cells in m_ReadBuf until *)
(* they hold a telegram.  A cell stands for the bytes of one part of a     *)
(* telegram; what carries no scan (noise, damaged cells, telegrams without *)
(* distances, for which readDistRaw() returns no points) is junk.          *)
(*                                                                         *)
(* The class implements ScanSource, the view that the node has of it.      *)
(***************************************************************************)
EXTENDS Integers, Sequences, FiniteSetsExt

CONSTANTS
  Kinds,         \* the kinds of telegram the device may send
  MaxCaptures,   \* bound: telegrams the device sends in a behaviour
  TelegramSize,  \* cells of a telegram
  MaxNoise,      \* cells that may be sent between two telegrams with a scan
  BufSize,       \* SCANNER_S300_READ_BUF_SIZE - 2, in cells
  TtySize        \* cells the input queue of the tty holds

ASSUME SizeAssumption ==
  /\ TelegramSize \in Nat \ {0}
  /\ BufSize \in Nat \ {0}
  /\ TtySize \in Nat \ {0}
  /\ MaxNoise \in Nat /\ MaxCaptures \in Nat

\* The buffer holds 9998 bytes: two telegrams and what comes between them.
ASSUME BufferAssumption == 2 * TelegramSize - 1 + MaxNoise <= BufSize

VARIABLES
  m_Device,            \* m_Device of SerialIO: "closed" (-1) or "open"
  tty,                 \* the cells in the input queue of the tty
  sending,             \* the cell the device sent last, at pos > TelegramSize
                       \* one that follows telegram id and belongs to none
  m_ReadBuf,           \* m_ReadBuf, beyond m_actualBufferSize too
  m_actualBufferSize,  \* how many cells of m_ReadBuf are valid
  m_bInStandby,        \* m_bInStandby
  decoded              \* the telegram the last successful getScan() returned

lineVars == <<m_Device, tty, sending>>
bufferVars == <<m_ReadBuf, m_actualBufferSize>>
vars == <<lineVars, bufferVars, m_bInStandby, decoded>>

Junk == [id |-> 0, kind |-> "none", pos |-> 0]
NoTelegram == [id |-> 0, kind |-> "none"]

Init ==
  /\ m_Device = "closed"
  /\ tty = <<>>
  /\ sending = [id |-> 0, kind |-> "none", pos |-> TelegramSize]
  /\ m_ReadBuf = [i \in 1 .. BufSize |-> Junk]
  /\ m_actualBufferSize = 0
  /\ m_bInStandby = TRUE
  /\ decoded = NoTelegram

-----------------------------------------------------------------------------
(***************************************************************************)
(* The scanner and the line.                                               *)
(***************************************************************************)
NextCells ==
  LET following == [sending EXCEPT !.pos = @ + 1]
      starting == {[id |-> sending.id + 1, kind |-> kind, pos |-> 1] : kind \in Kinds}
  IN CASE sending.pos < TelegramSize -> {following}
       [] sending.pos = TelegramSize + MaxNoise -> starting
       [] OTHER -> {following} \cup starting

\* A cell arrives intact or damaged; noise and the telegrams without a scan,
\* for instance those of the inputs and outputs, are junk in any case.
Arriving(cell) == IF cell.pos > TelegramSize THEN {Junk} ELSE {cell, Junk}

\* A cell does not arrive if the port is closed, if the queue is full, or if the
\* receiver missed it.
deviceSends ==
  \E cell \in NextCells :
    /\ cell.id <= MaxCaptures
    /\ sending' = cell
    /\ \/ /\ m_Device = "open" /\ Len(tty) < TtySize
          /\ \E arriving \in Arriving(cell) : tty' = Append(tty, arriving)
       \/ UNCHANGED tty
    /\ UNCHANGED <<m_Device, bufferVars, m_bInStandby, decoded>>

\* open(): the port is opened and purged; the receive buffer is not emptied.
open ==
  /\ \/ m_Device' = "open" /\ tty' = <<>>
     \/ m_Device' = "closed" /\ UNCHANGED tty
  /\ UNCHANGED <<sending, bufferVars, m_bInStandby, decoded>>

\* ~ScannerSickS300()
close ==
  /\ m_Device' = "closed"
  /\ UNCHANGED <<tty, sending, bufferVars, m_bInStandby, decoded>>

-----------------------------------------------------------------------------
(***************************************************************************)
(* getScan().                                                              *)
(***************************************************************************)

\* Mutants of kept: a full buffer is never emptied; the buffer is emptied one
\* cell too early; a full buffer makes room for one cell only.
keptForever == m_actualBufferSize
keptUntilAlmostFull ==
  IF BufSize - m_actualBufferSize <= 1 THEN 0 ELSE m_actualBufferSize
keptButLast == Min({m_actualBufferSize, BufSize - 1})

\* What is kept of the buffer: nothing, when no cell would fit any more.
kept == IF BufSize - m_actualBufferSize <= 0 THEN 0 ELSE m_actualBufferSize

\* Mutant of Readable: the read may fill the whole buffer, behind what is kept.
readableWithoutKept == 0 .. Min({Len(tty), BufSize})

\* How many cells readBlocking() may deliver; 0 is a timeout or an error.
Readable ==
  IF m_Device = "open" THEN 0 .. Min({Len(tty), BufSize - kept}) ELSE {0}

\* The buffer once n cells were read behind those that are kept.
Filled(n) ==
  [i \in 1 .. BufSize |->
     IF i \in kept + 1 .. kept + n THEN tty[i - kept] ELSE m_ReadBuf[i]]

\* Mutant of parseHeader: the size is not checked against what was received.
parsesBeyondEnd(buf, i, max_size) ==
  /\ i + TelegramSize <= BufSize
  /\ buf[i + 1].id > 0
  /\ \A p \in 1 .. TelegramSize : buf[i + p] = [buf[i + 1] EXCEPT !.pos = p]

\* parseHeader() and readDistRaw() find a scan at offset i of a buffer of which
\* max_size cells are left from there.
parseHeader(buf, i, max_size) ==
  /\ TelegramSize <= max_size
  /\ buf[i + 1].id > 0
  /\ \A p \in 1 .. TelegramSize : buf[i + p] = [buf[i + 1] EXCEPT !.pos = p]

\* The offsets at which the search through the first size cells finds a scan.
Found(buf, size) == {i \in 0 .. size : parseHeader(buf, i, size - i)}

\* Mutant of searchedFrom: the buffer is searched forwards.
searchedForwards(found) == Min(found)

\* The buffer is searched backwards.
searchedFrom(found) == Max(found)

\* Mutant of shifted: the rest behind the telegram is not moved to the front.
notShifted(buf, consumed, remaining) == buf

\* memmove() of the rest behind the telegram to the front of the buffer.
shifted(buf, consumed, remaining) ==
  [i \in 1 .. BufSize |-> IF i <= remaining THEN buf[i + consumed] ELSE buf[i]]

\* Mutant of convertScanToPolar: the flag is only ever set.
neverLeavesStandby(kind) ==
  m_bInStandby' = IF kind = "foreign" THEN m_bInStandby
                  ELSE m_bInStandby \/ kind = "standby"

\* The scan is converted if its field has parameters, which decides standby.
convertScanToPolar(kind) ==
  m_bInStandby' = IF kind = "foreign" THEN m_bInStandby ELSE kind = "standby"

getScanReturnsTrue(n) ==
  LET size == kept + n
      found == Found(Filled(n), size)
      i == searchedFrom(found)
      consumed == i + TelegramSize
      header == Filled(n)[i + 1]
  IN /\ found # {}
     /\ m_ReadBuf' = shifted(Filled(n), consumed, size - consumed)
     /\ m_actualBufferSize' = Max({0, size - consumed})
     /\ decoded' = [id |-> header.id, kind |-> header.kind]
     /\ convertScanToPolar(header.kind)

getScanReturnsFalse(n) ==
  /\ Found(Filled(n), kept + n) = {}
  /\ m_ReadBuf' = Filled(n)
  /\ m_actualBufferSize' = kept + n
  /\ UNCHANGED <<m_bInStandby, decoded>>

\* The read times out or fails: nothing is searched.
getScanReadsNothing ==
  /\ m_actualBufferSize' = kept
  /\ UNCHANGED <<lineVars, m_ReadBuf, m_bInStandby, decoded>>

getScanReads(n) ==
  /\ n \in Readable
  /\ tty' = SubSeq(tty, n + 1, Len(tty))
  /\ getScanReturnsTrue(n) \/ getScanReturnsFalse(n)
  /\ UNCHANGED <<m_Device, sending>>

getScan ==
  \/ getScanReadsNothing
  \/ \E n \in Readable \ {0} : getScanReads(n)

-----------------------------------------------------------------------------
Next == deviceSends \/ open \/ close \/ getScan

Spec == Init /\ [][Next]_vars

(***************************************************************************)
(* Fairness.  The acquisition loop calls getScan() again and again, and a  *)
(* read returns what the line holds when it holds something.  The node is  *)
(* configured once: the port is not opened again while it is open.         *)
(***************************************************************************)
NextOnce == deviceSends \/ (m_Device = "closed" /\ open) \/ close \/ getScan

FairSpec ==
  Init /\ [][NextOnce]_vars /\ WF_vars(\E n \in Readable \ {0} : getScanReads(n))

-----------------------------------------------------------------------------
Cells ==
  [id : Nat, kind : Kinds \cup {"none"}, pos : 0 .. TelegramSize + MaxNoise]

\* Every variable has its type; the buffer does not overflow.
TypeOK ==
  /\ m_Device \in {"closed", "open"}
  /\ tty \in Seq(Cells) /\ Len(tty) <= TtySize
  /\ sending \in Cells
  /\ m_ReadBuf \in [1 .. BufSize -> Cells]
  /\ m_actualBufferSize \in 0 .. BufSize
  /\ m_bInStandby \in BOOLEAN
  /\ decoded \in [id : Nat, kind : Kinds] \cup {NoTelegram}

\* Cell c was sent before cell d.
Before(c, d) == c.id < d.id \/ (c.id = d.id /\ c.pos < d.pos)

\* The cells of s that are not junk are in order and newer than telegram id.
InOrder(s, id) ==
  LET cells == {i \in 1 .. Len(s) : s[i] # Junk}
  IN /\ \A i \in cells : s[i].id > id
     /\ \A i, j \in cells : i < j => Before(s[i], s[j])

\* The offsets of the complete scans of s, and those scans.
ScanOffsets(s) ==
  {i \in 0 .. Len(s) - TelegramSize : parseHeader(s, i, Len(s) - i)}
ScansIn(s) ==
  {[id |-> s[i + 1].id, kind |-> s[i + 1].kind] : i \in ScanOffsets(s)}

\* What was received and neither returned nor dropped, in the order of arrival.
Stream == SubSeq(m_ReadBuf, 1, m_actualBufferSize) \o tty

(***************************************************************************)
(* getScan() leaves no scan behind in its buffer: a scan that was received *)
(* completely is returned by the call that received its last byte, never   *)
(* by a later one, when it would be stale.                                 *)
(***************************************************************************)
NoScanLeftBehind == Found(m_ReadBuf, m_actualBufferSize) = {}

(***************************************************************************)
(* The cells in the buffer and in the queue of the tty come in the order   *)
(* they were sent, none of them twice, and all are newer than the scan     *)
(* returned last, whatever was damaged, lost, dropped, purged or moved     *)
(* within the buffer.                                                      *)
(***************************************************************************)
StreamInOrder == InOrder(Stream, decoded.id)

\* The telegrams that were sent to their end.
Captured == IF sending.pos >= TelegramSize THEN sending.id ELSE sending.id - 1

\* The scans that are complete in the stream.
CompleteScans == ScansIn(Stream)

(***************************************************************************)
(* The class is the scan source the node was verified with: at the level   *)
(* of whole telegrams, getScan() returns the newest scan of what it has    *)
(* read, drops the scans before it and keeps the ones behind it; when it   *)
(* returns false it drops at most the scan that was only partly received.  *)
(***************************************************************************)
Source == INSTANCE ScanSource WITH
  port <- m_Device,
  line <- CompleteScans,
  captured <- Captured,
  in_standby <- m_bInStandby,
  got <- decoded

ImplementsSource == Source!SourceSpec

(***************************************************************************)
(* The scans that getScan() finds by reading on, because they end within   *)
(* the buffer at the place they have in the stream.                        *)
(***************************************************************************)
ScansInReach ==
  {[id |-> Stream[i + 1].id, kind |-> Stream[i + 1].kind] :
     i \in {k \in ScanOffsets(Stream) : k + TelegramSize <= BufSize}}

(***************************************************************************)
(* A scan in reach stays in reach, and the buffer is not emptied before    *)
(* it, until it or a newer one is returned or the port is opened again:    *)
(* no sequence of short reads, timeouts and junk pushes it out.            *)
(***************************************************************************)
ReachedScanIsReturned ==
  [][ ~open => \A t \in ScansInReach :
        \/ t.id <= decoded'.id
        \/ /\ t \in ScansInReach'
           /\ decoded' = decoded => m_actualBufferSize' >= m_actualBufferSize ]_vars

(***************************************************************************)
(* When a full buffer is emptied in the middle of a scan, the scan after   *)
(* it is in reach, if it has arrived undamaged: getScan() never loses two  *)
(* scans in a row.                                                         *)
(***************************************************************************)
LosesNoTwoInARow ==
  [][ ~open => \A t \in CompleteScans \ CompleteScans' :
        t.id > decoded'.id =>
          \A u \in CompleteScans : u.id = t.id + 1 => u \in ScansInReach' ]_vars

(***************************************************************************)
(* The inductive invariant behind the properties above: what is in the     *)
(* stream was sent, by now, and so was all of the scan returned last.      *)
(***************************************************************************)
Sendable ==
  {c \in Cells : c.pos <= TelegramSize /\ (c.id > 0 => c.kind \in Kinds)}

SentBy(s, cell) ==
  \A i \in 1 .. Len(s) : s[i] # Junk => s[i] = cell \/ Before(s[i], cell)

\* At least n cells may have been sent after c up to d, if d was sent with the
\* telegram of c or with the next one.
Within(n, c, d) ==
  /\ c.id = d.id => n <= d.pos - c.pos
  /\ c.id + 1 = d.id => n <= TelegramSize + MaxNoise + d.pos - c.pos

\* No more was received between two cells of s, or after the last one, than may
\* have been sent there, noise and damaged cells included.
NothingInserted(s, cell) ==
  LET cells == {i \in 1 .. Len(s) : s[i] # Junk}
  IN  /\ \A i \in cells : Within(Len(s) - i, s[i], cell)
      /\ \A i, j \in cells : i < j => Within(j - i, s[i], s[j])

StreamSent ==
  /\ sending.id > 0 => sending.kind \in Kinds
  /\ tty \in Seq(Sendable)
  /\ m_ReadBuf \in [1 .. BufSize -> Sendable]
  /\ SentBy(Stream, sending)
  /\ NothingInserted(Stream, sending)
  /\ \/ decoded.id < sending.id
     \/ (decoded.id = sending.id /\ sending.pos >= TelegramSize)

IInv ==
  /\ TypeOK
  /\ StreamSent
  /\ StreamInOrder
  /\ NoScanLeftBehind

(***************************************************************************)
(* Of two scans in a row that arrive undamaged one is returned, or a newer *)
(* one, unless the port is closed: however much junk has filled the buffer *)
(* before them, getScan() finds the telegrams again.                       *)
(***************************************************************************)
Arrived(n) == {n, n + 1} \subseteq {t.id : t \in CompleteScans}

Resynchronises ==
  \A n \in 1 .. MaxCaptures - 1 :
    Arrived(n) ~> decoded.id >= n \/ m_Device = "closed"
=============================================================================
