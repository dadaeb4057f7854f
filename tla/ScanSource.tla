----------------------------- MODULE ScanSource -----------------------------
(***************************************************************************)
(* What the driver node relies on below it: the scanner, the serial line   *)
(* and class ScannerSickS300, seen one telegram at a time.  The device     *)
(* keeps sending distance telegrams, the line holds the ones that have     *)
(* arrived and were not read yet, and getScan() returns the newest         *)
(* telegram of whatever prefix of the line its read() delivered.           *)
(***************************************************************************)
EXTENDS Integers

CONSTANTS
  Kinds,        \* the kinds of telegram the device may send
  MaxCaptures   \* bound: telegrams the device sends in a behaviour

(***************************************************************************)
(* A telegram is abstracted to what the driver can tell apart:             *)
(*   "measuring"  field 1, two points or more, not all 0x4004              *)
(*   "standby"    field 1, two points or more, all 0x4004                  *)
(*   "single"     field 1, one point, not 0x4004                           *)
(*   "foreign"    a measuring telegram of a field with no entry in         *)
(*                m_Params                                                 *)
(***************************************************************************)
ASSUME KindsAssumption ==
  Kinds \subseteq {"measuring", "standby", "single", "foreign"}

VARIABLES
  port,         \* m_Device of SerialIO: "closed" (-1) or "open"
  line,         \* telegrams that arrived and that no getScan() consumed
  captured,     \* how many telegrams the device has sent: the newest id
  in_standby,   \* m_bInStandby
  got           \* the telegram the last successful getScan() decoded

sourceVars == <<port, line, captured, in_standby, got>>

Telegram == [id : Nat, kind : Kinds]

NoTelegram == [id |-> 0, kind |-> "none"]

SourceInit ==
  /\ port = "closed"
  /\ line = {}
  /\ captured = 0
  /\ in_standby = TRUE
  /\ got = NoTelegram

(***************************************************************************)
(* The device measures and sends a telegram, whether or not anybody        *)
(* listens; the line may damage it, and the input queue of the tty drops   *)
(* it when it is full.                                                     *)
(***************************************************************************)
Capture(kind) ==
  /\ captured < MaxCaptures
  /\ captured' = captured + 1
  /\ \/ port = "open" /\ line' = line \cup {[id |-> captured', kind |-> kind]}
     \/ UNCHANGED line
  /\ UNCHANGED <<port, in_standby, got>>

\* ScannerSickS300::open() succeeds: the port is open and purged.
openSucceeds ==
  /\ port' = "open"
  /\ line' = {}
  /\ UNCHANGED <<captured, in_standby, got>>

\* ScannerSickS300::open() fails: m_Device is -1 from now on.
openFails ==
  /\ port' = "closed"
  /\ UNCHANGED <<line, captured, in_standby, got>>

\* ~ScannerSickS300() closes the port.
closeIO ==
  /\ port' = "closed"
  /\ UNCHANGED <<line, captured, in_standby, got>>

\* Mutant of LaterThan: the telegrams before the one found are kept.
allBut(t) == line \ {t}

LaterThan(t) == {u \in line : u.id > t.id}

(***************************************************************************)
(* getScan() returns true.  It searches its buffer backwards, so it        *)
(* returns the newest complete telegram of what it has read, and drops the *)
(* ones before it.  A telegram of a field without parameters is a success  *)
(* too, but is not converted, so m_bInStandby keeps its value.             *)
(***************************************************************************)
getScanReturnsTrue ==
  /\ port = "open"
  /\ \E t \in line :
       /\ got' = t
       /\ line' = LaterThan(t)
       /\ in_standby' = IF t.kind = "foreign" THEN in_standby
                                              ELSE t.kind = "standby"
  /\ UNCHANGED <<port, captured>>

(***************************************************************************)
(* getScan() returns false: the read timed out or failed, or no complete   *)
(* telegram is in the buffer yet.  A buffer that had run full is emptied,  *)
(* and with it goes the telegram that was only partly received.            *)
(***************************************************************************)
getScanReturnsFalse ==
  /\ \/ UNCHANGED line
     \/ \E t \in line :
          /\ \A u \in line : t.id <= u.id
          /\ line' = LaterThan(t)
  /\ UNCHANGED <<port, captured, in_standby, got>>

SourceNext ==
  \/ \E kind \in Kinds : Capture(kind)
  \/ openSucceeds
  \/ openFails
  \/ closeIO
  \/ getScanReturnsTrue
  \/ getScanReturnsFalse

SourceTypeOK ==
  /\ port \in {"closed", "open"}
  /\ line \subseteq Telegram
  /\ captured \in Nat
  /\ in_standby \in BOOLEAN
  /\ got \in Telegram \cup {NoTelegram}

SourceSpec == SourceInit /\ [][SourceNext]_sourceVars
=============================================================================
