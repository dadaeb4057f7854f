------------------------------ MODULE SerialIO ------------------------------
(***************************************************************************)
(* Class SerialIO as the driver uses it: the descriptor of the serial port *)
(* and the ones the process holds open, the terminal settings that decide  *)
(* whether a read can wait forever, and the read, which begins and returns *)
(* in steps of its own.  The setters that only store a value for openIO()  *)
(* (baud rate, format, handshake, buffer sizes) decide nothing that is     *)
(* modelled, and nobody calls writeIO() or readNonBlocking().  Module      *)
(* Driver composes these actions with those of the node.                   *)
(***************************************************************************)
EXTENDS Integers, FiniteSetsExt

CONSTANTS
  MaxDescriptors,   \* bound: descriptors the process may hold
  MaxBytes,         \* bound: bytes waiting on the line
  SettingsMayFail   \* whether tcsetattr() may fail in setTimeout()

ASSUME BoundsAssumption ==
  /\ MaxDescriptors \in Nat /\ MaxBytes \in Nat
  /\ SettingsMayFail \in BOOLEAN

VARIABLES
  m_Device,       \* m_Device: a descriptor, or -1
  m_Timeout,      \* m_Timeout > 0
  descriptors,    \* the descriptors the process holds open
  overwritten,    \* those of them openIO() overwrote in m_Device (an observer)
  tty,            \* VMIN and VTIME of the terminal: "blocking" or "timed"
  waiting,        \* bytes on the line that were not read
  reading         \* whether readBlocking() is waiting for read()

portVars == <<m_Device, m_Timeout, descriptors, overwritten, tty>>
serialVars == <<portVars, waiting, reading>>

SerialInit ==
  /\ m_Device = -1
  /\ m_Timeout = FALSE
  /\ descriptors = {}
  /\ overwritten = {}
  /\ tty = "blocking"
  /\ waiting = 0
  /\ reading = FALSE

-----------------------------------------------------------------------------
\* Mutant of Mode: the two branches of setTimeout() are swapped.
swappedMode(timeout) == IF timeout THEN "blocking" ELSE "timed"

\* The setting that setTimeout() asks for: VMIN = 0 and VTIME > 0 for a
\* timeout, VMIN = 1 and VTIME = 0 without one.
Mode(timeout) == IF timeout THEN "timed" ELSE "blocking"

\* The settings the terminal may have after setTimeout(), which had setting
\* before: nobody looks at the result of tcsetattr().
SetTimeout(timeout, before) ==
  {Mode(timeout)} \cup (IF SettingsMayFail THEN {before} ELSE {})

Unused == (1 .. MaxDescriptors) \ descriptors

(***************************************************************************)
(* openIO(), by the step at which it ends.  From the second step on there  *)
(* is a descriptor d, and held are the ones that are open with it.         *)
(***************************************************************************)
openFails ==
  /\ m_Device' = -1
  /\ descriptors' = descriptors
  /\ UNCHANGED <<tty, waiting>>

\* Mutant of tcgetattrFails: the descriptor is not closed.
tcgetattrFailsOpen(d, held) ==
  /\ m_Device' = -1
  /\ descriptors' = held
  /\ UNCHANGED <<tty, waiting>>

tcgetattrFails(d, held) ==
  /\ m_Device' = -1
  /\ descriptors' = held \ {d}
  /\ UNCHANGED <<tty, waiting>>

\* Mutants of tcsetattrFails: the descriptor is not closed; it is closed but
\* stays in m_Device.
tcsetattrFailsOpen(d, held) ==
  /\ m_Device' = -1
  /\ descriptors' = held
  /\ UNCHANGED <<tty, waiting>>
tcsetattrFailsKnown(d, held) ==
  /\ m_Device' = d
  /\ descriptors' = held \ {d}
  /\ UNCHANGED <<tty, waiting>>

tcsetattrFails(d, held) ==
  /\ m_Device' = -1
  /\ descriptors' = held \ {d}
  /\ UNCHANGED <<tty, waiting>>

\* The settings are accepted: the terminal is blocking, then the timeout stored
\* so far is set.  ScannerSickS300::open() sets its own timeout and purges.
opens(d, held) ==
  /\ m_Device' = d
  /\ descriptors' = held
  /\ \E setting \in SetTimeout(m_Timeout, "blocking") :
       tty' \in SetTimeout(TRUE, setting)
  /\ waiting' = 0

\* ScannerSickS300::open(): openIO(), setTimeout(kReadTimeoutSec) whether it
\* failed or not, and purge() if it did not.  The descriptor that m_Device held
\* is overwritten, not closed.
open ==
  /\ overwritten' = overwritten \cup ({m_Device} \ {-1})
  /\ \/ openFails
     \/ /\ Unused # {}
        /\ LET d == Min(Unused)
               held == descriptors \cup {d}
           IN tcgetattrFails(d, held) \/ tcsetattrFails(d, held) \/ opens(d, held)
  /\ m_Timeout' = TRUE
  /\ UNCHANGED reading

closeIO ==
  /\ m_Device' = -1
  /\ descriptors' = descriptors \ {m_Device}
  /\ UNCHANGED <<m_Timeout, overwritten, tty, waiting, reading>>

-----------------------------------------------------------------------------
bytesArrive ==
  /\ descriptors # {}
  /\ waiting < MaxBytes
  /\ waiting' = waiting + 1
  /\ UNCHANGED <<portVars, reading>>

readBlocking ==
  /\ ~reading
  /\ reading' = TRUE
  /\ UNCHANGED <<portVars, waiting>>

\* read() returns n: bytes, 0 or -1.
readReturns(n) ==
  /\ reading
  /\ reading' = FALSE
  /\ waiting' = IF n > 0 THEN waiting - n ELSE waiting
  /\ UNCHANGED portVars

\* Bytes are there, or the timer of the terminal runs out.
readSucceeds(n) == m_Device # -1 /\ n \in 1 .. waiting /\ readReturns(n)

readTimesOut == m_Device # -1 /\ waiting = 0 /\ tty = "timed" /\ readReturns(0)

\* A descriptor that is not open is an error, and read() may fail at any time,
\* for instance because the adapter was unplugged.
readFails == readReturns(-1)

SerialTypeOK ==
  /\ m_Device \in {-1} \cup (1 .. MaxDescriptors)
  /\ m_Timeout \in BOOLEAN
  /\ descriptors \subseteq 1 .. MaxDescriptors
  /\ overwritten \subseteq 1 .. MaxDescriptors
  /\ tty \in {"blocking", "timed"}
  /\ waiting \in 0 .. MaxBytes
  /\ reading \in BOOLEAN
=============================================================================
