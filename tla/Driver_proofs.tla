---------------------------- MODULE Driver_proofs ----------------------------
(***************************************************************************)
(* Proofs that the driver, with its serial port and its reads that take    *)
(* time, implements the node of module SickS300, so that all that is       *)
(* proved of the node holds of it, and of the safety properties of the     *)
(* port: for any number of descriptors, bytes, telegrams and activations,  *)
(* and also when the terminal refuses its settings.                        *)
(***************************************************************************)
EXTENDS Driver, FiniteSetTheorems, WellFoundedInduction, TLAPS

\* The node and its theorems, over the port of the driver.
NodeProofs == INSTANCE SickS300_topics_proofs WITH port <- Port

-----------------------------------------------------------------------------
(***************************************************************************)
(* A set of natural numbers between 1 and n has a smallest element.        *)
(***************************************************************************)
LEMMA MinInSet ==
  ASSUME NEW n \in Nat, NEW S \in SUBSET (1 .. n), S # {}
  PROVE  Min(S) \in S
<1> DEFINE UpTo(x) == {y \in S : y <= x}
<1> DEFINE Initial == {UpTo(x) : x \in S}
<1>1. IsFiniteSet(S)
  <2>1. \A s \in S : s <= n
    OBVIOUS
  <2>2. S \in SUBSET Nat
    OBVIOUS
  <2>3. QED
    BY <2>1, <2>2, FS_BoundedSetOfNaturals
<1>2. IsWellFoundedOn(StrictSubsetOrdering(S), SUBSET S)
  BY <1>1, FS_StrictSubsetOrderingWellFounded, FS_FiniteSubsetsOfFinite
<1>3. PICK T \in Initial :
        \A U \in Initial : <<U, T>> \notin StrictSubsetOrdering(S)
  <2>1. Initial \subseteq SUBSET S /\ Initial # {}
    OBVIOUS
  <2> HIDE DEF Initial
  <2>2. QED
    BY <1>2, <2>1, WFMin
<1>4. PICK x \in S : T = UpTo(x)
  OBVIOUS
<1>5. ASSUME NEW y \in S, y < x PROVE FALSE
  <2>1. \A z \in S : z <= y => z <= x
    BY <1>5
  <2>2. x \in UpTo(x) /\ x \notin UpTo(y) /\ UpTo(y) \subseteq UpTo(x)
    <3>1. x <= x /\ ~(x <= y)
      BY <1>5
    <3>2. QED
      BY <2>1, <3>1
  <2>3. UpTo(y) \in Initial /\ UpTo(y) \in SUBSET S /\ UpTo(x) \in SUBSET S
    OBVIOUS
  <2> HIDE DEF UpTo, Initial
  <2>4. <<UpTo(y), UpTo(x)>> \in StrictSubsetOrdering(S)
    BY <2>2, <2>3 DEF StrictSubsetOrdering
  <2>5. QED
    BY <1>3, <1>4, <2>3, <2>4
<1>6. \A y \in S : x <= y
  BY <1>5
<1>7. QED
  BY <1>6 DEF Min

\* A descriptor that open() gives is one the process did not hold.
LEMMA MinUnused ==
  ASSUME Unused # {} PROVE Min(Unused) \in Unused
  BY MinInSet, BoundsAssumption DEF Unused

-----------------------------------------------------------------------------
(***************************************************************************)
(* The node of Driver and the one the theorems of SickS300_proofs speak of *)
(* are instances of the same definitions.                                  *)
(***************************************************************************)
LEMMA SameActions ==
  /\ Node!on_configure => NodeProofs!on_configure
  /\ Node!on_activate => NodeProofs!on_activate
  /\ Node!on_deactivate => NodeProofs!on_deactivate
  /\ Node!onDeactivateJoins => NodeProofs!onDeactivateJoins
  /\ Node!on_cleanup => NodeProofs!on_cleanup
  /\ Node!on_shutdown => NodeProofs!on_shutdown
  /\ Node!destroy => NodeProofs!destroy
  /\ Node!destroyJoins => NodeProofs!destroyJoins
  /\ Node!receiveScanTake => NodeProofs!receiveScanTake
  /\ Node!receiveScanReport => NodeProofs!receiveScanReport
  /\ Node!produceDiagnostics => NodeProofs!produceDiagnostics
  /\ Node!acquisitionLoopTests => NodeProofs!acquisitionLoopTests
  /\ Node!acquisitionLoopReads => NodeProofs!acquisitionLoopReads
  /\ Node!acquisitionLoopHandsOff => NodeProofs!acquisitionLoopHandsOff
  /\ Node!scannerSends => NodeProofs!scannerSends
  /\ Node!Tick => NodeProofs!Tick
<1> USE DEF Node!sourceVars, NodeProofs!sourceVars, Node!nodeVars,
            NodeProofs!nodeVars, Node!threadVars, NodeProofs!threadVars,
            Node!mailboxVars, NodeProofs!mailboxVars, Node!localVars,
            NodeProofs!localVars, Node!observerVars, NodeProofs!observerVars
<1>1. Node!on_configure => NodeProofs!on_configure
  BY DEF Node!on_configure, NodeProofs!on_configure, Node!onConfigureThrows,
         NodeProofs!onConfigureThrows, Node!onConfigureOpens,
         NodeProofs!onConfigureOpens, Node!openSucceeds,
         NodeProofs!openSucceeds, Node!openFails, NodeProofs!openFails
<1>2. Node!on_activate => NodeProofs!on_activate
  BY DEF Node!on_activate, NodeProofs!on_activate, Node!PendingScan,
         NodeProofs!PendingScan, Node!NoTelegram, NodeProofs!NoTelegram
<1>3. Node!on_deactivate => NodeProofs!on_deactivate
  BY DEF Node!on_deactivate, NodeProofs!on_deactivate, Node!stopAcquisition,
         NodeProofs!stopAcquisition
<1>4. Node!onDeactivateJoins => NodeProofs!onDeactivateJoins
  BY DEF Node!onDeactivateJoins, NodeProofs!onDeactivateJoins,
         Node!deactivated, NodeProofs!deactivated, Node!Joined,
         NodeProofs!Joined
<1>5. Node!on_cleanup => NodeProofs!on_cleanup
  BY DEF Node!on_cleanup, NodeProofs!on_cleanup, Node!releasePointers,
         NodeProofs!releasePointers
<1>6. Node!on_shutdown => NodeProofs!on_shutdown
  BY DEF Node!on_shutdown, NodeProofs!on_shutdown, Node!releasePointers,
         NodeProofs!releasePointers
<1>7. Node!destroy => NodeProofs!destroy
  BY DEF Node!destroy, NodeProofs!destroy, Node!stopAcquisition,
         NodeProofs!stopAcquisition
<1>8. Node!destroyJoins => NodeProofs!destroyJoins
  BY DEF Node!destroyJoins, NodeProofs!destroyJoins, Node!Joined,
         NodeProofs!Joined, Node!releasePointers, NodeProofs!releasePointers,
         Node!closeIO, NodeProofs!closeIO
<1>9. Node!receiveScanTake => NodeProofs!receiveScanTake
  BY DEF Node!receiveScanTake, NodeProofs!receiveScanTake, Node!PendingScan,
         NodeProofs!PendingScan, Node!NoTelegram, NodeProofs!NoTelegram
<1>10. Node!receiveScanReport => NodeProofs!receiveScanReport
  BY DEF Node!receiveScanReport, NodeProofs!receiveScanReport, Node!reportScan,
         NodeProofs!reportScan, Node!publishScan, NodeProofs!publishScan,
         Node!Discarded, NodeProofs!Discarded, Node!TimedOut,
         NodeProofs!TimedOut, Node!PendingScan, NodeProofs!PendingScan,
         Node!NoTelegram, NodeProofs!NoTelegram
<1>11. Node!produceDiagnostics => NodeProofs!produceDiagnostics
  BY DEF Node!produceDiagnostics, NodeProofs!produceDiagnostics
<1>12. Node!acquisitionLoopTests => NodeProofs!acquisitionLoopTests
  BY DEF Node!acquisitionLoopTests, NodeProofs!acquisitionLoopTests
<1>13. Node!acquisitionLoopReads => NodeProofs!acquisitionLoopReads
  BY DEF Node!acquisitionLoopReads, NodeProofs!acquisitionLoopReads,
         Node!getScanReturnsTrue, NodeProofs!getScanReturnsTrue,
         Node!getScanReturnsFalse, NodeProofs!getScanReturnsFalse,
         Node!LaterThan, NodeProofs!LaterThan
<1>14. Node!acquisitionLoopHandsOff => NodeProofs!acquisitionLoopHandsOff
  BY DEF Node!acquisitionLoopHandsOff, NodeProofs!acquisitionLoopHandsOff
<1>15. Node!scannerSends => NodeProofs!scannerSends
  BY DEF Node!scannerSends, NodeProofs!scannerSends, Node!Capture,
         NodeProofs!Capture
<1>16. Node!Tick => NodeProofs!Tick
  BY DEF Node!Tick, NodeProofs!Tick, Node!Older, NodeProofs!Older
<1>17. QED
  BY <1>1, <1>2, <1>3, <1>4, <1>5, <1>6, <1>7, <1>8, <1>9, <1>10, <1>11, <1>12,
     <1>13, <1>14, <1>15, <1>16

LEMMA SameInit == Node!Init => NodeProofs!Init
  BY DEF Node!Init, NodeProofs!Init, Node!SourceInit, NodeProofs!SourceInit,
         Node!PendingScan, NodeProofs!PendingScan, Node!NoTelegram,
         NodeProofs!NoTelegram

\* A step that leaves the node and its port alone is a stutter of the node.
LEMMA QuietStep ==
  UNCHANGED <<nodeVars, Port>> => UNCHANGED NodeProofs!vars
  BY DEF nodeVars, NodeProofs!vars, NodeProofs!sourceVars, NodeProofs!nodeVars,
         NodeProofs!threadVars, NodeProofs!mailboxVars, NodeProofs!localVars,
         NodeProofs!observerVars

(***************************************************************************)
(* Every step of the driver is a step of the node or a stutter.            *)
(***************************************************************************)
LEMMA NodeStep == [Next]_vars => [NodeProofs!Next]_(NodeProofs!vars)
<1> SUFFICES ASSUME [Next]_vars
             PROVE  NodeProofs!Next \/ UNCHANGED NodeProofs!vars
  OBVIOUS
<1> USE SameActions DEF NodeProofs!Next, NodeProofs!lifecycleCallback,
                        NodeProofs!receiveScan, NodeProofs!acquisitionLoop
<1>1. CASE on_configure
  BY <1>1 DEF on_configure
<1>2. CASE otherCallback
  BY <1>2 DEF otherCallback
<1>3. CASE onDeactivateJoins
  BY <1>3 DEF onDeactivateJoins
<1>4. CASE destroyJoins
  BY <1>4 DEF destroyJoins
<1>5. CASE receiveScanTake \/ receiveScanReport
  BY <1>5 DEF receiveScanTake, receiveScanReport
<1>6. CASE produceDiagnostics
  BY <1>6 DEF produceDiagnostics
<1>7. CASE acquisitionLoop \/ getScanFails
  <2>1. CASE getScanReads
    BY <2>1, QuietStep DEF getScanReads, readBlocking, portVars, Port
  <2>2. QED
    BY <1>7, <2>1 DEF acquisitionLoop, getScanFails, getScanReturns, getScanGoesOn
<1>8. CASE scannerSends
  BY <1>8 DEF scannerSends
<1>9. CASE noiseArrives
  BY <1>9, QuietStep DEF noiseArrives, bytesArrive, portVars, Port
<1>10. CASE Tick
  BY <1>10 DEF Tick
<1>11. CASE UNCHANGED vars
  BY <1>11, QuietStep DEF vars, serialVars, portVars, Port
<1>12. QED
  BY <1>1, <1>2, <1>3, <1>4, <1>5, <1>6, <1>7, <1>8, <1>9, <1>10, <1>11 DEF Next

\* The invariant of the node is one of the driver.
LEMMA NodeInvInit == Init => NodeProofs!IInv
  BY SameInit, NodeProofs!InitIInv, NodeAssumption DEF Init

LEMMA NodeInvStep == NodeProofs!IInv /\ [Next]_vars => NodeProofs!IInv'
  BY NodeStep, NodeProofs!IInvStep, NodeAssumption

-----------------------------------------------------------------------------
(***************************************************************************)
(* The inductive invariant: what is known of the node, and of the port.    *)
(***************************************************************************)

\* An open port is one whose reads time out, if its settings were accepted.
TerminalTimed == m_Device # -1 /\ ~SettingsMayFail => tty = "timed"

PortInv ==
  /\ SerialTypeOK
  /\ DeviceIsOpen
  /\ OnlyOverwrittenLeak
  /\ reading => acquisition_thread = "read"
  /\ TerminalTimed

IInv == NodeProofs!IInv /\ PortInv

\* Where a callback opens or closes the port, or ends the join, no read waits.
LEMMA NobodyReads ==
  ASSUME IInv
  PROVE  /\ lifecycle \in {"unconfigured", "inactive"} => ~reading
         /\ acquisition_thread # "read" => ~reading
  BY DEF IInv, PortInv, NodeProofs!IInv, NodeProofs!Structure

LEMMA InitPortInv == Init => PortInv
<1> SUFFICES ASSUME Init PROVE PortInv
  OBVIOUS
<1>1. m_Device = -1 /\ waiting = 0
  BY DEF Init, SerialInit
<1>2. /\ m_Timeout = FALSE /\ descriptors = {} /\ overwritten = {}
      /\ tty = "blocking" /\ reading = FALSE
  BY DEF Init, SerialInit
<1>3. waiting \in 0 .. MaxBytes
  BY <1>1, BoundsAssumption
<1>4. QED
  BY <1>1, <1>2, <1>3
     DEF PortInv, SerialTypeOK, DeviceIsOpen, OnlyOverwrittenLeak, TerminalTimed

\* An attempt that fails leaves what was open before and no descriptor in
\* m_Device, at whichever of its three steps it fails ...
LEMMA FailedOpenStep ==
  ASSUME PortInv,
         \/ openFails
         \/ /\ Unused # {}
            /\ \/ tcgetattrFails(Min(Unused), descriptors \cup {Min(Unused)})
               \/ tcsetattrFails(Min(Unused), descriptors \cup {Min(Unused)})
  PROVE  m_Device' = -1 /\ descriptors' = descriptors /\ UNCHANGED <<tty, waiting>>
<1>1. CASE openFails
  BY <1>1 DEF openFails
<1>2. CASE Unused # {} /\ ~openFails
  <2>1. Min(Unused) \notin descriptors
    BY <1>2, MinUnused DEF Unused
  <2>2. (descriptors \cup {Min(Unused)}) \ {Min(Unused)} = descriptors
    BY <2>1
  <2>3. QED
    BY <1>2, <2>2 DEF tcgetattrFails, tcsetattrFails
<1>3. QED
  BY <1>1, <1>2

\* ... and one that succeeds adds a descriptor that was not open, and a
\* terminal whose reads time out.
LEMMA OpenStep ==
  ASSUME PortInv, open
  PROVE  SerialTypeOK' /\ DeviceIsOpen' /\ OnlyOverwrittenLeak' /\ TerminalTimed'
<1> USE BoundsAssumption
    DEF PortInv, SerialTypeOK, DeviceIsOpen, OnlyOverwrittenLeak, TerminalTimed
<1> DEFINE d == Min(Unused)
           held == descriptors \cup {d}
<1>1. /\ overwritten' = overwritten \cup ({m_Device} \ {-1})
      /\ m_Timeout' \in BOOLEAN /\ UNCHANGED reading
  BY DEF open
<1>2. overwritten' = descriptors /\ overwritten' \subseteq 1 .. MaxDescriptors
  BY <1>1
<1>3. CASE \/ openFails
           \/ Unused # {} /\ (tcgetattrFails(d, held) \/ tcsetattrFails(d, held))
  <2>1. m_Device' = -1 /\ descriptors' = descriptors /\ UNCHANGED <<tty, waiting>>
    BY <1>3, FailedOpenStep
  <2>2. -1 \notin descriptors
    OBVIOUS
  <2>3. QED
    BY <1>1, <1>2, <2>1, <2>2
<1>4. CASE Unused # {} /\ opens(d, held)
  <2>1. d \in 1 .. MaxDescriptors /\ d \notin descriptors
    BY <1>4, MinUnused DEF Unused
  <2>2. m_Device' = d /\ descriptors' = descriptors \cup {d} /\ waiting' = 0
    BY <1>4 DEF opens
  <2>3. d # -1
    BY <2>1
  <2>4. SerialTypeOK'
    <3>1. tty' \in {"blocking", "timed"}
      BY <1>4 DEF opens, SetTimeout, Mode
    <3>2. waiting' \in 0 .. MaxBytes
      BY <2>2
    <3>3. QED
      BY <1>1, <1>2, <2>1, <2>2, <3>1, <3>2
  <2>5. ~SettingsMayFail => tty' = "timed"
    BY <1>4 DEF opens, SetTimeout, Mode
  <2>6. QED
    BY <1>2, <2>1, <2>2, <2>3, <2>4, <2>5
<1>5. QED
  BY <1>3, <1>4 DEF open

\* Closing the port closes the one descriptor that m_Device knows of.
LEMMA CloseStep ==
  ASSUME PortInv, closeIO
  PROVE  SerialTypeOK' /\ DeviceIsOpen' /\ OnlyOverwrittenLeak' /\ TerminalTimed'
<1> USE DEF PortInv, SerialTypeOK, DeviceIsOpen, OnlyOverwrittenLeak, TerminalTimed
<1>1. /\ m_Device' = -1 /\ descriptors' = descriptors \ {m_Device}
      /\ UNCHANGED <<m_Timeout, overwritten, tty, waiting, reading>>
  BY DEF closeIO
<1>2. descriptors' = overwritten
  BY <1>1
<1>3. -1 \notin overwritten
  OBVIOUS
<1>4. QED
  BY <1>1, <1>2, <1>3

\* A read that returns takes at most the bytes that waited.
LEMMA ReadStep ==
  ASSUME PortInv,
         readTimesOut \/ readFails \/ \E n \in 1 .. MaxBytes : readSucceeds(n)
  PROVE  PortInv'
<1> USE DEF PortInv, SerialTypeOK, DeviceIsOpen, OnlyOverwrittenLeak,
            TerminalTimed
<1>1. UNCHANGED portVars /\ reading' = FALSE
  BY DEF readSucceeds, readTimesOut, readFails, readReturns
<1>2. waiting' \in 0 .. MaxBytes
  BY BoundsAssumption DEF readSucceeds, readTimesOut, readFails, readReturns
<1>3. QED
  BY <1>1, <1>2 DEF portVars

\* The actions of the node leave a read alone, except for its own end.
LEMMA PortInvStep == IInv /\ [Next]_vars => PortInv'
<1> SUFFICES ASSUME IInv, [Next]_vars PROVE PortInv'
  OBVIOUS
<1> USE BoundsAssumption
    DEF IInv, PortInv, SerialTypeOK, DeviceIsOpen, OnlyOverwrittenLeak,
        TerminalTimed, serialVars, portVars
<1>1. CASE on_configure
  <2>1. ~reading
    BY <1>1, NobodyReads DEF on_configure, Node!on_configure
  <2>2. SerialTypeOK' /\ DeviceIsOpen' /\ OnlyOverwrittenLeak' /\ TerminalTimed'
    BY <1>1, OpenStep DEF on_configure
  <2>3. ~reading'
    BY <1>1, <2>1 DEF on_configure, open
  <2>4. QED
    BY <2>2, <2>3
<1>2. CASE otherCallback
  <2>1. reading => UNCHANGED acquisition_thread
    BY <1>2, NobodyReads
       DEF otherCallback, Node!on_activate, Node!on_deactivate, Node!on_cleanup,
           Node!on_shutdown, Node!destroy, Node!threadVars
  <2>2. QED
    BY <1>2, <2>1 DEF otherCallback
<1>3. CASE onDeactivateJoins
  BY <1>3, NobodyReads DEF onDeactivateJoins, Node!onDeactivateJoins, Node!Joined
<1>4. CASE destroyJoins
  <2>1. ~reading /\ ~reading'
    BY <1>4, NobodyReads DEF destroyJoins, closeIO, Node!destroyJoins, Node!Joined
  <2>2. SerialTypeOK' /\ DeviceIsOpen' /\ OnlyOverwrittenLeak' /\ TerminalTimed'
    BY <1>4, CloseStep DEF destroyJoins
  <2>3. QED
    BY <2>1, <2>2
<1>5. CASE receiveScanTake \/ receiveScanReport
  <2>1. UNCHANGED <<serialVars, acquisition_thread>>
    BY <1>5 DEF receiveScanTake, receiveScanReport, Node!receiveScanTake,
                Node!receiveScanReport, Node!reportScan, Node!threadVars
  <2>2. QED
    BY <2>1
<1>6. CASE produceDiagnostics
  BY <1>6 DEF produceDiagnostics, Node!produceDiagnostics, Node!threadVars
<1>7. CASE acquisitionLoop
  <2>1. CASE UNCHANGED serialVars
               /\ (Node!acquisitionLoopTests \/ Node!acquisitionLoopHandsOff)
    BY <2>1, NobodyReads
       DEF Node!acquisitionLoopTests, Node!acquisitionLoopHandsOff
  <2>2. CASE getScanReads
    BY <2>2 DEF getScanReads, readBlocking, nodeVars
  <2>3. CASE getScanReturns
    BY <2>3, ReadStep DEF getScanReturns
  <2>4. QED
    BY <1>7, <2>1, <2>2, <2>3 DEF acquisitionLoop
<1>8. CASE getScanFails
  BY <1>8, ReadStep DEF getScanFails
<1>9. CASE scannerSends \/ noiseArrives
  <2>1. UNCHANGED <<portVars, reading, acquisition_thread>>
    BY <1>9 DEF scannerSends, noiseArrives, bytesArrive, Node!scannerSends,
                Node!threadVars, nodeVars
  <2>2. waiting' \in 0 .. MaxBytes
    BY <1>9 DEF scannerSends, noiseArrives, bytesArrive
  <2>3. QED
    BY <2>1, <2>2
<1>10. CASE Tick
  BY <1>10 DEF Tick, Node!Tick, Node!threadVars
<1>11. CASE UNCHANGED vars
  BY <1>11 DEF vars, nodeVars
<1>12. QED
  BY <1>1, <1>2, <1>3, <1>4, <1>5, <1>6, <1>7, <1>8, <1>9, <1>10, <1>11 DEF Next

-----------------------------------------------------------------------------
(***************************************************************************)
(* The driver implements the node: its port, opened, read and closed as    *)
(* SerialIO does it, is one as SickS300 takes for granted.                 *)
(***************************************************************************)
THEOREM NodeImplemented == Spec => NodeProofs!Spec
<1>1. Init => NodeProofs!Init
  BY SameInit DEF Init
<1>2. QED
  BY <1>1, NodeStep, PTL DEF Spec, NodeProofs!Spec

(***************************************************************************)
(* What is published, from the bytes read through the port on, follows the *)
(* abstract specification of the topics: each scan once, the newest, and   *)
(* with the messages its telegram asks for.                                *)
(***************************************************************************)
THEOREM TopicsImplemented == Spec => NodeProofs!ImplementsTopics
  BY NodeImplemented, NodeProofs!TopicsImplemented, NodeAssumption

(***************************************************************************)
(* IInv, and with it the invariant of the node, holds in every behaviour   *)
(* of the driver.                                                          *)
(***************************************************************************)
THEOREM Invariance == Spec => []IInv
<1>1. Init => IInv
  BY NodeInvInit, InitPortInv DEF IInv
<1>2. IInv /\ [Next]_vars => IInv'
  BY NodeInvStep, PortInvStep DEF IInv
<1>3. QED
  BY <1>1, <1>2, PTL DEF Spec

(***************************************************************************)
(* Every variable of the driver keeps its type, and only the acquisition   *)
(* thread waits for a read.                                                *)
(***************************************************************************)
THEOREM TypeCorrect == Spec => []TypeOK
<1>1. NodeProofs!TypeOK => Node!TypeOK
  BY DEF Node!TypeOK, NodeProofs!TypeOK, Node!SourceTypeOK,
         NodeProofs!SourceTypeOK, Node!NodeTypeOK, NodeProofs!NodeTypeOK,
         Node!Telegram, NodeProofs!Telegram, Node!NoTelegram,
         NodeProofs!NoTelegram, Node!Scan, NodeProofs!Scan, Node!Messages,
         NodeProofs!Messages, Node!Ages, NodeProofs!Ages
<1>2. IInv => TypeOK
  BY <1>1 DEF IInv, PortInv, TypeOK, NodeProofs!IInv
<1>3. QED
  BY <1>2, Invariance, PTL

(***************************************************************************)
(* m_Device is -1 or a descriptor that the process holds open, whichever   *)
(* step of an attempt to open the port failed.                             *)
(***************************************************************************)
THEOREM DeviceOpen == Spec => []DeviceIsOpen
<1>1. IInv => DeviceIsOpen
  BY DEF IInv, PortInv
<1>2. QED
  BY <1>1, Invariance, PTL

(***************************************************************************)
(* The descriptors that are open are m_Device's and those a later openIO() *)
(* overwrote, and no others: each of the three failing steps of openIO()   *)
(* closes what was opened before it, in any sequence of configurations,    *)
(* for any number of descriptors.                                          *)
(***************************************************************************)
THEOREM OnlyOverwritten == Spec => []OnlyOverwrittenLeak
<1>1. IInv => OnlyOverwrittenLeak
  BY DEF IInv, PortInv
<1>2. QED
  BY <1>1, Invariance, PTL

(***************************************************************************)
(* Nobody opens, closes or reconfigures the port under a waiting read, in  *)
(* any sequence of callbacks.                                              *)
(***************************************************************************)
THEOREM PortStays == Spec => PortStaysWhileReading
<1>1. IInv /\ [Next]_vars => [reading => UNCHANGED portVars]_vars
  <2> SUFFICES ASSUME IInv, Next, reading
               PROVE  UNCHANGED portVars
    OBVIOUS
  <2> USE DEF serialVars
  <2>1. ~on_configure
    BY NobodyReads DEF on_configure, Node!on_configure
  <2>2. ~destroyJoins
    BY NobodyReads DEF destroyJoins, Node!destroyJoins, Node!Joined
  <2>3. CASE acquisitionLoop \/ getScanFails
    BY <2>3 DEF acquisitionLoop, getScanFails, getScanReads, readBlocking,
                getScanReturns, readSucceeds, readTimesOut, readFails, readReturns
  <2>4. QED
    BY <2>1, <2>2, <2>3
       DEF Next, otherCallback, onDeactivateJoins, receiveScanTake,
           receiveScanReport, produceDiagnostics, scannerSends, noiseArrives,
           bytesArrive, Tick
<1>2. QED
  BY <1>1, Invariance, PTL DEF Spec, PortStaysWhileReading

(***************************************************************************)
(* A read that waits is one the terminal ends: its port is open and timed, *)
(* for any number of openings that failed or succeeded before.             *)
(***************************************************************************)
THEOREM ReadEnds == Spec => []ReadEndsByItself
<1>1. IInv => ReadEndsByItself
  <2> SUFFICES ASSUME IInv, reading, ~SettingsMayFail
               PROVE  acquisition_thread = "read" /\ m_Device # -1 /\ tty = "timed"
    BY DEF ReadEndsByItself
  <2>1. acquisition_thread = "read"
    BY DEF IInv, PortInv
  <2>2. Port = "open"
    BY <2>1 DEF IInv, NodeProofs!IInv, NodeProofs!Structure,
                NodeProofs!ReadsOpenPort
  <2>3. m_Device # -1
    BY <2>2 DEF Port
  <2>4. tty = "timed"
    BY <2>3 DEF IInv, PortInv, TerminalTimed
  <2>5. QED
    BY <2>1, <2>3, <2>4
<1>2. QED
  BY <1>1, Invariance, PTL

(***************************************************************************)
(* Whoever joins the acquisition thread waits for at most five of its      *)
(* steps: it was told to stop, it never goes back to an earlier one, and   *)
(* nobody starts it anew.                                                  *)
(***************************************************************************)
THEOREM JoinEnds == Spec => JoinedThreadEnds
<1> DEFINE Nearer == StepsLeft' < StepsLeft \/ UNCHANGED acquisitionVars
<1>1. IInv /\ [Next]_vars => [Joining => Nearer]_vars
  <2> SUFFICES ASSUME IInv, Next, Joining
               PROVE  Nearer
    OBVIOUS
  <2> USE DEF acquisitionVars, serialVars
  <2>1. executor # "idle" /\ executor # "reporting" /\ ~acquisition_running
    BY DEF Joining, IInv, NodeProofs!IInv, NodeProofs!Structure
  <2>2. reading \in BOOLEAN /\ (reading => acquisition_thread = "read")
    BY DEF IInv, PortInv, SerialTypeOK
  <2>3. CASE onDeactivateJoins \/ destroyJoins
    <3>1. acquisition_thread' = "none" /\ UNCHANGED reading
      BY <2>3 DEF onDeactivateJoins, destroyJoins, closeIO,
                  Node!onDeactivateJoins, Node!destroyJoins
    <3>2. acquisition_thread \in {"none", "returned"}
      BY <2>3 DEF onDeactivateJoins, destroyJoins, Node!onDeactivateJoins,
                  Node!destroyJoins, Node!Joined
    <3>3. QED
      BY <3>1, <3>2 DEF StepsLeft
  <2>4. CASE acquisitionLoop \/ getScanFails
    <3>1. CASE UNCHANGED serialVars /\ Node!acquisitionLoopTests
      BY <2>1, <3>1 DEF Node!acquisitionLoopTests, StepsLeft
    <3>2. CASE UNCHANGED serialVars /\ Node!acquisitionLoopHandsOff
      BY <3>2 DEF Node!acquisitionLoopHandsOff, StepsLeft
    <3>3. CASE getScanReads
      BY <3>3 DEF getScanReads, readBlocking, nodeVars, StepsLeft
    <3>4. CASE getScanReturns \/ getScanFails
      <4>1. reading /\ ~reading' /\ Node!acquisitionLoopReads
        BY <3>4 DEF getScanReturns, getScanFails, getScanGoesOn, readSucceeds,
                    readTimesOut, readFails, readReturns
      <4>2. acquisition_thread = "read" /\ acquisition_thread' \in {"handoff", "check"}
        BY <4>1 DEF Node!acquisitionLoopReads
      <4>3. StepsLeft = 4 /\ StepsLeft' \in {2, 3}
        BY <4>1, <4>2 DEF StepsLeft
      <4>4. QED
        BY <4>3
    <3>5. QED
      BY <2>4, <3>1, <3>2, <3>3, <3>4 DEF acquisitionLoop
  <2>5. CASE scannerSends \/ noiseArrives
    BY <2>5 DEF scannerSends, noiseArrives, bytesArrive, Node!scannerSends,
                Node!threadVars, nodeVars
  <2>6. CASE Tick
    BY <2>6 DEF Tick, Node!Tick, Node!threadVars
  <2>7. ~on_configure /\ ~otherCallback /\ ~receiveScanTake
          /\ ~receiveScanReport /\ ~produceDiagnostics
    BY <2>1
       DEF on_configure, otherCallback, receiveScanTake, receiveScanReport,
           produceDiagnostics, Node!on_configure, Node!on_activate,
           Node!on_deactivate, Node!on_cleanup, Node!on_shutdown, Node!destroy,
           Node!receiveScanTake, Node!receiveScanReport, Node!reportScan,
           Node!produceDiagnostics
  <2>8. QED
    BY <2>3, <2>4, <2>5, <2>6, <2>7 DEF Next
<1>2. QED
  BY <1>1, Invariance, PTL DEF Spec, JoinedThreadEnds
=============================================================================
