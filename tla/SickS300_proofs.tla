-------------------------- MODULE SickS300_proofs ---------------------------
(***************************************************************************)
(* Proofs that IInv is an inductive invariant of SickS300, and of the      *)
(* safety properties that follow from it, for any telegrams, any bound on  *)
(* them and on the activations, and any communication timeout.             *)
(***************************************************************************)
EXTENDS SickS300, TLAPS

\* The empty mailbox is a scan.
LEMMA PendingScanType == PendingScan \in Scan
  BY DEF PendingScan, Scan

\* Ages stay in their range, and keep their order, as time passes.
LEMMA OlderType ==
  /\ 0 \in Ages
  /\ \A a \in Ages : Older(a) \in Ages
  /\ \A a, b \in Ages : a <= b => Older(a) <= Older(b)
  BY TimeoutAssumption DEF Ages, Older

\* The initial state satisfies the invariant.
LEMMA InitIInv == Init => IInv
<1> SUFFICES ASSUME Init PROVE IInv
  OBVIOUS
<1>1. TypeOK
  BY PendingScanType, OlderType DEF Init, SourceInit, TypeOK, NodeTypeOK,
     SourceTypeOK, Messages
<1> USE DEF Init, SourceInit, PendingScan, NoTelegram
<1>2. Structure
  BY DEF Structure, NeverAborts, ReadsOpenPort
<1>3. Ordered
  BY DEF Ordered, Between
<1>4. Faithful
  BY DEF Faithful
<1>5. PublishesWhatWasScanned
  BY DEF PublishesWhatWasScanned
<1>6. QED
  BY <1>1, <1>2, <1>3, <1>4, <1>5 DEF IInv
\* What each step does to the scanner and the line has the right type.
LEMMA SourceTypeStep == SourceTypeOK /\ [SourceNext]_sourceVars => SourceTypeOK'
<1> SUFFICES ASSUME SourceTypeOK, [SourceNext]_sourceVars PROVE SourceTypeOK'
  OBVIOUS
<1> USE DEF SourceTypeOK
<1>1. ASSUME NEW kind \in Kinds, Capture(kind) PROVE SourceTypeOK'
  BY <1>1 DEF Capture, Telegram
<1>2. CASE openSucceeds
  BY <1>2 DEF openSucceeds
<1>3. CASE openFails
  BY <1>3 DEF openFails
<1>4. CASE closeIO
  BY <1>4 DEF closeIO
<1>5. CASE getScanReturnsTrue
  <2>1. PICK t \in line : got' = t /\ line' = LaterThan(t)
    BY <1>5 DEF getScanReturnsTrue
  <2>2. t \in Telegram /\ LaterThan(t) \subseteq Telegram
    BY DEF LaterThan
  <2>3. in_standby' \in BOOLEAN
    BY <1>5 DEF getScanReturnsTrue
  <2>4. QED
    BY <1>5, <2>1, <2>2, <2>3 DEF getScanReturnsTrue
<1>6. CASE getScanReturnsFalse
  BY <1>6 DEF getScanReturnsFalse, LaterThan
<1>7. CASE UNCHANGED sourceVars
  BY <1>7 DEF sourceVars
<1>8. QED
  BY <1>1, <1>2, <1>3, <1>4, <1>5, <1>6, <1>7 DEF SourceNext

\* Every step of the node is a step of the scanner and the line, or leaves
\* them alone.
LEMMA SourceStep == [Next]_vars => [SourceNext]_sourceVars
<1> SUFFICES ASSUME [Next]_vars PROVE [SourceNext]_sourceVars
  OBVIOUS
<1>1. CASE on_configure
  BY <1>1 DEF on_configure, onConfigureThrows, onConfigureOpens, SourceNext
<1>2. CASE destroyJoins
  BY <1>2 DEF destroyJoins, SourceNext
<1>3. CASE acquisitionLoopReads
  BY <1>3 DEF acquisitionLoopReads, SourceNext
<1>4. CASE scannerSends
  BY <1>4 DEF scannerSends, SourceNext
<1>5. CASE \/ on_activate \/ on_deactivate \/ onDeactivateJoins \/ on_cleanup
           \/ on_shutdown \/ destroy \/ receiveScan \/ produceDiagnostics
           \/ acquisitionLoopTests \/ acquisitionLoopHandsOff \/ Tick
           \/ UNCHANGED vars
  BY <1>5 DEF on_activate, on_deactivate, onDeactivateJoins, deactivated,
     on_cleanup, on_shutdown, destroy, receiveScan, receiveScanTake,
     receiveScanReport, reportScan, produceDiagnostics, acquisitionLoopTests,
     acquisitionLoopHandsOff, Tick, vars
<1>6. QED
  BY <1>1, <1>2, <1>3, <1>4, <1>5 DEF Next, lifecycleCallback, receiveScan,
     acquisitionLoop

\* Every step keeps the types of the node.
LEMMA NodeTypeStep ==
  TypeOK /\ [Next]_vars => NodeTypeOK'
<1> SUFFICES ASSUME TypeOK, [Next]_vars PROVE NodeTypeOK'
  OBVIOUS
<1> USE DEF sourceVars, nodeVars, threadVars, mailboxVars, localVars,
          observerVars, TypeOK, NodeTypeOK
<1>1. CASE on_configure
  BY <1>1 DEF on_configure, onConfigureThrows, onConfigureOpens,
     openSucceeds, openFails
<1>2. CASE on_activate
  <2>1. ok_age' \in Ages /\ pending_scan' \in Scan /\ activation' \in Nat
    BY <1>2, PendingScanType, OlderType DEF on_activate
  <2>2. executor' \in {"idle", "aborted"}
    BY <1>2 DEF on_activate
  <2>3. QED
    BY <1>2, <2>1, <2>2 DEF on_activate
<1>3. CASE on_deactivate
  BY <1>3 DEF on_deactivate, stopAcquisition
<1>4. CASE onDeactivateJoins
  BY <1>4 DEF onDeactivateJoins, deactivated, Joined
<1>5. CASE on_cleanup
  BY <1>5 DEF on_cleanup, releasePointers
<1>6. CASE on_shutdown
  BY <1>6 DEF on_shutdown, releasePointers
<1>7. CASE destroy
  BY <1>7 DEF destroy, stopAcquisition
<1>8. CASE destroyJoins
  BY <1>8 DEF destroyJoins, Joined, releasePointers, closeIO
<1>9. CASE receiveScanTake
  BY <1>9, PendingScanType DEF receiveScanTake
<1>10. CASE receiveScanReport
  <2> USE DEF receiveScanReport, reportScan
  <2>1. scan' \in Scan /\ last_ok_age' \in Ages
    BY <1>10, PendingScanType, OlderType
  <2>2. executor' \in {"idle", "aborted"}
    BY <1>10 DEF publishScan
  <2>3. scanner_status' \in {"ok", "standby", "commError"}
    BY <1>10
  <2>4. published' \in Messages
    <3>1. CASE published' = published
      BY <3>1
    <3>2. CASE published' = [tel |-> scan.tel, in_standby |-> scan.in_standby,
                 laser |-> ~scan.in_standby /\ ~Discarded(scan.tel.kind)]
      <4>1. (~scan.in_standby /\ ~Discarded(scan.tel.kind)) \in BOOLEAN
        OBVIOUS
      <4>2. scan.tel \in Telegram \cup {NoTelegram} /\ scan.in_standby \in BOOLEAN
        BY DEF Scan
      <4>3. QED
        BY <3>2, <4>1, <4>2 DEF Messages
    <3>3. QED
      BY <1>10, <3>1, <3>2 DEF publishScan
  <2>5. QED
    BY <1>10, <2>1, <2>2, <2>3, <2>4
<1>11. CASE produceDiagnostics
  BY <1>11 DEF produceDiagnostics
<1>12. CASE acquisitionLoopTests
  BY <1>12 DEF acquisitionLoopTests
<1>13. CASE acquisitionLoopReads
  BY <1>13 DEF acquisitionLoopReads, getScanReturnsTrue,
     getScanReturnsFalse, LaterThan
<1>14. CASE acquisitionLoopHandsOff
  BY <1>14, OlderType DEF acquisitionLoopHandsOff, Scan, SourceTypeOK
<1>15. CASE scannerSends
  BY <1>15 DEF scannerSends, Capture
<1>16. CASE Tick
  BY <1>16, OlderType DEF Tick, SourceTypeOK
<1>17. CASE UNCHANGED vars
  BY <1>17 DEF vars
<1>18. QED
  BY <1>1, <1>2, <1>3, <1>4, <1>5, <1>6, <1>7, <1>8, <1>9, <1>10, <1>11,
     <1>12, <1>13, <1>14, <1>15, <1>16, <1>17 DEF Next, lifecycleCallback,
     receiveScan, acquisitionLoop

\* Every step keeps the types.
LEMMA TypeStep == TypeOK /\ [Next]_vars => TypeOK'
  BY SourceTypeStep, SourceStep, NodeTypeStep DEF TypeOK

\* Every step keeps the threads, the port and the objects in order.
LEMMA StructureStep ==
  IInv /\ [Next]_vars => Structure'
<1> SUFFICES ASSUME IInv, [Next]_vars PROVE Structure'
  OBVIOUS
<1> USE DEF sourceVars, nodeVars, threadVars, mailboxVars, localVars,
          observerVars, IInv, Structure, NeverAborts, ReadsOpenPort
<1>1. CASE on_configure
  BY <1>1 DEF on_configure, onConfigureThrows, onConfigureOpens,
     openSucceeds, openFails
<1>2. CASE on_activate
  BY <1>2 DEF on_activate
<1>3. CASE on_deactivate
  BY <1>3 DEF on_deactivate, stopAcquisition
<1>4. CASE onDeactivateJoins
  BY <1>4 DEF onDeactivateJoins, deactivated, Joined
<1>5. CASE on_cleanup
  BY <1>5 DEF on_cleanup, releasePointers
<1>6. CASE on_shutdown
  BY <1>6 DEF on_shutdown, releasePointers
<1>7. CASE destroy
  BY <1>7 DEF destroy, stopAcquisition
<1>8. CASE destroyJoins
  BY <1>8 DEF destroyJoins, Joined, releasePointers, closeIO
<1>9. CASE receiveScanTake
  BY <1>9 DEF receiveScanTake, TypeOK, NodeTypeOK, Ages
<1>10. CASE receiveScanReport
  BY <1>10 DEF receiveScanReport, reportScan, publishScan, TimedOut
<1>11. CASE produceDiagnostics
  BY <1>11 DEF produceDiagnostics
<1>12. CASE acquisitionLoopTests
  BY <1>12 DEF acquisitionLoopTests
<1>13. CASE acquisitionLoopReads
  BY <1>13 DEF acquisitionLoopReads, getScanReturnsTrue,
     getScanReturnsFalse, LaterThan
<1>14. CASE acquisitionLoopHandsOff
  BY <1>14 DEF acquisitionLoopHandsOff, TypeOK, NodeTypeOK, Ages
<1>15. CASE scannerSends
  BY <1>15 DEF scannerSends, Capture
<1>16. CASE Tick
  BY <1>16, OlderType DEF Tick, TypeOK, NodeTypeOK
<1>17. CASE UNCHANGED vars
  BY <1>17 DEF vars
<1>18. QED
  BY <1>1, <1>2, <1>3, <1>4, <1>5, <1>6, <1>7, <1>8, <1>9, <1>10, <1>11,
     <1>12, <1>13, <1>14, <1>15, <1>16, <1>17 DEF Next, lifecycleCallback,
     receiveScan, acquisitionLoop

\* Every step keeps the scans in order.
LEMMA OrderedStep ==
  IInv /\ [Next]_vars => Ordered'
<1> SUFFICES ASSUME IInv, [Next]_vars PROVE Ordered'
  OBVIOUS
<1> USE DEF sourceVars, nodeVars, threadVars, mailboxVars, localVars,
          observerVars, IInv, Ordered, Between
<1>1. CASE on_configure
  BY <1>1 DEF on_configure, onConfigureThrows, onConfigureOpens,
     openSucceeds, openFails, TypeOK, NodeTypeOK
<1>2. CASE on_activate
  BY <1>2 DEF on_activate, Structure, PendingScan, TypeOK, NodeTypeOK
<1>3. CASE on_deactivate
  BY <1>3 DEF on_deactivate, stopAcquisition
<1>4. CASE onDeactivateJoins
  BY <1>4 DEF onDeactivateJoins, deactivated, Joined
<1>5. CASE on_cleanup
  BY <1>5 DEF on_cleanup, releasePointers
<1>6. CASE on_shutdown
  BY <1>6 DEF on_shutdown, releasePointers
<1>7. CASE destroy
  BY <1>7 DEF destroy, stopAcquisition
<1>8. CASE destroyJoins
  BY <1>8 DEF destroyJoins, Joined, releasePointers, closeIO
<1>9. CASE receiveScanTake
  BY <1>9 DEF receiveScanTake, PendingScan
<1>10. CASE receiveScanReport
  BY <1>10 DEF receiveScanReport, reportScan, publishScan, TimedOut,
     PendingScan, TypeOK, NodeTypeOK, Structure
<1>11. CASE produceDiagnostics
  BY <1>11 DEF produceDiagnostics
<1>12. CASE acquisitionLoopTests
  BY <1>12 DEF acquisitionLoopTests
<1>13. CASE acquisitionLoopReads
  <2> USE DEF acquisitionLoopReads
  <2>1. CASE getScanReturnsTrue /\ acquisition_thread' = "handoff"
    <3>1. PICK t \in line : got' = t /\ line' = {u \in line : u.id > t.id}
      BY <2>1 DEF getScanReturnsTrue, LaterThan
    <3>2. /\ t.id \in Nat /\ got.id \in Nat /\ captured \in Nat
          /\ \A u \in line : u.id \in Nat
      BY DEF TypeOK, SourceTypeOK, Telegram, NoTelegram
    <3>3. /\ published.tel.id \in Nat
          /\ scan.tel.id \in Nat /\ scan.valid \in BOOLEAN
          /\ pending_scan.tel.id \in Nat /\ pending_scan.valid \in BOOLEAN
      BY DEF TypeOK, NodeTypeOK, Messages, Scan, Telegram, NoTelegram
    <3>4. captured' = captured /\ got.id < t.id /\ t.id <= captured
      BY <2>1, <3>1 DEF getScanReturnsTrue
    <3>5. QED
      BY <1>13, <2>1, <3>1, <3>2, <3>3, <3>4
  <2>2. CASE getScanReturnsFalse /\ acquisition_thread' = "check"
    BY <1>13, <2>2 DEF getScanReturnsFalse, LaterThan
  <2>3. QED
    BY <1>13, <2>1, <2>2
<1>14. CASE acquisitionLoopHandsOff
  BY <1>14 DEF acquisitionLoopHandsOff, TypeOK, NodeTypeOK, SourceTypeOK,
     Telegram, NoTelegram, Scan
<1>15. CASE scannerSends
  BY <1>15 DEF scannerSends, Capture, TypeOK, NodeTypeOK, SourceTypeOK,
     Telegram, NoTelegram
<1>16. CASE Tick
  BY <1>16 DEF Tick
<1>17. CASE UNCHANGED vars
  BY <1>17 DEF vars
<1>18. QED
  BY <1>1, <1>2, <1>3, <1>4, <1>5, <1>6, <1>7, <1>8, <1>9, <1>10, <1>11,
     <1>12, <1>13, <1>14, <1>15, <1>16, <1>17 DEF Next, lifecycleCallback,
     receiveScan, acquisitionLoop

\* Every step keeps the scans faithful to their telegrams.
LEMMA FaithfulStep ==
  IInv /\ [Next]_vars => Faithful'
<1> SUFFICES ASSUME IInv, [Next]_vars PROVE Faithful'
  OBVIOUS
<1> USE DEF sourceVars, nodeVars, threadVars, mailboxVars, localVars,
          observerVars, IInv, Faithful, TellsStandby
<1>1. CASE on_configure
  BY <1>1 DEF on_configure, onConfigureThrows, onConfigureOpens,
     openSucceeds, openFails
<1>2. CASE on_activate
  BY <1>2 DEF on_activate, Structure, PendingScan
<1>3. CASE on_deactivate
  BY <1>3 DEF on_deactivate, stopAcquisition
<1>4. CASE onDeactivateJoins
  BY <1>4 DEF onDeactivateJoins, deactivated, Joined
<1>5. CASE on_cleanup
  BY <1>5 DEF on_cleanup, releasePointers
<1>6. CASE on_shutdown
  BY <1>6 DEF on_shutdown, releasePointers
<1>7. CASE destroy
  BY <1>7 DEF destroy, stopAcquisition
<1>8. CASE destroyJoins
  BY <1>8 DEF destroyJoins, Joined, releasePointers, closeIO
<1>9. CASE receiveScanTake
  BY <1>9 DEF receiveScanTake, PendingScan
<1>10. CASE receiveScanReport
  BY <1>10 DEF receiveScanReport, reportScan, publishScan, TimedOut,
     PendingScan
<1>11. CASE produceDiagnostics
  BY <1>11 DEF produceDiagnostics
<1>12. CASE acquisitionLoopTests
  BY <1>12 DEF acquisitionLoopTests
<1>13. CASE acquisitionLoopReads
  BY <1>13 DEF acquisitionLoopReads, getScanReturnsTrue,
     getScanReturnsFalse, LaterThan, TypeOK, NodeTypeOK, SourceTypeOK
<1>14. CASE acquisitionLoopHandsOff
  BY <1>14 DEF acquisitionLoopHandsOff
<1>15. CASE scannerSends
  BY <1>15 DEF scannerSends, Capture
<1>16. CASE Tick
  BY <1>16 DEF Tick
<1>17. CASE UNCHANGED vars
  BY <1>17 DEF vars
<1>18. QED
  BY <1>1, <1>2, <1>3, <1>4, <1>5, <1>6, <1>7, <1>8, <1>9, <1>10, <1>11,
     <1>12, <1>13, <1>14, <1>15, <1>16, <1>17 DEF Next, lifecycleCallback,
     receiveScan, acquisitionLoop

\* Every step publishes what the telegram of the scan says.
LEMMA PublishStep ==
  IInv /\ [Next]_vars => PublishesWhatWasScanned'
<1> SUFFICES ASSUME IInv, [Next]_vars PROVE PublishesWhatWasScanned'
  OBVIOUS
<1> USE DEF sourceVars, nodeVars, threadVars, mailboxVars, localVars,
          observerVars, IInv, PublishesWhatWasScanned
<1>1. CASE on_configure
  BY <1>1 DEF on_configure, onConfigureThrows, onConfigureOpens,
     openSucceeds, openFails
<1>2. CASE on_activate
  BY <1>2 DEF on_activate
<1>3. CASE on_deactivate
  BY <1>3 DEF on_deactivate, stopAcquisition
<1>4. CASE onDeactivateJoins
  BY <1>4 DEF onDeactivateJoins, deactivated, Joined
<1>5. CASE on_cleanup
  BY <1>5 DEF on_cleanup, releasePointers
<1>6. CASE on_shutdown
  BY <1>6 DEF on_shutdown, releasePointers
<1>7. CASE destroy
  BY <1>7 DEF destroy, stopAcquisition
<1>8. CASE destroyJoins
  BY <1>8 DEF destroyJoins, Joined, releasePointers, closeIO
<1>9. CASE receiveScanTake
  BY <1>9 DEF receiveScanTake
<1>10. CASE receiveScanReport
  <2> USE DEF receiveScanReport, reportScan
  <2>1. CASE ~(scan.valid /\ pubs = "active")
    BY <1>10, <2>1 DEF publishScan
  <2>2. CASE scan.valid /\ pubs = "active"
    <3>1. published' = [tel |-> scan.tel, in_standby |-> scan.in_standby,
                        laser |-> ~scan.in_standby /\ ~Discarded(scan.tel.kind)]
      BY <1>10, <2>2 DEF publishScan
    <3>2. TellsStandby(scan.in_standby, scan.tel)
      BY <2>2 DEF Faithful
    <3>3. scan.tel.kind \in {"measuring", "standby", "single", "foreign"}
      BY <3>2, KindsAssumption DEF TellsStandby, Telegram
    <3>4. scan.tel.kind # "foreign" =>
            (~scan.in_standby /\ ~Discarded(scan.tel.kind))
              = (scan.tel.kind = "measuring")
      BY <3>2, <3>3 DEF TellsStandby, Discarded
    <3>5. QED
      BY <3>1, <3>2, <3>4 DEF TellsStandby
  <2>3. QED
    BY <2>1, <2>2
<1>11. CASE produceDiagnostics
  BY <1>11 DEF produceDiagnostics
<1>12. CASE acquisitionLoopTests
  BY <1>12 DEF acquisitionLoopTests
<1>13. CASE acquisitionLoopReads
  BY <1>13 DEF acquisitionLoopReads, getScanReturnsTrue,
     getScanReturnsFalse, LaterThan
<1>14. CASE acquisitionLoopHandsOff
  BY <1>14 DEF acquisitionLoopHandsOff
<1>15. CASE scannerSends
  BY <1>15 DEF scannerSends, Capture
<1>16. CASE Tick
  BY <1>16 DEF Tick
<1>17. CASE UNCHANGED vars
  BY <1>17 DEF vars
<1>18. QED
  BY <1>1, <1>2, <1>3, <1>4, <1>5, <1>6, <1>7, <1>8, <1>9, <1>10, <1>11,
     <1>12, <1>13, <1>14, <1>15, <1>16, <1>17 DEF Next, lifecycleCallback,
     receiveScan, acquisitionLoop

\* IInv is inductive.
LEMMA IInvStep == IInv /\ [Next]_vars => IInv'
  BY TypeStep, StructureStep, OrderedStep, FaithfulStep, PublishStep DEF IInv

(***************************************************************************)
(* The inductive invariant of the node holds in every reachable state.     *)
(***************************************************************************)
THEOREM Invariance == Spec => []IInv
  BY InitIInv, IInvStep, PTL DEF Spec

(***************************************************************************)
(* Every variable of the node keeps its type; the ages stay in their       *)
(* range for every timeout.                                                *)
(***************************************************************************)
THEOREM TypeCorrect == Spec => []TypeOK
<1>1. IInv => TypeOK
  BY DEF IInv
<1>2. QED
  BY <1>1, Invariance, PTL

(***************************************************************************)
(* No sequence of lifecycle callbacks, scans and timer callbacks makes     *)
(* on_activate overwrite a joinable thread or receiveScan() publish        *)
(* through a publisher that was reset.                                     *)
(***************************************************************************)
THEOREM NoAbort == Spec => []NeverAborts
<1>1. IInv => NeverAborts
  BY DEF IInv, Structure
<1>2. QED
  BY <1>1, Invariance, PTL

(***************************************************************************)
(* The callbacks that touch scanner_, or the mailbox without its mutex,    *)
(* run only while no acquisition thread exists.                            *)
(***************************************************************************)
THEOREM NoSharing == Spec => []ScannerNotShared
<1>1. IInv => ScannerNotShared
  BY DEF IInv, Structure, ScannerNotShared
<1>2. QED
  BY <1>1, Invariance, PTL

(***************************************************************************)
(* The acquisition thread never reads a port that is closed.               *)
(***************************************************************************)
THEOREM PortStaysOpen == Spec => []ReadsOpenPort
<1>1. IInv => ReadsOpenPort
  BY DEF IInv, Structure
<1>2. QED
  BY <1>1, Invariance, PTL

(***************************************************************************)
(* Scans are published in the order the scanner sent them, each at most    *)
(* once, and only in the activation whose thread read them.                *)
(***************************************************************************)
THEOREM PublishedInOrder == Spec => []PublishesNewScans
<1>1. IInv => PublishesNewScans
  BY DEF IInv, Ordered, Between, Faithful, PublishesNewScans
<1>2. QED
  BY <1>1, Invariance, PTL

(***************************************************************************)
(* The standby flag and the LaserScan published for a scan agree with the  *)
(* telegram it was decoded from.                                           *)
(***************************************************************************)
THEOREM PublishedTruthfully == Spec => []PublishesWhatWasScanned
<1>1. IInv => PublishesWhatWasScanned
  BY DEF IInv
<1>2. QED
  BY <1>1, Invariance, PTL

\* A step that ends receiveScan() sees a copy of the time of the last scan
\* that is no younger than the time itself.
LEMMA SilenceStep ==
  IInv /\ [Next]_vars =>
    (executor = "reporting" /\ executor' = "idle" /\ ok_age > Timeout
       => scanner_status' = "commError")
<1> SUFFICES ASSUME IInv, [Next]_vars, executor = "reporting",
                    executor' = "idle", ok_age > Timeout
             PROVE  scanner_status' = "commError"
  OBVIOUS
<1>1. ok_age <= last_ok_age /\ ok_age \in Int /\ last_ok_age \in Int
  BY TimeoutAssumption DEF IInv, Structure, TypeOK, NodeTypeOK, Ages
<1>2. TimedOut
  BY <1>1, TimeoutAssumption DEF TimedOut
<1>3. CASE receiveScanReport
  BY <1>2, <1>3 DEF receiveScanReport, reportScan
<1>4. receiveScanReport
  BY DEF Next, lifecycleCallback, on_configure, on_activate, on_deactivate,
     onDeactivateJoins, deactivated, on_cleanup, on_shutdown, destroy,
     destroyJoins, receiveScan, receiveScanTake, produceDiagnostics,
     acquisitionLoop, acquisitionLoopTests, acquisitionLoopReads,
     acquisitionLoopHandsOff, scannerSends, Tick, vars, nodeVars
<1>5. QED
  BY <1>3, <1>4

(***************************************************************************)
(* A silence that lasts at the end of receiveScan() is never missed.       *)
(***************************************************************************)
THEOREM SilenceDetected == Spec => SilenceNeverMissed
<1>1. IInv /\ [Next]_vars =>
        [executor = "reporting" /\ executor' = "idle" /\ ok_age > Timeout
           => scanner_status' = "commError"]_vars
  BY SilenceStep
<1>2. QED
  BY <1>1, Invariance, PTL DEF Spec, SilenceNeverMissed

\* What one step may do to a scan in the mailbox.
LEMMA MailboxStep ==
  IInv /\ [Next]_vars =>
    (pending_scan.valid /\ pending_scan' # pending_scan =>
       \/ scan' = pending_scan
       \/ pending_scan'.valid /\ pending_scan'.tel.id > pending_scan.tel.id
       \/ activation' # activation)
<1> SUFFICES ASSUME IInv, [Next]_vars, pending_scan.valid,
                    pending_scan' # pending_scan
             PROVE  \/ scan' = pending_scan
                    \/ /\ pending_scan'.valid
                       /\ pending_scan'.tel.id > pending_scan.tel.id
                    \/ activation' # activation
  OBVIOUS
<1>1. CASE on_activate
  BY <1>1 DEF on_activate, IInv, TypeOK, NodeTypeOK
<1>2. CASE receiveScanTake
  BY <1>2 DEF receiveScanTake
<1>3. CASE acquisitionLoopHandsOff
  BY <1>3 DEF acquisitionLoopHandsOff, IInv, Ordered
<1>4. \/ on_activate
      \/ receiveScanTake
      \/ acquisitionLoopHandsOff
  BY DEF Next, lifecycleCallback, on_configure, on_deactivate,
     onDeactivateJoins, deactivated, on_cleanup, on_shutdown, destroy,
     destroyJoins, receiveScan, receiveScanReport, produceDiagnostics,
     acquisitionLoop, acquisitionLoopTests, acquisitionLoopReads,
     scannerSends, Tick, vars, mailboxVars
<1>5. QED
  BY <1>1, <1>2, <1>3, <1>4

(***************************************************************************)
(* A scan in the mailbox gives way only to receiveScan(), to a newer scan  *)
(* or to the next activation.                                              *)
(***************************************************************************)
THEOREM MailboxKept == Spec => MailboxKeepsNewest
<1>1. IInv /\ [Next]_vars =>
        [pending_scan.valid /\ pending_scan' # pending_scan =>
           \/ scan' = pending_scan
           \/ pending_scan'.valid /\ pending_scan'.tel.id > pending_scan.tel.id
           \/ activation' # activation]_vars
  BY MailboxStep
<1>2. QED
  BY <1>1, Invariance, PTL DEF Spec, MailboxKeepsNewest
=============================================================================
