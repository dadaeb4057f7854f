----------------------- MODULE SickS300_topics_proofs -----------------------
(***************************************************************************)
(* The node implements ScanTopics: every step of it, as seen from Offered, *)
(* published and activation, is a step of the abstract specification or    *)
(* leaves all three alone.  The order of the scans on their way, which is  *)
(* part of IInv, is what makes each of these steps legal.                  *)
(***************************************************************************)
EXTENDS SickS300_proofs

LEMMA InitTopics == Init => Topics!Init
BY DEF Init, SourceInit, PendingScan, NoTelegram, Topics!Init, Offered, Carried,
       Topics!NothingShown

\* What the mapping looks at; a step that changes none of it is a stutter.
LEMMA QuietStep ==
  ASSUME UNCHANGED <<pending_scan, scan, got, published, activation>>,
         (acquisition_thread = "handoff") = (acquisition_thread' = "handoff")
  PROVE  UNCHANGED Topics!topicVars
BY DEF Offered, Carried, Topics!topicVars

LEMMA ActivateStep == IInv /\ on_activate => Topics!Activate
<1> SUFFICES ASSUME IInv, on_activate
             PROVE  Topics!Activate
  OBVIOUS
<1>1. acquisition_thread' # "handoff" /\ scan' = PendingScan
  BY DEF IInv, Structure, on_activate, localVars
<1>2. Offered' = {}
  BY <1>1 DEF Offered, Carried, PendingScan, on_activate
<1>3. QED
  BY <1>2 DEF Topics!Activate, on_activate

LEMMA TakeStep == IInv /\ receiveScanTake => UNCHANGED Topics!topicVars
<1> SUFFICES ASSUME IInv, receiveScanTake
             PROVE  UNCHANGED Topics!topicVars
  OBVIOUS
<1>1. ~scan.valid
  BY DEF IInv, Structure, receiveScanTake, PendingScan
<1>2. UNCHANGED <<got, published, activation, acquisition_thread>>
  BY DEF receiveScanTake, threadVars, observerVars, sourceVars
<1>3. Carried(scan)' \cup Carried(pending_scan)'
        = Carried(scan) \cup Carried(pending_scan)
  BY <1>1 DEF receiveScanTake, Carried, PendingScan
<1>4. QED
  BY <1>2, <1>3 DEF Offered, Topics!topicVars

LEMMA ReportStep ==
  IInv /\ receiveScanReport => Topics!Show \/ UNCHANGED Topics!topicVars
<1> SUFFICES ASSUME IInv, receiveScanReport
             PROVE  Topics!Show \/ UNCHANGED Topics!topicVars
  OBVIOUS
<1>1. /\ UNCHANGED <<got, activation, acquisition_thread, pending_scan>>
      /\ ~scan'.valid
  BY DEF receiveScanReport, reportScan, threadVars, sourceVars, PendingScan
<1>2. CASE ~scan.valid
  <2>1. UNCHANGED published
    BY <1>2 DEF receiveScanReport, reportScan
  <2>2. QED
    BY <1>1, <1>2, <2>1 DEF Offered, Carried, Topics!topicVars
<1>3. CASE scan.valid
  <2> DEFINE t == scan.tel
  <2>1. /\ t \in Telegram
        /\ t.kind # "foreign" => scan.in_standby = (t.kind = "standby")
        /\ scan.in_standby \in BOOLEAN
    BY <1>3 DEF IInv, Faithful, TellsStandby, TypeOK, NodeTypeOK, Scan
  <2>2. published' = [tel |-> t, in_standby |-> scan.in_standby,
                      laser |-> ~scan.in_standby /\ ~Discarded(t.kind)]
    BY <1>3 DEF receiveScanReport, reportScan, publishScan, IInv, Structure
  <2>3. (~scan.in_standby /\ ~Discarded(t.kind)) = (t.kind = "measuring")
    BY <2>1, KindsAssumption DEF Telegram, Discarded
  <2>4. Offered' = Topics!LaterThan(t)
    <3>1. /\ acquisition_thread = "handoff" => t.id < got.id
          /\ pending_scan.valid => t.id < pending_scan.tel.id
          /\ t.id \in Nat
      BY <1>3, <2>1 DEF IInv, Ordered, Between, Telegram
    <3>2. Offered = {t} \cup Offered'
      BY <1>1, <1>3 DEF Offered, Carried
    <3>3. \A u \in Offered' : u.id > t.id
      BY <1>1, <3>1 DEF Offered, Carried
    <3>4. QED
      BY <3>1, <3>2, <3>3 DEF Topics!LaterThan
  <2>5. t \in Offered
    BY <1>3 DEF Offered, Carried
  <2>6. QED
    BY <1>1, <2>1, <2>2, <2>3, <2>4, <2>5 DEF Topics!Show
<1>4. QED
  BY <1>2, <1>3

LEMMA ReadStep ==
  IInv /\ acquisitionLoopReads => Topics!Offer \/ UNCHANGED Topics!topicVars
<1> SUFFICES ASSUME IInv, acquisitionLoopReads
             PROVE  Topics!Offer \/ UNCHANGED Topics!topicVars
  OBVIOUS
<1>1. /\ UNCHANGED <<pending_scan, scan, published, activation>>
      /\ acquisition_thread = "read"
  BY DEF acquisitionLoopReads, mailboxVars, localVars, observerVars
<1>2. CASE getScanReturnsFalse /\ acquisition_thread' = "check"
  BY <1>1, <1>2, QuietStep DEF getScanReturnsFalse
<1>3. CASE getScanReturnsTrue /\ acquisition_thread' = "handoff"
  <2>1. got' \in line /\ got'.id > got.id
    BY <1>3 DEF getScanReturnsTrue, IInv, Ordered
  <2>2. got' \in Telegram
    BY <2>1 DEF IInv, TypeOK, SourceTypeOK
  <2>3. Offered' = Offered \cup {got'}
    BY <1>1, <1>3 DEF Offered, Carried
  <2>4. /\ published.tel.id \in Int /\ got.id \in Int
        /\ \A s \in {scan, pending_scan} : s.tel.id \in Int
    BY DEF IInv, TypeOK, NodeTypeOK, SourceTypeOK, Scan, Messages, Telegram,
           NoTelegram
  <2>5. got'.id > published.tel.id
    BY <2>1, <2>2, <2>4 DEF IInv, Ordered, Telegram
  <2>6. \A u \in Offered : got'.id > u.id
    <3>1. \A s \in {scan, pending_scan} : s.valid => s.tel.id <= got.id
      BY DEF IInv, Ordered, Between
    <3>2. QED
      BY <1>1, <2>1, <2>2, <2>4, <3>1 DEF Offered, Carried, Telegram
  <2>7. QED
    BY <1>1, <2>2, <2>3, <2>5, <2>6 DEF Topics!Offer, Topics!Scans, Telegram
<1>4. QED
  BY <1>2, <1>3 DEF acquisitionLoopReads

LEMMA HandOffStep ==
  IInv /\ acquisitionLoopHandsOff =>
    Topics!PassOver \/ UNCHANGED Topics!topicVars
<1> SUFFICES ASSUME IInv, acquisitionLoopHandsOff
             PROVE  Topics!PassOver \/ UNCHANGED Topics!topicVars
  OBVIOUS
<1>1. /\ UNCHANGED <<scan, got, published, activation>>
      /\ acquisition_thread = "handoff" /\ acquisition_thread' = "check"
      /\ pending_scan'.valid /\ pending_scan'.tel = got
  BY DEF acquisitionLoopHandsOff, localVars, observerVars, sourceVars
<1>2. Offered = Carried(scan) \cup Carried(pending_scan) \cup {got}
  BY <1>1 DEF Offered
<1>3. Offered' = Carried(scan) \cup {got}
  BY <1>1 DEF Offered, Carried
<1>4. CASE ~pending_scan.valid
  BY <1>1, <1>2, <1>3, <1>4 DEF Carried, Topics!topicVars
<1>5. CASE pending_scan.valid
  <2>1. /\ pending_scan.tel.id < got.id
        /\ scan.valid => scan.tel.id < pending_scan.tel.id
        /\ pending_scan.tel.id \in Int /\ got.id \in Int /\ scan.tel.id \in Int
    BY <1>1, <1>5 DEF IInv, Ordered, Between, TypeOK, NodeTypeOK, SourceTypeOK,
                      Scan, Telegram, NoTelegram
  <2>2. pending_scan.tel \in Offered /\ got \in Topics!LaterThan(pending_scan.tel)
    BY <1>2, <1>5, <2>1 DEF Carried, Topics!LaterThan
  <2>3. Offered' = Offered \ {pending_scan.tel}
    BY <1>2, <1>3, <1>5, <2>1 DEF Carried
  <2>4. QED
    BY <1>1, <2>2, <2>3 DEF Topics!PassOver
<1>6. QED
  BY <1>4, <1>5

LEMMA TopicsStep ==
  IInv /\ [Next]_vars => [Topics!Next]_(Topics!topicVars)
<1> SUFFICES ASSUME IInv, [Next]_vars
             PROVE  Topics!Next \/ UNCHANGED Topics!topicVars
  OBVIOUS
<1> USE DEF threadVars, mailboxVars, localVars, observerVars, nodeVars,
            sourceVars
<1>1. CASE on_activate
  BY <1>1, ActivateStep DEF Topics!Next
<1>2. CASE receiveScan
  BY <1>2, TakeStep, ReportStep DEF receiveScan, Topics!Next
<1>3. CASE acquisitionLoop
  <2>1. CASE acquisitionLoopTests
    BY <2>1, QuietStep DEF acquisitionLoopTests
  <2>2. QED
    BY <1>3, <2>1, ReadStep, HandOffStep DEF acquisitionLoop, Topics!Next
<1>4. CASE onDeactivateJoins \/ destroyJoins
  BY <1>4, QuietStep
     DEF onDeactivateJoins, deactivated, destroyJoins, Joined, closeIO
<1>5. CASE \/ on_configure \/ on_deactivate \/ on_cleanup \/ on_shutdown
           \/ destroy \/ produceDiagnostics \/ scannerSends \/ Tick
           \/ UNCHANGED vars
  <2>1. UNCHANGED <<pending_scan, scan, got, published, activation,
                    acquisition_thread>>
    BY <1>5 DEF on_configure, onConfigureThrows, onConfigureOpens, openSucceeds,
                openFails, on_deactivate, on_cleanup, on_shutdown, destroy,
                produceDiagnostics, scannerSends, Capture, Tick, vars
  <2>2. QED
    BY <2>1, QuietStep
<1>6. QED
  BY <1>1, <1>2, <1>3, <1>4, <1>5 DEF Next, lifecycleCallback

(***************************************************************************)
(* Seen from its topics, the node shows ever newer scans, each as it was,  *)
(* passes one over only for a newer one, and forgets all of them when it   *)
(* is activated: for any number of telegrams and activations.              *)
(***************************************************************************)
THEOREM TopicsImplemented == Spec => ImplementsTopics
<1>1. QED
  BY InitTopics, TopicsStep, Invariance, PTL DEF Spec, ImplementsTopics, Topics!Spec
=============================================================================
