------------------------------ MODULE SickS300 ------------------------------
(***************************************************************************)
(* The lifecycle node of the driver (class SickS300): the callbacks that   *)
(* the single-threaded executor runs one after the other (the lifecycle    *)
(* transitions, the scan timer, the diagnostic updater), the acquisition   *)
(* thread that runs concurrently with them, and the mailbox pending_scan_  *)
(* through which that thread hands scans to the timer callback.            *)
(*                                                                         *)
(* A critical section of scan_mutex_ is one atomic step.  A callback that  *)
(* waits for the thread, or that reads the mailbox and acts on the copy    *)
(* later, is as many steps as the thread can interleave with.              *)
(***************************************************************************)
EXTENDS ScanSource

CONSTANTS
  Timeout,         \* communication_timeout_, in ticks of the clock
  MaxActivations   \* bound: successful or failed calls of on_activate

ASSUME TimeoutAssumption == Timeout \in Nat

VARIABLES
  lifecycle,            \* primary state of the LifecycleNode
  executor,             \* what the executor thread is in the middle of;
                        \* "aborted": std::terminate was called or a null
                        \* pointer used, and the program has ended
  pubs,                 \* the two publishers: "null", "inactive", "active"
  timer,                \* timer_ exists
  updater,              \* diagnostic_updater_ exists
  scanner_status,       \* scanner_status_
  acquisition_running,  \* acquisition_running_
  acquisition_thread,   \* where acquisitionLoop() is; "none": not joinable
  pending_scan,         \* pending_scan_
  ok_age,               \* now() - point_time_communication_ok_, in ticks
  scan,                 \* local scan of receiveScan()
  last_ok_age,          \* now() - last_ok (local of receiveScan()), in ticks
  \* observers: what the outside sees, and what the properties remember
  published,            \* the last scan published and the messages it gave
  diagnostics,          \* the last status reported on /diagnostics
  activation,           \* how many times on_activate was called
  old                   \* the newest telegram sent a tick or more before the
                        \* node last left a state other than Active

threadVars == <<acquisition_running, acquisition_thread>>
mailboxVars == <<pending_scan, ok_age>>
localVars == <<scan, last_ok_age>>
observerVars == <<published, diagnostics, activation, old>>
nodeVars == <<lifecycle, executor, pubs, timer, updater, scanner_status>>
vars == <<sourceVars, nodeVars, threadVars, mailboxVars, localVars,
          observerVars>>

PendingScan ==
  [valid |-> FALSE, in_standby |-> FALSE, tel |-> NoTelegram, activation |-> 0]

\* Mutant of Older: the operands of now() - last_ok are swapped.
younger(age) == age - 1

\* Ages are told apart only up to the first one beyond the timeout.
Ages == 0 .. Timeout + 1
Older(age) == IF age > Timeout THEN age ELSE age + 1

Init ==
  /\ SourceInit
  /\ lifecycle = "unconfigured"
  /\ executor = "idle"
  /\ pubs = "null"
  /\ timer = FALSE
  /\ updater = FALSE
  /\ scanner_status = "ok"
  /\ acquisition_running = FALSE
  /\ acquisition_thread = "none"
  /\ pending_scan = PendingScan
  /\ ok_age = 0
  /\ scan = PendingScan
  /\ last_ok_age = 0
  /\ published = [tel |-> NoTelegram, in_standby |-> FALSE, laser |-> FALSE]
  /\ diagnostics = "none"
  /\ activation = 0
  /\ old = 0

-----------------------------------------------------------------------------
(***************************************************************************)
(* Lifecycle callbacks.  An exception that leaves one of them takes the    *)
(* node through ErrorProcessing, where the default on_error() fails, to    *)
(* Finalized.                                                              *)
(***************************************************************************)

\* A parameter of the wrong type, before anything was created.
onConfigureThrows ==
  /\ lifecycle' = "finalized"
  /\ UNCHANGED <<pubs, updater, scanner_status, sourceVars>>

onConfigureOpens ==
  /\ pubs' = "inactive"
  /\ updater' = TRUE
  /\ scanner_status' = "ok"
  /\ \/ openSucceeds /\ lifecycle' = "inactive"
     \/ openFails /\ UNCHANGED lifecycle

on_configure ==
  /\ lifecycle = "unconfigured" /\ executor = "idle"
  /\ onConfigureThrows \/ onConfigureOpens
  /\ UNCHANGED <<executor, timer, threadVars, mailboxVars,
                 localVars, observerVars>>

(***************************************************************************)
(* std::thread and create_wall_timer (a negative scan_cycle_time) may      *)
(* throw.  Assigning to a std::thread that is still joinable terminates.   *)
(***************************************************************************)
on_activate ==
  /\ lifecycle = "inactive" /\ executor = "idle"
  /\ activation < MaxActivations
  /\ activation' = activation + 1
  /\ pubs' = "active"
  /\ ok_age' = 0
  /\ pending_scan' = PendingScan
  /\ acquisition_running' = TRUE
  /\ \/ \* both succeed
        /\ acquisition_thread' = "check"
        /\ timer' = TRUE
        /\ lifecycle' = "active"
     \/ \* create_wall_timer throws: the thread is already running
        /\ acquisition_thread' = "check"
        /\ lifecycle' = "finalized"
        /\ UNCHANGED timer
     \/ \* std::thread throws
        /\ lifecycle' = "finalized"
        /\ UNCHANGED <<acquisition_thread, timer>>
  /\ executor' = IF acquisition_thread' = "check" /\ acquisition_thread # "none"
                 THEN "aborted" ELSE "idle"
  /\ UNCHANGED <<updater, scanner_status, localVars, sourceVars,
                 published, diagnostics, old>>

\* Mutant of stopAcquisition: the flag of the loop is not reset.
forgetsToStop == UNCHANGED acquisition_running

stopAcquisition == acquisition_running' = FALSE

\* on_deactivate up to the join ...
on_deactivate ==
  /\ lifecycle = "active" /\ executor = "idle"
  /\ pubs' = "inactive"
  /\ timer' = FALSE
  /\ stopAcquisition
  /\ executor' = "joining"
  /\ UNCHANGED <<lifecycle, updater, scanner_status,
                 acquisition_thread, mailboxVars, localVars, observerVars,
                 sourceVars>>

Joined == acquisition_thread \in {"none", "returned"}

\* ... and from there on.
deactivated ==
  /\ executor = "joining"
  /\ lifecycle' = "inactive"
  /\ executor' = "idle"
  /\ UNCHANGED <<pubs, timer, updater, scanner_status, acquisition_running,
                 mailboxVars, localVars, observerVars, sourceVars>>

\* Mutant of onDeactivateJoins: on_deactivate forgets to join the thread.
deactivatesWithoutJoin == deactivated /\ UNCHANGED acquisition_thread

onDeactivateJoins ==
  /\ Joined
  /\ acquisition_thread' = "none"
  /\ deactivated

releasePointers ==
  /\ pubs' = "null"
  /\ updater' = FALSE
  /\ timer' = FALSE

on_cleanup ==
  /\ lifecycle = "inactive" /\ executor = "idle"
  /\ releasePointers
  /\ lifecycle' = "unconfigured"
  /\ UNCHANGED <<executor, scanner_status, threadVars, mailboxVars,
                 localVars, observerVars, sourceVars>>

\* The acquisition thread is not stopped here: only ~SickS300() joins it.
on_shutdown ==
  /\ lifecycle \in {"unconfigured", "inactive", "active"}
  /\ executor = "idle"
  /\ releasePointers
  /\ lifecycle' = "finalized"
  /\ UNCHANGED <<executor, scanner_status, threadVars, mailboxVars,
                 localVars, observerVars, sourceVars>>

\* ~SickS300() once spin() has returned, up to the join ...
destroy ==
  /\ executor = "idle"
  /\ stopAcquisition
  /\ executor' = "destroying"
  /\ UNCHANGED <<lifecycle, pubs, timer, updater, scanner_status,
                 acquisition_thread, mailboxVars, localVars, observerVars,
                 sourceVars>>

\* ... and from there on, with the destructors of the members.
destroyJoins ==
  /\ executor = "destroying" /\ Joined
  /\ acquisition_thread' = "none"
  /\ releasePointers
  /\ closeIO
  /\ executor' = "gone"
  /\ UNCHANGED <<lifecycle, scanner_status, acquisition_running,
                 mailboxVars, localVars, observerVars>>

-----------------------------------------------------------------------------
(***************************************************************************)
(* The timer callback receiveScan(): it copies the mailbox under the       *)
(* mutex, then publishes the copy and looks at the age of its copy of      *)
(* point_time_communication_ok_ with the mutex released.                   *)
(***************************************************************************)
receiveScanTake ==
  /\ timer /\ executor = "idle"
  /\ executor' = "reporting"
  /\ \/ pending_scan.valid
        /\ scan' = pending_scan
        /\ pending_scan' = PendingScan
     \/ ~pending_scan.valid
        /\ scan' = PendingScan
        /\ UNCHANGED pending_scan
  /\ last_ok_age' = ok_age
  /\ UNCHANGED <<lifecycle, pubs, timer, updater, scanner_status,
                 threadVars, ok_age, observerVars, sourceVars>>

\* Mutant of Discarded: the test for two points is off by one.
discardedIfEmpty(kind) == kind = "foreign"

\* publishLaserScan() discards a scan with fewer than two points; the scan of
\* a field without parameters has none.
Discarded(kind) == kind \in {"single", "foreign"}

\* A lifecycle publisher that is not activated drops the message.
publishScan ==
  /\ executor' = IF pubs = "null" THEN "aborted" ELSE "idle"
  /\ published' = IF pubs # "active" THEN published
                  ELSE [tel |-> scan.tel,
                        in_standby |-> scan.in_standby,
                        laser |-> ~scan.in_standby /\ ~Discarded(scan.tel.kind)]

\* Mutants of TimedOut: the check is skipped after a scan, or moved into the
\* branch that handles a scan.
timedOutWithoutScan == ~scan.valid /\ last_ok_age > Timeout
timedOutWithScan == scan.valid /\ last_ok_age > Timeout

TimedOut == last_ok_age > Timeout

reportScan ==
  /\ executor = "reporting"
  /\ \/ scan.valid /\ publishScan
     \/ ~scan.valid /\ executor' = "idle" /\ UNCHANGED published
  /\ scanner_status' = IF TimedOut THEN "commError"
                       ELSE IF ~scan.valid THEN scanner_status
                       ELSE IF scan.in_standby THEN "standby" ELSE "ok"
  /\ scan' = PendingScan
  /\ last_ok_age' = 0
  /\ UNCHANGED <<lifecycle, pubs, timer, updater, threadVars, ok_age,
                 diagnostics, activation, old, sourceVars>>

\* Mutant of receiveScanReport: the mailbox is emptied after publishing.
reportsThenEmpties == reportScan /\ pending_scan' = PendingScan

receiveScanReport == reportScan /\ UNCHANGED pending_scan

\* The timer of the diagnostic updater runs in every lifecycle state.
produceDiagnostics ==
  /\ updater /\ executor = "idle"
  /\ diagnostics' = scanner_status
  /\ UNCHANGED <<nodeVars, threadVars, mailboxVars, localVars, published,
                 activation, old, sourceVars>>

-----------------------------------------------------------------------------
\* acquisitionLoop(): the condition of the loop ...
acquisitionLoopTests ==
  /\ acquisition_thread = "check"
  /\ acquisition_thread' = IF acquisition_running THEN "read" ELSE "returned"
  /\ UNCHANGED <<nodeVars, acquisition_running, mailboxVars, localVars,
                 observerVars, sourceVars>>

\* ... scanner_.getScan() ...
acquisitionLoopReads ==
  /\ acquisition_thread = "read"
  /\ \/ getScanReturnsTrue /\ acquisition_thread' = "handoff"
     \/ getScanReturnsFalse /\ acquisition_thread' = "check"
  /\ UNCHANGED <<nodeVars, acquisition_running, mailboxVars, localVars,
                 observerVars>>

\* ... and the critical section that fills the mailbox.
acquisitionLoopHandsOff ==
  /\ acquisition_thread = "handoff"
  /\ pending_scan' = [valid |-> TRUE, in_standby |-> in_standby, tel |-> got,
                      activation |-> activation]
  /\ ok_age' = 0
  /\ acquisition_thread' = "check"
  /\ UNCHANGED <<nodeVars, acquisition_running, localVars, observerVars,
                 sourceVars>>

\* The scanner sends a telegram while anything else goes on.
scannerSends ==
  /\ \E kind \in Kinds : Capture(kind)
  /\ UNCHANGED <<nodeVars, threadVars, mailboxVars, localVars, observerVars>>

\* Time passes.
Tick ==
  /\ ok_age' = Older(ok_age)
  /\ last_ok_age' = IF executor = "reporting" THEN Older(last_ok_age)
                                              ELSE last_ok_age
  /\ old' = IF lifecycle = "active" THEN old ELSE captured
  /\ UNCHANGED <<nodeVars, threadVars, pending_scan, scan, published,
                 diagnostics, activation, sourceVars>>

-----------------------------------------------------------------------------
lifecycleCallback ==
  \/ on_configure
  \/ on_activate
  \/ on_deactivate
  \/ onDeactivateJoins
  \/ on_cleanup
  \/ on_shutdown
  \/ destroy
  \/ destroyJoins

receiveScan == receiveScanTake \/ receiveScanReport

acquisitionLoop ==
  /\ executor # "aborted"
  /\ \/ acquisitionLoopTests
     \/ acquisitionLoopReads
     \/ acquisitionLoopHandsOff

Next ==
  \/ lifecycleCallback
  \/ receiveScan
  \/ produceDiagnostics
  \/ acquisitionLoop
  \/ scannerSends
  \/ Tick

Spec == Init /\ [][Next]_vars

-----------------------------------------------------------------------------
Scan ==
  [valid : BOOLEAN, in_standby : BOOLEAN, tel : Telegram \cup {NoTelegram},
   activation : Nat]

Messages ==
  [tel : Telegram \cup {NoTelegram}, in_standby : BOOLEAN, laser : BOOLEAN]

NodeTypeOK ==
  /\ lifecycle \in {"unconfigured", "inactive", "active", "finalized"}
  /\ executor \in {"idle", "joining", "reporting", "destroying", "gone",
                  "aborted"}
  /\ pubs \in {"null", "inactive", "active"}
  /\ timer \in BOOLEAN
  /\ updater \in BOOLEAN
  /\ scanner_status \in {"ok", "standby", "commError"}
  /\ acquisition_running \in BOOLEAN
  /\ acquisition_thread \in {"none", "check", "read", "handoff", "returned"}
  /\ pending_scan \in Scan
  /\ scan \in Scan
  /\ ok_age \in Ages
  /\ last_ok_age \in Ages
  /\ published \in Messages
  /\ diagnostics \in {"none", "ok", "standby", "commError"}
  /\ activation \in Nat
  /\ old \in Nat

\* Every variable has its type.
TypeOK == SourceTypeOK /\ NodeTypeOK

(***************************************************************************)
(* No sequence of lifecycle transitions and callbacks assigns a new thread *)
(* to acquisition_thread_ while the last one was not joined, or publishes  *)
(* through a publisher that was reset.                                     *)
(***************************************************************************)
NeverAborts == executor # "aborted"

(***************************************************************************)
(* The members that have no lock of their own (scanner_, its port and      *)
(* buffer) or are accessed without it (on_activate resets the mailbox and  *)
(* the time of the last scan) are never shared: whenever a callback may    *)
(* touch them, no acquisition thread exists.                               *)
(***************************************************************************)
ScannerNotShared ==
  \/ executor = "gone"
  \/ executor = "idle" /\ lifecycle \in {"unconfigured", "inactive"}
  => acquisition_thread = "none"

(***************************************************************************)
(* As long as the acquisition thread runs, also while on_deactivate or the *)
(* destructor waits for it, the port it reads stays open.                  *)
(***************************************************************************)
ReadsOpenPort ==
  acquisition_thread \in {"check", "read", "handoff"} => port = "open"

(***************************************************************************)
(* What receiveScan() is about to publish is newer than all it published   *)
(* before, over deactivations and reconfigurations too, and was handed     *)
(* over by the thread of this activation: no scan is published twice, out  *)
(* of order, or left over in the mailbox from an earlier activation.       *)
(***************************************************************************)
PublishesNewScans ==
  executor = "reporting" /\ scan.valid =>
    /\ scan.tel.id > published.tel.id
    /\ scan.activation = activation

(***************************************************************************)
(* The messages published for a scan say what its telegram said: standby   *)
(* for a telegram in standby, and a LaserScan for exactly the measuring    *)
(* telegrams, whatever the acquisition thread decoded in the meantime.     *)
(* (For a telegram of a field that is not configured, which is not         *)
(* converted, the standby topic repeats what it said before.)              *)
(***************************************************************************)
PublishesWhatWasScanned ==
  published.tel.kind \notin {"none", "foreign"} =>
    /\ published.in_standby = (published.tel.kind = "standby")
    /\ published.laser = (published.tel.kind = "measuring")

(***************************************************************************)
(* A scan in the mailbox is lost only to a newer one: it leaves when       *)
(* receiveScan() takes it, when a newer scan replaces it, or when the next *)
(* activation starts afresh.  In particular receiveScan() never wipes out  *)
(* a scan that arrives while it is publishing the one before.              *)
(***************************************************************************)
MailboxKeepsNewest ==
  [][ pending_scan.valid /\ pending_scan' # pending_scan =>
        \/ scan' = pending_scan
        \/ pending_scan'.valid /\ pending_scan'.tel.id > pending_scan.tel.id
        \/ activation' # activation ]_vars

(***************************************************************************)
(* A timer callback that ends more than communication_timeout_ after the   *)
(* last scan leaves the communication error behind, although it judges a   *)
(* copy of the time of that scan and may publish a scan on the way.        *)
(***************************************************************************)
SilenceNeverMissed ==
  [][ executor = "reporting" /\ executor' = "idle" /\ ok_age > Timeout
        => scanner_status' = "commError" ]_vars

(***************************************************************************)
(* The node implements ScanTopics.  On offer is a scan from the moment     *)
(* getScan() returned it: in the acquisition thread, in the mailbox, or in *)
(* receiveScan().                                                          *)
(***************************************************************************)
Carried(s) == IF s.valid THEN {s.tel} ELSE {}

Offered ==
  Carried(scan) \cup Carried(pending_scan)
    \cup (IF acquisition_thread = "handoff" THEN {got} ELSE {})

Topics == INSTANCE ScanTopics WITH offered <- Offered, shown <- published

ImplementsTopics == Topics!Spec

-----------------------------------------------------------------------------
(***************************************************************************)
(* The inductive invariant behind the safety properties above.             *)
(***************************************************************************)

\* Where the threads, the port and the objects of the node stand.
Structure ==
  /\ NeverAborts
  /\ ReadsOpenPort
  /\ acquisition_thread # "none" => lifecycle \in {"active", "finalized"}
  /\ executor = "gone" => acquisition_thread = "none"
  /\ executor = "joining" => lifecycle = "active" /\ ~timer
  /\ executor \in {"joining", "destroying"} => ~acquisition_running
  /\ lifecycle \in {"inactive", "active"} /\ executor # "gone" => port = "open"
  /\ timer => pubs = "active" /\ lifecycle = "active"
  /\ executor = "reporting" => timer /\ ok_age <= last_ok_age
  /\ executor # "reporting" => scan = PendingScan

\* A scan on its way from the scanner to the topics is newer than t, and no
\* newer than the one decoded last.
Between(t, s) == s.valid => t.id < s.tel.id /\ s.tel.id <= got.id

\* The scans on the line, in getScan(), in the mailbox, in receiveScan() and
\* on the topics are ordered: the further on, the older.
Ordered ==
  /\ got.id <= captured
  /\ \A t \in line : got.id < t.id /\ t.id <= captured
  /\ published.tel.id <= got.id
  /\ Between(published.tel, scan)
  /\ Between(published.tel, pending_scan)
  /\ scan.valid => Between(scan.tel, pending_scan)
  /\ acquisition_thread = "handoff" =>
       /\ published.tel.id < got.id
       /\ scan.valid => scan.tel.id < got.id
       /\ pending_scan.valid => pending_scan.tel.id < got.id

\* The flag b tells whether telegram t was sent in standby, if t tells.
TellsStandby(b, t) ==
  t \in Telegram /\ (t.kind # "foreign" => b = (t.kind = "standby"))

\* A scan on its way carries the flag of its own telegram and belongs to the
\* current activation.
Faithful ==
  /\ acquisition_thread = "handoff" => TellsStandby(in_standby, got)
  /\ \A s \in {pending_scan, scan} :
       s.valid => s.activation = activation /\ TellsStandby(s.in_standby, s.tel)

IInv ==
  /\ TypeOK
  /\ Structure
  /\ Ordered
  /\ Faithful
  /\ PublishesWhatWasScanned

-----------------------------------------------------------------------------
(***************************************************************************)
(* What the documentation says of the node and the code does not do.       *)
(***************************************************************************)

(***************************************************************************)
(* README.md: communication_timeout is the "time without a valid scan      *)
(* before reporting a communication error diagnostic".  A timer callback   *)
(* that ends while the last scan is younger leaves no error behind.        *)
(***************************************************************************)
CommErrorMeansSilence ==
  [][ executor = "reporting" /\ executor' = "idle"
        /\ scanner_status' = "commError" => ok_age > Timeout ]_vars

(***************************************************************************)
(* publishLaserScan(): the first point "was captured scan_duration_ +      *)
(* scan_delay_ before header.stamp (now())": no scan is published that the *)
(* scanner sent while the node was still waiting to be activated.          *)
(***************************************************************************)
StampedWhenCaptured ==
  executor = "reporting" /\ scan.valid => scan.tel.id > old

(***************************************************************************)
(* The status OK of the diagnostics is the message "sick scanner running": *)
(* it is reported of a scanner whose port is open.                         *)
(***************************************************************************)
RunningMeansOpen ==
  [][ produceDiagnostics /\ diagnostics' = "ok" => port = "open" ]_vars
=============================================================================
