------------------------------- MODULE Driver -------------------------------
(***************************************************************************)
(* The driver: the node of module SickS300 with the serial port of module  *)
(* SerialIO in place of the port it takes for granted.  on_configure opens *)
(* the port, the destructor closes it, and getScan() is a read that begins *)
(* in one step and returns in another, while callbacks go on.              *)
(***************************************************************************)
EXTENDS SerialIO

CONSTANTS Kinds, MaxCaptures, Timeout, MaxActivations   \* of SickS300

ASSUME NodeAssumption ==
  /\ Kinds \subseteq {"measuring", "standby", "single", "foreign"}
  /\ Timeout \in Nat

VARIABLES
  line, captured, in_standby, got,
  lifecycle, executor, pubs, timer, updater, scanner_status,
  acquisition_running, acquisition_thread, pending_scan, ok_age,
  scan, last_ok_age, published, diagnostics, activation, old

Port == IF m_Device = -1 THEN "closed" ELSE "open"

Node == INSTANCE SickS300 WITH port <- Port

nodeVars ==
  <<line, captured, in_standby, got, lifecycle, executor, pubs, timer, updater,
    scanner_status, acquisition_running, acquisition_thread, pending_scan,
    ok_age, scan, last_ok_age, published, diagnostics, activation, old>>

vars == <<serialVars, nodeVars>>

Init == SerialInit /\ Node!Init

-----------------------------------------------------------------------------
\* on_configure opens the port, unless a parameter has the wrong type.
on_configure ==
  /\ \/ open
     \/ lifecycle' = "finalized" /\ UNCHANGED serialVars
  /\ Node!on_configure
  /\ lifecycle' = "finalized" => UNCHANGED serialVars

destroyJoins == closeIO /\ Node!destroyJoins

\* getScan() begins with a read ...
getScanReads ==
  /\ acquisition_thread = "read"
  /\ readBlocking
  /\ UNCHANGED nodeVars

\* ... and ends there when it returns nothing: false.
getScanGoesOn(n) ==
  /\ Node!acquisitionLoopReads
  /\ n <= 0 => Node!getScanReturnsFalse

getScanReturns ==
  \/ \E n \in 1 .. MaxBytes : readSucceeds(n) /\ getScanGoesOn(n)
  \/ readTimesOut /\ getScanGoesOn(0)

getScanFails == executor # "aborted" /\ readFails /\ getScanGoesOn(-1)

acquisitionLoop ==
  /\ executor # "aborted"
  /\ \/ /\ UNCHANGED serialVars
        /\ Node!acquisitionLoopTests \/ Node!acquisitionLoopHandsOff
     \/ getScanReads
     \/ getScanReturns

\* What the device sends arrives, or other bytes do, or nothing.
scannerSends == (bytesArrive \/ UNCHANGED serialVars) /\ Node!scannerSends
noiseArrives == bytesArrive /\ UNCHANGED nodeVars

onDeactivateJoins == UNCHANGED serialVars /\ Node!onDeactivateJoins
receiveScanTake == UNCHANGED serialVars /\ Node!receiveScanTake
receiveScanReport == UNCHANGED serialVars /\ Node!receiveScanReport
produceDiagnostics == UNCHANGED serialVars /\ Node!produceDiagnostics
Tick == UNCHANGED serialVars /\ Node!Tick

\* The callbacks that somebody calls or nobody does.
otherCallback ==
  /\ UNCHANGED serialVars
  /\ \/ Node!on_activate
     \/ Node!on_deactivate
     \/ Node!on_cleanup
     \/ Node!on_shutdown
     \/ Node!destroy

Next ==
  \/ on_configure
  \/ otherCallback
  \/ onDeactivateJoins
  \/ destroyJoins
  \/ receiveScanTake
  \/ receiveScanReport
  \/ produceDiagnostics
  \/ acquisitionLoop
  \/ getScanFails
  \/ scannerSends
  \/ noiseArrives
  \/ Tick

Spec == Init /\ [][Next]_vars

(***************************************************************************)
(* Fairness.  Both threads are scheduled; the kernel completes a read that *)
(* can be completed (getScanReturns), while a read need never fail; the    *)
(* two timers fire again and again while they exist; time passes.  The     *)
(* fairness of the diagnostics is strong because receiveScan() takes the   *)
(* executor away from them again and again: it is over long before its     *)
(* timer is due again, so the executor gets to the other timer.  Nobody    *)
(* has to send telegrams or to call a lifecycle service.                   *)
(***************************************************************************)
Fairness ==
  /\ WF_vars(onDeactivateJoins)
  /\ WF_vars(destroyJoins)
  /\ WF_vars(receiveScanTake)
  /\ WF_vars(receiveScanReport)
  /\ SF_vars(produceDiagnostics)
  /\ WF_vars(acquisitionLoop)
  /\ WF_vars(Tick)

FairSpec == Spec /\ Fairness

-----------------------------------------------------------------------------
\* Every variable has its type, and a read belongs to the acquisition thread.
TypeOK ==
  /\ SerialTypeOK
  /\ Node!TypeOK
  /\ reading => acquisition_thread = "read"

(***************************************************************************)
(* m_Device is a descriptor the process holds open, never one that was     *)
(* closed on an error path and may be somebody else's by now.              *)
(***************************************************************************)
DeviceIsOpen == m_Device # -1 => m_Device \in descriptors

(***************************************************************************)
(* A descriptor that is open is m_Device's, or one that a later openIO()   *)
(* overwrote in m_Device: whichever step of openIO() fails, in any         *)
(* sequence of attempts, nothing is left open that was not known before,   *)
(* and the destructor closes what m_Device holds and nothing else.         *)
(***************************************************************************)
OnlyOverwrittenLeak ==
  /\ descriptors = overwritten \cup ({m_Device} \ {-1})
  /\ m_Device \notin overwritten

(***************************************************************************)
(* No callback opens, closes or reconfigures the port while the            *)
(* acquisition thread waits for a read from it: the descriptor number that *)
(* read() was called with stays this port's.                               *)
(***************************************************************************)
PortStaysWhileReading == [][ reading => UNCHANGED portVars ]_vars

(***************************************************************************)
(* A read that waits is the acquisition thread's, from the open port, and  *)
(* the terminal ends it by itself when nothing arrives, in every           *)
(* activation and whatever was opened or failed to open before, unless     *)
(* tcsetattr() failed unnoticed.  (This is what the promise of the kernel, *)
(* the fairness of acquisitionLoop, rests on.)                             *)
(***************************************************************************)
ReadEndsByItself ==
  reading /\ ~SettingsMayFail =>
    acquisition_thread = "read" /\ m_Device # -1 /\ tty = "timed"

acquisitionVars == <<acquisition_thread, reading>>

\* on_deactivate or the destructor waits for the acquisition thread.
Joining == executor \in {"joining", "destroying"}

\* How many steps the acquisition thread has left once it was told to stop.
StepsLeft ==
  CASE acquisition_thread = "none"     -> 0
    [] acquisition_thread = "returned" -> 1
    [] acquisition_thread = "check"    -> 2
    [] acquisition_thread = "handoff"  -> 3
    [] acquisition_thread = "read"     -> IF reading THEN 4 ELSE 5

(***************************************************************************)
(* Whoever joins the acquisition thread waits for at most one read: the    *)
(* thread was told to stop, and every step it takes brings it nearer its   *)
(* end, however many scans arrive meanwhile.                               *)
(***************************************************************************)
JoinedThreadEnds ==
  [][ Joining =>
        StepsLeft' < StepsLeft \/ UNCHANGED acquisitionVars ]_vars

(***************************************************************************)
(* A read from the port returns, also when the scanner never sends a byte. *)
(***************************************************************************)
ReadReturns == reading ~> ~reading

(***************************************************************************)
(* on_deactivate returns: the acquisition thread it joins is not stuck.    *)
(***************************************************************************)
DeactivationCompletes == executor = "joining" ~> executor = "idle"

(***************************************************************************)
(* The destructor returns, in every lifecycle state it may be called in,   *)
(* also where nobody stopped the acquisition thread before.                *)
(***************************************************************************)
DestructionCompletes == executor = "destroying" ~> executor = "gone"

\* The node stays active: nobody deactivates, shuts down or destroys it.
Serving == lifecycle = "active" /\ executor \in {"idle", "reporting"}

(***************************************************************************)
(* A scanner that stays silent is reported: the diagnostics show the       *)
(* communication error unless a scan arrives or the node stops serving.    *)
(***************************************************************************)
SilenceReported ==
  Serving /\ ok_age > Timeout
    ~> diagnostics = "commError" \/ ok_age <= Timeout \/ ~Serving

(***************************************************************************)
(* A scan that was handed over is published, or a newer one is, as long as *)
(* the node keeps serving.                                                 *)
(***************************************************************************)
ScanPublished ==
  \A n \in 1 .. MaxCaptures :
    Serving /\ pending_scan.valid /\ pending_scan.tel.id = n
      ~> published.tel.id >= n \/ ~Serving

-----------------------------------------------------------------------------
(***************************************************************************)
(* ISerialIO.hpp of closeIO(), which the destructor calls: "Closes the     *)
(* transport".  Nothing of it is held open when the driver is gone.        *)
(***************************************************************************)
PortReleased == executor = "gone" => descriptors = {}
=============================================================================
