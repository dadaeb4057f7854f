------------------------- MODULE MCScannerSickS300 --------------------------
(***************************************************************************)
(* Values of the constants of ScannerSickS300 for TLC, by run.             *)
(***************************************************************************)
EXTENDS ScannerSickS300

OneKind == {"measuring"}
TwoKinds == {"measuring", "foreign"}
=============================================================================
