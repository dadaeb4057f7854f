----------------------------- MODULE MCSickS300 -----------------------------
(***************************************************************************)
(* Values of the constants of SickS300 for TLC, by run.                    *)
(***************************************************************************)
EXTENDS SickS300

OneKind == {"measuring"}
AllKinds == {"measuring", "standby", "single", "foreign"}
TwoKinds == {"measuring", "foreign"}
=============================================================================
