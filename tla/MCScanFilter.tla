---------------------------- MODULE MCScanFilter ----------------------------
(***************************************************************************)
(* Values of the constants of ScanFilter for TLC.  The field is six units  *)
(* wide, which the steps between two, three or four points divide.         *)
(***************************************************************************)
EXTENDS ScanFilter

MCParams ==
  [dStartAngle : {-3}, dStopAngle : {3}, inverted : BOOLEAN]

MCBounds == {b \in [lower : -4 .. 4, upper : -4 .. 4] : b.lower <= b.upper}

\* A distance, a reflector with a warning flag, and the standby value.
MCRaws == {100, 40960 + 7, StandbyValue}

MCScans == UNION {[1 .. n -> MCRaws] : n \in 1 .. 4}
=============================================================================
