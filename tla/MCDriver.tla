------------------------------ MODULE MCDriver ------------------------------
(***************************************************************************)
(* Driver for TLC.  One kind of telegram is enough: what depends on the    *)
(* kind is MCSickS300's.                                                   *)
(***************************************************************************)
EXTENDS Driver

OneKind == {"measuring"}
=============================================================================
