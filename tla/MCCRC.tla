------------------------------- MODULE MCCRC -------------------------------
(***************************************************************************)
(* Values of the constants of CRC for TLC: no error, every error in a      *)
(* single byte, and errors at both ends and in the middle of two bytes.    *)
(***************************************************************************)
EXTENDS CRC

MCBytes == {Bits(0), Bits(165)}

MCPatterns ==
  (Byte \X {{}})
    \cup ({Bits(n) : n \in {1, 16, 128, 255}}
            \X {Bits(n) : n \in {1, 2, 16, 33, 128, 255}})
=============================================================================
