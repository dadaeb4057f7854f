-------------------------- MODULE MCTelegramParser --------------------------
(***************************************************************************)
(* Values of the constants of TelegramParser for TLC.                      *)
(***************************************************************************)
EXTENDS TelegramParser

FewPoints == {0, 2}
SomeSizes == {0, 9}
AroundTheEnds == {9, 24, 26, 28, 29, 30}
=============================================================================
