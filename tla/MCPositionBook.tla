-------------------------- MODULE MCPositionBook ---------------------------
(***************************************************************************)
(* Instances of PositionBook for TLC.                                      *)
(***************************************************************************)
EXTENDS PositionBook

CONSTANTS chase, momentum, w1, w2

SmallQuantities == {-2, 1}
Market == <<1, 2, 4>>

=============================================================================
