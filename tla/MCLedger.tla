------------------------------ MODULE MCLedger ------------------------------
(***************************************************************************)
(* Instances of Ledger for TLC.  Orders do not interact, so two of them    *)
(* are enough to see that one is not booked for the other.                 *)
(***************************************************************************)
EXTENDS Ledger, TLC

CONSTANTS w1, w2, o1, o2

=============================================================================
