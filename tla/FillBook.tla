------------------------------ MODULE FillBook ------------------------------
(***************************************************************************)
(* What the ledger promises about executions: every unit the broker        *)
(* executes for an order moves the position once, never before it is       *)
(* executed, in any number of instalments.  Abstract specification of      *)
(* Ledger.                                                                 *)
(***************************************************************************)
EXTENDS Naturals

CONSTANTS Orders, Qty

VARIABLES
    executed,   \* quantity the broker executed, per order
    booked      \* quantity the fills of the order moved the position by

bookVars == <<executed, booked>>

Init ==
    /\ executed = [o \in Orders |-> 0]
    /\ booked = [o \in Orders |-> 0]

Execute(o) ==
    /\ \E q \in executed[o] + 1 .. Qty : executed' = [executed EXCEPT ![o] = q]
    /\ UNCHANGED booked

Book(o) ==
    /\ \E q \in booked[o] + 1 .. executed[o] : booked' = [booked EXCEPT ![o] = q]
    /\ UNCHANGED executed

Next == \E o \in Orders : Execute(o) \/ Book(o)

Spec == Init /\ [][Next]_bookVars

=============================================================================
