----------------------------- MODULE Accounting -----------------------------
(***************************************************************************)
(* The arithmetic of a position: lib/trading/accounting with the rounding  *)
(* of lib/trading/money, and the pure decisions about which row a fill may *)
(* update (lib/trading/positionMatch) and in which book it lands           *)
(* (lib/trading/types).                                                    *)
(*                                                                         *)
(* Money is an integer number of the smallest unit the code keeps.  A      *)
(* quantity is signed: BUY is positive, SELL negative.  Provenance is      *)
(* reduced to the two books it stands for, paper and live.  Fees are a     *)
(* plain sum beside the P&L and are left out.                              *)
(***************************************************************************)
EXTENDS Integers, FiniteSets

Abs(n) == IF n < 0 THEN -n ELSE n
SignOf(n) == IF n > 0 THEN 1 ELSE IF n < 0 THEN -1 ELSE 0

\* Integer division rounded half up, away from zero for negative amounts.
moneyDivQty(value, n) ==
    LET quot == (Abs(value) + (n \div 2)) \div n
    IN  IF value < 0 THEN -quot ELSE quot

\* qty, average price, realized P&L, and whether opened_at is set.
emptyPosition == [qty |-> 0, avg |-> 0, realized |-> 0, opened |-> FALSE]

FillKinds == {"OPENED", "INCREASED", "REDUCED", "CLOSED", "REVERSED"}

fillKind(qty, signed) ==
    IF qty = 0 THEN "OPENED"
    ELSE IF SignOf(qty) = SignOf(signed) THEN "INCREASED"
    ELSE IF Abs(signed) < Abs(qty) THEN "REDUCED"
    ELSE IF Abs(signed) = Abs(qty) THEN "CLOSED"
    ELSE "REVERSED"

\* What a fill closes of the open quantity, and what it opens.
closedQty(qty, signed) ==
    CASE fillKind(qty, signed) = "REDUCED" -> Abs(signed)
      [] fillKind(qty, signed) \in {"CLOSED", "REVERSED"} -> Abs(qty)
      [] OTHER -> 0

\* Mutant: a reversal opens the whole quantity of the fill.
WholeOpenedQty(qty, signed) == Abs(signed)

openedQty(qty, signed) == Abs(signed) - closedQty(qty, signed)

realizedOnClose(qty, avg, closed, price) ==
    IF qty > 0 THEN (price - avg) * closed ELSE (avg - price) * closed

\* Mutant: what a reversal opens keeps the average of what it closed.
AverageKept(pos, signed, price) ==
    CASE fillKind(pos.qty, signed) = "INCREASED" ->
            moneyDivQty(pos.avg * Abs(pos.qty) + price * Abs(signed),
                        Abs(pos.qty) + Abs(signed))
      [] fillKind(pos.qty, signed) = "OPENED" -> price
      [] OTHER -> pos.avg

averageAfter(pos, signed, price) ==
    CASE fillKind(pos.qty, signed) = "INCREASED" ->
            moneyDivQty(pos.avg * Abs(pos.qty) + price * Abs(signed),
                        Abs(pos.qty) + Abs(signed))
      [] fillKind(pos.qty, signed) = "REDUCED" -> pos.avg
      [] fillKind(pos.qty, signed) = "CLOSED" -> 0
      [] OTHER -> price

realizedDelta(pos, signed, price) ==
    realizedOnClose(pos.qty, pos.avg, closedQty(pos.qty, signed), price)

applyFillToPosition(pos, signed, price) ==
    [qty      |-> pos.qty + signed,
     avg      |-> averageAfter(pos, signed, price),
     realized |-> pos.realized + realizedDelta(pos, signed, price),
     opened   |-> TRUE]

-----------------------------------------------------------------------------
(***************************************************************************)
(* Books and rows                                                          *)
(***************************************************************************)

\* The book of the row after the fill: a flat paper row takes a live fill's.
paperAfterFill(row, fillIsPaper) ==
    row.paper /\ (fillIsPaper \/ row.qty # 0)

\* Mutant: the row keeps its realized P&L from one book to the other.
NeverResets(row, fillIsPaper) == FALSE

\* A flat paper row does not carry its realized P&L into the live book.
resetsBookOnFill(row, fillIsPaper) ==
    row.qty = 0 /\ row.paper /\ ~paperAfterFill(row, fillIsPaper)

\* What applyFillById hands to applyFillToPosition.
PositionBefore(row, fillIsPaper) ==
    IF row.qty = 0 /\ (~row.opened \/ resetsBookOnFill(row, fillIsPaper))
    THEN emptyPosition
    ELSE [qty |-> row.qty, avg |-> row.avg, realized |-> row.realized,
          opened |-> row.opened]

\* Mutant: any row of the contract and job.
MatchAnyRow(strategyOf, strategy, none) ==
    IF DOMAIN strategyOf = {} THEN {} ELSE {CHOOSE r \in DOMAIN strategyOf : TRUE}

\* The rows a fill may update: strategyOf gives the strategy of each row of its
\* contract and job, none stands for no strategy.  More than one means the fill
\* is refused, none that a row is inserted.
matchPositionForFill(strategyOf, strategy, none) ==
    LET exact    == {r \in DOMAIN strategyOf : strategyOf[r] = strategy}
        untagged == {r \in DOMAIN strategyOf : strategyOf[r] = none}
        tagged   == DOMAIN strategyOf \ untagged
    IN  IF exact # {} THEN exact
        ELSE IF strategy # none
             THEN IF Cardinality(untagged) = 1 THEN untagged ELSE {}
        ELSE tagged
=============================================================================
