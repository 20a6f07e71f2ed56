---------------------------- MODULE OrderStates ----------------------------
(***************************************************************************)
(* The order status machine of the desk ledger: lib/trading/stateMachine,  *)
(* the Kite status mapping of lib/trading/kiteMap and the status sets that *)
(* the ledger, the risk gate and the placement rule select on.  Pure       *)
(* definitions, shared by OrderPlacement and Ledger.                       *)
(***************************************************************************)
EXTENDS Naturals

OrderStatus ==
    {"PENDING", "SUBMITTED", "ACCEPTED", "PARTIALLY_FILLED", "FILLED",
     "CANCEL_REQUESTED", "CANCELLED", "REJECTED", "EXPIRED", "FAILED", "UNKNOWN"}

\* The statuses a row may move to.
Allowed ==
    [s \in OrderStatus |->
        CASE s = "PENDING" ->
                {"SUBMITTED", "ACCEPTED", "PARTIALLY_FILLED", "FILLED", "FAILED",
                 "REJECTED", "CANCELLED", "UNKNOWN"}
          [] s = "SUBMITTED" ->
                {"ACCEPTED", "PARTIALLY_FILLED", "FILLED", "REJECTED", "CANCELLED",
                 "EXPIRED", "FAILED", "UNKNOWN", "CANCEL_REQUESTED"}
          [] s = "ACCEPTED" ->
                {"PARTIALLY_FILLED", "FILLED", "CANCEL_REQUESTED", "CANCELLED",
                 "EXPIRED", "REJECTED", "UNKNOWN"}
          [] s = "PARTIALLY_FILLED" ->
                {"PARTIALLY_FILLED", "FILLED", "CANCEL_REQUESTED", "CANCELLED",
                 "EXPIRED", "UNKNOWN"}
          [] s = "CANCEL_REQUESTED" ->
                {"CANCELLED", "FILLED", "PARTIALLY_FILLED", "EXPIRED", "UNKNOWN"}
          [] s = "FAILED" -> {"UNKNOWN", "SUBMITTED"}
          [] s = "UNKNOWN" ->
                {"SUBMITTED", "ACCEPTED", "PARTIALLY_FILLED", "FILLED", "CANCELLED",
                 "REJECTED", "EXPIRED", "FAILED", "CANCEL_REQUESTED"}
          [] OTHER -> {}]

canTransitionOrder(from, to) ==
    \/ from = to /\ from \in {"PARTIALLY_FILLED", "UNKNOWN", "ACCEPTED"}
    \/ to \in Allowed[from]

\* assertOrderTransition does not throw.
TransitionPasses(from, to) == from = to \/ canTransitionOrder(from, to)

\* getOpenOrders, WORKING_ORDER_STATUSES and OPEN_ORDER_STATUSES.
OPEN_ORDER_STATUSES ==
    {"PENDING", "SUBMITTED", "ACCEPTED", "PARTIALLY_FILLED", "CANCEL_REQUESTED",
     "UNKNOWN"}

\* A row in one of these statuses lets recordOrderIntent open a new key and
\* decideBrokerPlace place again.
RETRY_TERMINAL == {"REJECTED", "FAILED", "CANCELLED"}

\* The duplicate query of assertOrderAllowed (CANCEL_REQUESTED is not in it).
DUPLICATE_STATUSES ==
    {"PENDING", "SUBMITTED", "ACCEPTED", "PARTIALLY_FILLED", "UNKNOWN"}

\* Order states as the broker reports them.  PUT and AMO requests, validation
\* and open-pending all map alike, so one of them stands for the group.
KiteStatus ==
    {"OPEN PENDING", "OPEN", "COMPLETE", "REJECTED", "CANCELLED",
     "CANCEL PENDING", "EXPIRED"}

\* Mutant: broker statuses reach the ledger unmapped.
UnmappedStatus(kiteStatus, filled, requested) == kiteStatus

mapKiteOrderStatus(kiteStatus, filled, requested) ==
    LET base == CASE kiteStatus = "OPEN PENDING"   -> "SUBMITTED"
                  [] kiteStatus = "OPEN"           -> "ACCEPTED"
                  [] kiteStatus = "COMPLETE"       -> "FILLED"
                  [] kiteStatus = "REJECTED"       -> "REJECTED"
                  [] kiteStatus = "CANCELLED"      -> "CANCELLED"
                  [] kiteStatus = "CANCEL PENDING" -> "CANCEL_REQUESTED"
                  [] kiteStatus = "EXPIRED"        -> "EXPIRED"
                  [] OTHER                         -> "UNKNOWN"
    IN CASE base = "ACCEPTED" /\ filled >= requested /\ requested > 0 -> "FILLED"
         [] base = "ACCEPTED" /\ filled > 0 -> "PARTIALLY_FILLED"
         [] OTHER -> base

\* Mutant: the quantity advances without a saved fill.
CommitUnsaved(prev, kite, saved, from, next) ==
    [filledQty |-> IF kite > prev THEN kite ELSE prev,
     status |-> IF from = "FILLED" THEN "FILLED" ELSE next]

\* Mutant: FILLED is not kept.
CommitLatest(prev, kite, saved, from, next) ==
    [filledQty |-> IF kite > prev /\ saved THEN kite ELSE prev, status |-> next]

\* What a snapshot writes back: the filled quantity advances only when the
\* fill row was saved, FILLED is never left.
commitBrokerFillProgress(prev, kite, saved, from, next) ==
    IF kite > prev /\ ~saved
    THEN [filledQty |-> prev,
          status |-> IF next \in {"FILLED", "PARTIALLY_FILLED"} THEN from ELSE next]
    ELSE [filledQty |-> IF kite > prev THEN kite ELSE prev,
          status |-> IF from = "FILLED" THEN "FILLED" ELSE next]

=============================================================================
