------------------------------- MODULE Ledger -------------------------------
(***************************************************************************)
(* How executions reach the books: applyBrokerOrderSnapshot, insertFill,   *)
(* applyFillById, applyUnappliedFills and closeOpenOrderAsCancelled of     *)
(* lib/trading/ledger, driven by reconcileWithBroker, by the terminal sync *)
(* of Chase and by the order poll of remoteOrderSuccessEnsurer.            *)
(*                                                                         *)
(* Each driver is a writer: it reads the broker's book, then works through *)
(* it with a database call, and so an await, between the steps.  Only      *)
(* applyFillById runs in a transaction.  Every order has its row with the  *)
(* broker id already (OrderPlacement is about how it gets there).  The     *)
(* average price follows from the cumulative quantity and is left out, so  *)
(* a fingerprint is the order with the cumulative quantity.                *)
(***************************************************************************)
EXTENDS OrderStates, Integers, FiniteSets

CONSTANTS
    Writers,      \* concurrent drivers of applyBrokerOrderSnapshot
    Orders,       \* orders at the broker
    Qty,          \* requested quantity of each
    Overlap,      \* applyBrokerOrderSnapshot calls on one order may overlap
    Partial,      \* an order may be executed in several parts
    EndStatuses,  \* how an order that does not complete may end
    BookEmpties,  \* the broker's order book is cleared overnight
    MaxFails,     \* bound: failing inserts and fill transactions
    MaxCrashes    \* bound: restarts and failing row updates

ASSUME LedgerAssumption ==
    /\ Orders # {}
    /\ Qty \in Nat \ {0}
    /\ {Overlap, Partial, BookEmpties} \subseteq BOOLEAN
    /\ EndStatuses \subseteq {"CANCELLED", "REJECTED", "EXPIRED"}
    /\ {MaxFails, MaxCrashes} \subseteq Nat

VARIABLES
    broker,   \* per order: status and filled_quantity at the broker, gone
    orders,   \* the orders table: status and filled_qty
    fills,    \* the fills table
    applied,  \* the fills with applied_at set
    booked,   \* per order: what its fills moved the position by
    writer,   \* what each driver holds across its awaits
    fails, crashes

vars == <<broker, orders, fills, applied, booked, writer, fails, crashes>>
dbVars == <<orders, fills, applied, booked>>

Fill == [order: Orders, upTo: Nat, qty: Nat]
Snapshot == [status: KiteStatus, filled: Nat]
OrderRow == [status: OrderStatus, filledQty: Nat]

Local == [pc: {"idle", "read", "insert", "apply", "write", "close"},
          order: Orders, snap: Snapshot, row: OrderRow, saved: BOOLEAN]

\* The tables and what each driver holds across an await stay well formed.
TypeOK ==
    /\ broker \in [Orders -> [status: KiteStatus, filled: Nat, gone: BOOLEAN]]
    /\ orders \in [Orders -> OrderRow]
    /\ fills \in SUBSET Fill
    /\ applied \in SUBSET fills
    /\ booked \in [Orders -> Nat]
    /\ writer \in [Writers -> Local]
    /\ fails \in Nat
    /\ crashes \in Nat

Idle == [pc |-> "idle", order |-> CHOOSE o \in Orders : TRUE,
         snap |-> [status |-> "OPEN", filled |-> 0],
         row |-> [status |-> "SUBMITTED", filledQty |-> 0], saved |-> FALSE]

Init ==
    /\ broker = [o \in Orders |-> [status |-> "OPEN", filled |-> 0, gone |-> FALSE]]
    /\ orders = [o \in Orders |-> [status |-> "SUBMITTED", filledQty |-> 0]]
    /\ fills = {}
    /\ applied = {}
    /\ booked = [o \in Orders |-> 0]
    /\ writer = [w \in Writers |-> Idle]
    /\ fails = 0
    /\ crashes = 0

Becomes(w, local) == writer' = [writer EXCEPT ![w] = local]

-----------------------------------------------------------------------------
(***************************************************************************)
(* The broker                                                              *)
(***************************************************************************)
Executes(o) ==
    /\ broker[o].status \in {"OPEN", "CANCEL PENDING"}
    /\ ~broker[o].gone
    /\ \E q \in (IF Partial THEN broker[o].filled + 1 .. Qty ELSE {Qty}) :
          broker' = [broker EXCEPT ![o] =
              [broker[o] EXCEPT
                  !.filled = q,
                  !.status = IF q = Qty THEN "COMPLETE" ELSE broker[o].status]]
    /\ UNCHANGED <<dbVars, writer, fails, crashes>>

CancelRequested(o) ==
    /\ broker[o].status = "OPEN"
    /\ ~broker[o].gone
    /\ broker' = [broker EXCEPT ![o] = [broker[o] EXCEPT !.status = "CANCEL PENDING"]]
    /\ UNCHANGED <<dbVars, writer, fails, crashes>>

Ends(o) ==
    /\ broker[o].status \in {"OPEN", "CANCEL PENDING"}
    /\ ~broker[o].gone
    /\ \E s \in EndStatuses :
          broker' = [broker EXCEPT ![o] = [broker[o] EXCEPT !.status = s]]
    /\ UNCHANGED <<dbVars, writer, fails, crashes>>

\* The next trading day: the book no longer lists the order; a DAY order that
\* was still open has lapsed.
BookClears(o) ==
    /\ BookEmpties
    /\ ~broker[o].gone
    /\ broker' = [broker EXCEPT ![o] =
           [broker[o] EXCEPT
               !.gone = TRUE,
               !.status = IF broker[o].status \in {"OPEN", "CANCEL PENDING"}
                          THEN "CANCELLED" ELSE broker[o].status]]
    /\ UNCHANGED <<dbVars, writer, fails, crashes>>

-----------------------------------------------------------------------------
(***************************************************************************)
(* applyBrokerOrderSnapshot                                                *)
(***************************************************************************)
NextStatus(snap) == mapKiteOrderStatus(snap.status, snap.filled, Qty)

\* The driver has read the broker's book and reaches this order.
Fetch(w, o) ==
    /\ writer[w].pc = "idle"
    /\ ~broker[o].gone
    /\ Becomes(w, [writer[w] EXCEPT
           !.pc = "read", !.order = o,
           !.snap = [status |-> broker[o].status, filled |-> broker[o].filled]])
    /\ UNCHANGED <<broker, dbVars, fails, crashes>>

\* Mutant: a cancelled order is taken to have no fills.
BooksWorkingFill(snap, row) ==
    /\ snap.filled > row.filledQty
    /\ NextStatus(snap) \in {"PARTIALLY_FILLED", "FILLED"}

\* Does this snapshot book a fill?
booksFill(snap, row) ==
    /\ snap.filled > row.filledQty
    /\ NextStatus(snap) \in {"PARTIALLY_FILLED", "FILLED", "CANCELLED", "REJECTED"}

\* A call that has read the row of order o and not yet written it.
Between(o) ==
    \E w \in Writers : /\ writer[w].pc \in {"insert", "apply", "write"}
                       /\ writer[w].order = o

\* The row is selected; an illegal transition is only logged.  Nothing in the
\* code keeps two calls apart: Overlap = FALSE is an assumption of a run.
SnapRead(w) ==
    /\ writer[w].pc = "read"
    /\ Overlap \/ ~Between(writer[w].order)
    /\ LET row == orders[writer[w].order] IN
       Becomes(w, [writer[w] EXCEPT
           !.row = row,
           !.saved = writer[w].snap.filled <= row.filledQty,
           !.pc = IF booksFill(writer[w].snap, row) THEN "insert" ELSE "write"])
    /\ UNCHANGED <<broker, dbVars, fails, crashes>>

\* The fill with the fingerprint of this snapshot.
Fingerprinted(w) ==
    {f \in fills : f.order = writer[w].order /\ f.upTo = writer[w].snap.filled}

\* Mutant: the cumulative quantity is booked.
InsertCumulative(w) ==
    /\ writer[w].pc = "insert"
    /\ fills' = IF Fingerprinted(w) # {} THEN fills
                ELSE fills \cup {[order |-> writer[w].order,
                                  upTo |-> writer[w].snap.filled,
                                  qty |-> writer[w].snap.filled]}
    /\ Becomes(w, [writer[w] EXCEPT !.pc = "apply", !.saved = TRUE])
    /\ UNCHANGED <<broker, orders, applied, booked, fails, crashes>>

\* insertFill: ON CONFLICT DO NOTHING, the row with that fingerprint is used.
InsertFill(w) ==
    /\ writer[w].pc = "insert"
    /\ fills' = IF Fingerprinted(w) # {} THEN fills
                ELSE fills \cup {[order |-> writer[w].order,
                                  upTo |-> writer[w].snap.filled,
                                  qty |-> writer[w].snap.filled - writer[w].row.filledQty]}
    /\ Becomes(w, [writer[w] EXCEPT !.pc = "apply", !.saved = TRUE])
    /\ UNCHANGED <<broker, orders, applied, booked, fails, crashes>>

\* insertFill catches a database error and returns null.
InsertFails(w) ==
    /\ writer[w].pc = "insert"
    /\ fails < MaxFails
    /\ fails' = fails + 1
    /\ Becomes(w, [writer[w] EXCEPT !.pc = "write"])
    /\ UNCHANGED <<broker, dbVars, crashes>>

\* Mutant: applied_at is not looked at.
ApplyAgain(f) ==
    /\ applied' = applied \cup {f}
    /\ booked' = [booked EXCEPT ![f.order] = @ + f.qty]

\* The transaction of applyFillById on fill f.
ApplyTransaction(f) ==
    IF f \in applied THEN UNCHANGED <<applied, booked>>
    ELSE /\ applied' = applied \cup {f}
         /\ booked' = [booked EXCEPT ![f.order] = @ + f.qty]

ApplyFill(w) ==
    /\ writer[w].pc = "apply"
    /\ \E f \in Fingerprinted(w) : ApplyTransaction(f)
    /\ Becomes(w, [writer[w] EXCEPT !.pc = "write"])
    /\ UNCHANGED <<broker, orders, fills, fails, crashes>>

\* applyFillById rolls back and returns false, which the caller ignores.
ApplyFails(w) ==
    /\ writer[w].pc = "apply"
    /\ fails < MaxFails
    /\ fails' = fails + 1
    /\ Becomes(w, [writer[w] EXCEPT !.pc = "write"])
    /\ UNCHANGED <<broker, dbVars, crashes>>

\* Mutant: the filled quantity is not written back.
WrittenStatusOnly(w, current) ==
    [current EXCEPT !.status = NextStatus(writer[w].snap)]

\* The final UPDATE of the row, with what was read before the fill was booked.
Written(w, current) ==
    LET me == writer[w]
        to == commitBrokerFillProgress(me.row.filledQty, me.snap.filled, me.saved,
                                       me.row.status, NextStatus(me.snap))
    IN [filledQty |-> to.filledQty,
        status |-> IF to.status # me.row.status \/ to.status = "PARTIALLY_FILLED"
                   THEN to.status ELSE current.status]

WriteRow(w) ==
    /\ writer[w].pc = "write"
    /\ orders' = [orders EXCEPT ![writer[w].order] = Written(w, @)]
    /\ Becomes(w, Idle)
    /\ UNCHANGED <<broker, fills, applied, booked, fails, crashes>>

\* The UPDATE throws and the driver gives up.
WriteFails(w) ==
    /\ writer[w].pc = "write"
    /\ crashes < MaxCrashes
    /\ crashes' = crashes + 1
    /\ Becomes(w, Idle)
    /\ UNCHANGED <<broker, dbVars, fails>>

-----------------------------------------------------------------------------
(***************************************************************************)
(* The rest of reconcileWithBroker, and the process                        *)
(***************************************************************************)

\* applyUnappliedFills: one turn of its loop.
ApplyPending ==
    /\ \E f \in fills \ applied : ApplyTransaction(f)
    /\ UNCHANGED <<broker, orders, fills, writer, fails, crashes>>

\* A working row without fills whose order the book no longer lists
\* (missingDayOrderShouldExpire), selected by closeOpenOrderAsCancelled.
CloseRead(w, o) ==
    /\ writer[w].pc = "idle"
    /\ broker[o].gone
    /\ orders[o].status \in OPEN_ORDER_STATUSES
    /\ orders[o].filledQty = 0
    /\ Becomes(w, [writer[w] EXCEPT !.pc = "close", !.order = o,
                                !.row = orders[o]])
    /\ UNCHANGED <<broker, dbVars, fails, crashes>>

\* Mutant: the UPDATE looks for the row by its id only.
CloseBlind(w) ==
    /\ writer[w].pc = "close"
    /\ orders' = [orders EXCEPT ![writer[w].order].status = "CANCELLED"]
    /\ Becomes(w, Idle)
    /\ UNCHANGED <<broker, fills, applied, booked, fails, crashes>>

\* Its UPDATE has the status and the quantity read before in its WHERE.
CloseWrite(w) ==
    /\ writer[w].pc = "close"
    /\ orders' = [orders EXCEPT ![writer[w].order] =
           IF @ = writer[w].row THEN [@ EXCEPT !.status = "CANCELLED"] ELSE @]
    /\ Becomes(w, Idle)
    /\ UNCHANGED <<broker, fills, applied, booked, fails, crashes>>

Crash ==
    /\ crashes < MaxCrashes
    /\ crashes' = crashes + 1
    /\ writer' = [w \in Writers |-> Idle]
    /\ UNCHANGED <<broker, dbVars, fails>>

-----------------------------------------------------------------------------
BrokerStep(o) == Executes(o) \/ CancelRequested(o) \/ Ends(o) \/ BookClears(o)

SnapshotStep(w) ==
    \/ SnapRead(w) \/ InsertFill(w) \/ InsertFails(w) \/ ApplyFill(w)
    \/ ApplyFails(w) \/ WriteRow(w) \/ WriteFails(w)

Next ==
    \/ \E o \in Orders : BrokerStep(o)
    \/ \E w \in Writers : SnapshotStep(w) \/ CloseWrite(w)
    \/ \E w \in Writers, o \in Orders : Fetch(w, o) \/ CloseRead(w, o)
    \/ ApplyPending
    \/ Crash

Spec == Init /\ [][Next]_vars

\* Drivers keep running (the minute pass of Chase, the end-of-day sync, the
\* operator's reconcile): every order in the book is read again and again, and
\* a pass that has begun goes on unless the process dies.
LiveSpec ==
    /\ Spec
    /\ \A w \in Writers : WF_vars(SnapshotStep(w)) /\ WF_vars(CloseWrite(w))
    /\ \A o \in Orders : SF_vars(\E w \in Writers : Fetch(w, o))
    /\ WF_vars(ApplyPending)

-----------------------------------------------------------------------------
(***************************************************************************)
(* Properties                                                              *)
(***************************************************************************)

\* No execution moves the position twice: the fills of an order never add up
\* to more than the broker executed, however often and by whomever the same
\* order is read.
NoOverbook == \A o \in Orders : booked[o] <= broker[o].filled

\* The filled quantity of a row is backed by a saved fill row, so a snapshot
\* that is ignored because nothing is new has been booked or will be.
FilledQtyBacked ==
    \A o \in Orders : orders[o].filledQty > 0 =>
        \E f \in fills : f.order = o /\ f.upTo = orders[o].filledQty

\* Reconcile's close of an order the book no longer lists never takes back an
\* execution: once no snapshot of the order is in hand, a CANCELLED row has no
\* saved fill, or it ended at the broker with the part it executed.  An
\* execution no driver has saved is not covered (crashes and drivers that
\* overlap can leave one behind), nor is one nobody has read.
CloseSparesFills ==
    crashes = 0 => \A o \in Orders :
        orders[o].status = "CANCELLED" /\ ~Between(o) =>
            \/ \A f \in fills : f.order # o
            \/ broker[o].status # "COMPLETE" /\ orders[o].filledQty > 0

\* A row that is FILLED stays FILLED and its quantity never goes back,
\* whatever older snapshots arrive afterwards.
ProgressKept ==
    [][\A o \in Orders :
          /\ orders[o].status = "FILLED" => orders'[o].status = "FILLED"
          /\ orders'[o].filledQty >= orders[o].filledQty]_vars

Book == INSTANCE FillBook WITH
            executed <- [o \in Orders |-> broker[o].filled]

\* Ledger implements FillBook: executions are booked once, never ahead.
ImplementsFillBook == Book!Spec

\* Once an order is done, everything it executed is in the position for good,
\* unless the broker's book is emptied before anybody has read it.
FillsBooked ==
    \A o \in Orders :
        broker[o].status \in {"COMPLETE", "CANCELLED", "REJECTED", "EXPIRED"}
            ~> (broker[o].gone \/ [](booked[o] = broker[o].filled))

=============================================================================
