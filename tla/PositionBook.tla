---------------------------- MODULE PositionBook ----------------------------
(***************************************************************************)
(* How fills become positions and trades: applyFillById,                   *)
(* applyUnappliedFills and syncTrade of lib/trading/ledger, the operator's *)
(* clearPhantomPosition and clearPaperBook, and the switch of a strategy   *)
(* between paper and live (pages/api/desk/risk, lib/trading/goLive).       *)
(*                                                                         *)
(* One contract, product and job: applyFillById locks exactly these rows,  *)
(* so two contracts do not meet.  A position is a row per strategy (and    *)
(* one for no strategy).  Fills are applied by the call that booked them   *)
(* or by reconcile, in any order, several at a time.  An application is    *)
(* one transaction: it is split where it can see the world change, between *)
(* its SELECT of the rows (which locks rows that exist, not rows that do   *)
(* not) and the rest, which runs with the rows locked.                     *)
(***************************************************************************)
EXTENDS Accounting, Sequences, Functions

CONSTANTS
    Strategies,    \* the strategies that trade the contract
    NoStrategy,    \* a fill or a row without one
    Workers,       \* calls of applyFillById under way
    Quantities,    \* signed quantities of a fill
    Prices,        \* the price of the n-th fill
    QuietClears,   \* no fill executes or is applied while a clear or a mode
                   \* switch runs (nothing in the code sees to it)
    SharedRows,    \* both books trade the contract one after the other, and
                   \* untagged orders fill beside paper strategies
    MaxFills,      \* bound: fills
    MaxClears,     \* bound: clears by the operator or a mode switch
    MaxFailures    \* bound: failed transactions and restarts

ASSUME PositionAssumption ==
    /\ NoStrategy \notin Strategies
    /\ Quantities \subseteq Int \ {0}
    /\ Prices \in [1..MaxFills -> Nat]
    /\ {QuietClears, SharedRows} \subseteq BOOLEAN
    /\ {MaxFills, MaxClears, MaxFailures} \subseteq Nat

VARIABLES
    mode,      \* executionMode of each strategy
    fills,     \* the fills table with, for each applied fill, its event
    rows,      \* the positions rows; the row id is the index
    trades,    \* the trades of those rows
    worker,    \* what each applyFillById holds
    clear,     \* what clearPhantomPosition or clearPaperBook holds
    audit,     \* the audit events of cleared rows
    broken,    \* rows whose clear was cut off by a restart
    clears, failures

vars == <<mode, fills, rows, trades, worker, clear, audit, broken, clears,
          failures>>

Tags == Strategies \cup {NoStrategy}
FillIds == DOMAIN fills
RowIds == {r \in DOMAIN rows : ~rows[r].gone}

\* state: recorded, applied or deleted; row, delta, kind and after are the
\* position event of the application.
Fill == [tag: Tags, qty: Int, price: Nat, paper: BOOLEAN,
         state: {"new", "applied", "deleted"}, row: Nat, delta: Int,
         kind: FillKinds, after: Int]

Row == [tag: Tags, paper: BOOLEAN, qty: Int, avg: Int, realized: Int,
        opened: BOOLEAN, gone: BOOLEAN]

Trade == [row: Nat, long: BOOLEAN, open: BOOLEAN, entry: Nat, exit: Nat,
          gross: Int, paper: BOOLEAN, gone: BOOLEAN]

ClearPCs == {"idle", "zero", "trades", "delete"}

\* Every table keeps its columns' types.
TypeOK ==
    /\ mode \in [Strategies -> {"PAPER", "LIVE"}]
    /\ fills \in Seq(Fill)
    /\ rows \in Seq(Row)
    /\ trades \in Seq(Trade)
    /\ worker \in [Workers -> [fill: Nat, seen: SUBSET Nat]]
    /\ clear \in [pc: ClearPCs, row: Nat, qty: Int, then: Tags]
    /\ audit \in Seq([row: Nat, paper: BOOLEAN, qty: Int])
    /\ broken \subseteq Nat
    /\ {clears, failures} \subseteq Nat

IdleWorker == [fill |-> 0, seen |-> {}]
IdleClear == [pc |-> "idle", row |-> 0, qty |-> 0, then |-> NoStrategy]

\* The desk starts the day on paper or live, with no row for the contract.
Init ==
    /\ mode \in {[s \in Strategies |-> m] : m \in {"PAPER", "LIVE"}}
    /\ fills = <<>>
    /\ rows = <<>>
    /\ trades = <<>>
    /\ worker = [w \in Workers |-> IdleWorker]
    /\ clear = IdleClear
    /\ audit = <<>>
    /\ broken = {}
    /\ clears = 0
    /\ failures = 0

Busy == \E w \in Workers : worker[w].fill # 0
Quiet == ~Busy /\ \A f \in FillIds : fills[f].state # "new"

\* What a set of fills bought and sold.
QtyOf(ids) == SumFunctionOnSet([f \in ids |-> fills[f].qty], ids)

-----------------------------------------------------------------------------
(***************************************************************************)
(* Fills                                                                   *)
(***************************************************************************)

IsPaper(tag) == tag # NoStrategy /\ mode[tag] = "PAPER"

\* An execution is recorded: paper or live by the mode of its strategy, live
\* when it has none (an order made outside the desk).
Executes(tag, qty) ==
    /\ Len(fills) < MaxFills
    /\ QuietClears => clear.pc = "idle"
    /\ tag = NoStrategy /\ ~SharedRows => \A s \in Strategies : mode[s] = "LIVE"
    /\ fills' = Append(fills,
          [tag |-> tag, qty |-> qty, price |-> Prices[Len(fills) + 1],
           paper |-> IsPaper(tag), state |-> "new", row |-> 0, delta |-> 0,
           kind |-> "OPENED", after |-> 0])
    /\ UNCHANGED <<mode, rows, trades, worker, clear, audit, broken, clears,
                   failures>>

\* Mutant: the fill is read without FOR UPDATE.
SelectUnlocked(w, f) ==
    /\ worker[w].fill = 0
    /\ QuietClears => clear.pc = "idle"
    /\ fills[f].state = "new"
    /\ worker' = [worker EXCEPT ![w] = [fill |-> f, seen |-> RowIds]]
    /\ UNCHANGED <<mode, fills, rows, trades, clear, audit, broken, clears,
                   failures>>

\* BEGIN, lock the fill, and select the rows of its contract and job.
ApplySelect(w, f) ==
    /\ worker[w].fill = 0
    /\ QuietClears => clear.pc = "idle"
    /\ fills[f].state = "new"
    /\ \A v \in Workers : worker[v].fill # f
    /\ worker' = [worker EXCEPT ![w] = [fill |-> f, seen |-> RowIds]]
    /\ UNCHANGED <<mode, fills, rows, trades, clear, audit, broken, clears,
                   failures>>

OpenTrades(r) ==
    {t \in DOMAIN trades : trades[t].row = r /\ trades[t].open /\ ~trades[t].gone}

NewTrade(r, long, fill, entry) ==
    [row |-> r, long |-> long, open |-> TRUE, entry |-> entry, exit |-> 0,
     gross |-> 0, paper |-> fill.paper, gone |-> FALSE]

CloseBy(trade, closed, delta, stillOpen) ==
    [trade EXCEPT !.exit = @ + closed, !.gross = @ + delta, !.open = stillOpen]

\* syncTrade: the trades of row r after a fill took it from quantity before.
\* A reversal closes the open trade and opens one for what is left over; a
\* close without an open trade still leaves a closed one.
SyncTrade(r, fill, before, delta) ==
    LET kind   == fillKind(before, fill.qty)
        closed == closedQty(before, fill.qty)
        opened == openedQty(before, fill.qty)
        after  == before + fill.qty
        open   == OpenTrades(r)
        t      == CHOOSE i \in open : TRUE
        orphan == NewTrade(r, before > 0, fill, IF opened > 0 THEN opened
                                                ELSE Abs(after + closed))
    IN  CASE kind \in {"OPENED", "REVERSED"} ->
                LET old == IF kind = "REVERSED" /\ open # {}
                           THEN [trades EXCEPT ![t] = CloseBy(@, closed, delta, FALSE)]
                           ELSE trades
                IN  Append(old, NewTrade(r, after > 0, fill, opened))
          [] kind = "CLOSED" /\ open = {} ->
                Append(trades, CloseBy(NewTrade(r, before > 0, fill, closed),
                                       closed, delta, FALSE))
          [] kind = "INCREASED" ->
                IF open = {}
                THEN Append(trades, [orphan EXCEPT !.entry = @ + opened])
                ELSE [trades EXCEPT ![t].entry = @ + opened]
          [] OTHER ->
                IF open = {}
                THEN Append(trades, CloseBy(orphan, closed, delta, TRUE))
                ELSE [trades EXCEPT ![t] = CloseBy(@, closed, delta, kind = "REDUCED")]

\* Mutant: cleared rows are kept and still hold the index.
TagTakenByDeleted(tag, r) == \E q \in DOMAIN rows \ {r} : rows[q].tag = tag

\* A second row of one strategy (positions_book_uidx).
TagTaken(tag, r) == \E q \in RowIds \ {r} : rows[q].tag = tag

NewRow(fill) ==
    [tag |-> fill.tag, paper |-> fill.paper, qty |-> 0, avg |-> 0,
     realized |-> 0, opened |-> FALSE, gone |-> FALSE]

RowAfter(row, fill) ==
    LET next == applyFillToPosition(PositionBefore(row, fill.paper), fill.qty,
                                    fill.price)
    IN  [row EXCEPT !.tag = IF @ = NoStrategy THEN fill.tag ELSE @,
                    !.paper = paperAfterFill(row, fill.paper),
                    !.qty = next.qty, !.avg = next.avg,
                    !.realized = next.realized, !.opened = next.opened]

\* The rest of the transaction, once the rows it saw are locked: ok is FALSE
\* when it refuses the fill or an index rejects a write.
Application(f, seen) ==
    LET fill    == fills[f]
        tags    == [r \in seen \cap RowIds |-> rows[r].tag]
        matched == matchPositionForFill(tags, fill.tag, NoStrategy)
        insert  == matched = {}
        r       == IF insert THEN Len(rows) + 1 ELSE CHOOSE q \in matched : TRUE
        row     == IF insert THEN NewRow(fill) ELSE rows[r]
        next    == RowAfter(row, fill)
        before  == PositionBefore(row, fill.paper)
        delta   == realizedDelta(before, fill.qty, fill.price)
    IN  [ok     |-> /\ Cardinality(matched) <= 1
                    /\ ~TagTaken(next.tag, r)
                    /\ fillKind(row.qty, fill.qty) = "OPENED" => OpenTrades(r) = {},
         rows   |-> IF insert THEN Append(rows, next) ELSE [rows EXCEPT ![r] = next],
         trades |-> SyncTrade(r, fill, row.qty, delta),
         fill   |-> [fill EXCEPT !.state = "applied", !.row = r, !.delta = delta,
                                 !.kind = fillKind(row.qty, fill.qty),
                                 !.after = next.qty]]

\* COMMIT: position, event, trade and applied_at together.
ApplyCommit(w) ==
    LET f == worker[w].fill
        done == Application(f, worker[w].seen)
    IN  /\ f # 0
        /\ done.ok
        /\ rows' = done.rows
        /\ trades' = done.trades
        /\ fills' = [fills EXCEPT ![f] = done.fill]
        /\ worker' = [worker EXCEPT ![w] = IdleWorker]
        /\ UNCHANGED <<mode, clear, audit, broken, clears, failures>>

\* ROLLBACK: refused, or rejected by an index.  The fill stays unapplied.
ApplyRefused(w) ==
    LET f == worker[w].fill
    IN  /\ f # 0
        /\ ~Application(f, worker[w].seen).ok
        /\ worker' = [worker EXCEPT ![w] = IdleWorker]
        /\ UNCHANGED <<mode, fills, rows, trades, clear, audit, broken, clears,
                       failures>>

\* The database fails the transaction or the process restarts inside it.
ApplyFails(w) ==
    /\ worker[w].fill # 0
    /\ failures < MaxFailures
    /\ failures' = failures + 1
    /\ worker' = [worker EXCEPT ![w] = IdleWorker]
    /\ UNCHANGED <<mode, fills, rows, trades, clear, audit, broken, clears>>

-----------------------------------------------------------------------------
(***************************************************************************)
(* Clearing a phantom row, switching the mode, clearing the paper book     *)
(***************************************************************************)

\* What Kite shows for the contract: every live execution, applied or not.
kiteQty == QtyOf({f \in FillIds : ~fills[f].paper /\ fills[f].state # "deleted"})

ClearBegins ==
    /\ clear.pc = "idle"
    /\ clears < MaxClears
    /\ QuietClears => Quiet
    /\ clears' = clears + 1

\* clearPhantomPosition reads the row and, for a live one, Kite.  A working
\* order of the symbol blocks it; one may still be placed right after.
ClearPhantom(r, then) ==
    /\ ClearBegins
    /\ rows[r].qty # 0
    /\ ~rows[r].paper => kiteQty = 0
    /\ clear' = [pc |-> "zero", row |-> r, qty |-> rows[r].qty, then |-> then]
    /\ UNCHANGED <<mode, fills, rows, trades, worker, audit, broken, failures>>

\* The UPDATE of the row, whatever its quantity is by now.
ClearZero ==
    /\ clear.pc = "zero"
    /\ rows' = [rows EXCEPT ![clear.row].qty = 0]
    /\ clear' = [clear EXCEPT !.pc = "trades"]
    /\ UNCHANGED <<mode, fills, trades, worker, audit, broken, clears, failures>>

\* The UPDATE of the open trades, the audit event, and, inside a switch to
\* live, the new mode.
ClearTrades ==
    /\ clear.pc = "trades"
    /\ trades' = [t \in DOMAIN trades |->
                    IF t \in OpenTrades(clear.row)
                    THEN [trades[t] EXCEPT !.open = FALSE, !.exit = Abs(clear.qty)]
                    ELSE trades[t]]
    /\ audit' = Append(audit, [row |-> clear.row, paper |-> rows[clear.row].paper,
                                qty |-> clear.qty])
    /\ mode' = IF clear.then = NoStrategy THEN mode
               ELSE [mode EXCEPT ![clear.then] = "LIVE"]
    /\ clear' = IdleClear
    /\ UNCHANGED <<fills, rows, worker, broken, clears, failures>>

\* A restart between the statements: there is no transaction around them.
ClearStops ==
    /\ clear.pc \in {"zero", "trades"}
    /\ failures < MaxFailures
    /\ failures' = failures + 1
    /\ broken' = IF clear.pc = "trades" THEN broken \cup {clear.row} ELSE broken
    /\ clear' = IdleClear
    /\ UNCHANGED <<mode, fills, rows, trades, worker, audit, clears>>

\* executionModeSwitchBlocked: the strategy's live book must be empty, in the
\* ledger and, for a contract the strategy has a row open in, at Kite.
liveOpen(s) ==
    \E r \in RowIds : /\ rows[r].tag = s
                      /\ rows[r].qty # 0
                      /\ ~rows[r].paper \/ kiteQty # 0

PaperRows(s) == {r \in RowIds : rows[r].tag = s /\ rows[r].paper /\ rows[r].qty # 0}

\* prepareStrategyGoLive archives the open paper row of the strategy first.
GoLive(s) ==
    /\ mode[s] = "PAPER"
    /\ ~liveOpen(s)
    /\ \/ \E r \in PaperRows(s) : ClearPhantom(r, s)
       \/ /\ PaperRows(s) = {}
          /\ ClearBegins
          /\ mode' = [mode EXCEPT ![s] = "LIVE"]
          /\ UNCHANGED <<fills, rows, trades, worker, clear, audit, broken,
                         failures>>

GoPaper(s) ==
    /\ mode[s] = "LIVE"
    /\ ~liveOpen(s)
    /\ ~SharedRows => \A f \in FillIds : fills[f].paper
    /\ ClearBegins
    /\ mode' = [mode EXCEPT ![s] = "PAPER"]
    /\ UNCHANGED <<fills, rows, trades, worker, clear, audit, broken, failures>>

\* clearPaperBook counts the open paper rows first ...
PaperCheck ==
    /\ ClearBegins
    /\ \E f \in FillIds : fills[f].paper /\ fills[f].state # "deleted"
    /\ \A r \in RowIds : rows[r].paper => rows[r].qty = 0
    /\ clear' = [IdleClear EXCEPT !.pc = "delete"]
    /\ UNCHANGED <<mode, fills, rows, trades, worker, audit, broken, failures>>

EventsOf(r) == {f \in FillIds : fills[f].state = "applied" /\ fills[f].row = r}

DeltaOf(ids) == SumFunctionOnSet([f \in ids |-> fills[f].delta], ids)

LiveRealized(r) == DeltaOf({f \in EventsOf(r) : ~fills[f].paper})

\* ... and then, in the same transaction, takes the paper P&L out of live rows
\* and deletes the paper fills, their trades and the flat paper rows.
PaperDelete ==
    /\ clear.pc = "delete"
    /\ ~Busy
    /\ rows' = [r \in DOMAIN rows |->
          IF r \notin RowIds THEN rows[r]
          ELSE IF rows[r].paper
               THEN [rows[r] EXCEPT !.gone = rows[r].qty = 0]
          ELSE IF \E f \in EventsOf(r) : fills[f].paper
               THEN [rows[r] EXCEPT !.realized = LiveRealized(r)]
          ELSE rows[r]]
    /\ fills' = [f \in FillIds |-> IF fills[f].paper
                                   THEN [fills[f] EXCEPT !.state = "deleted"]
                                   ELSE fills[f]]
    /\ trades' = [t \in DOMAIN trades |->
                    IF trades[t].paper THEN [trades[t] EXCEPT !.gone = TRUE]
                    ELSE trades[t]]
    /\ clear' = IdleClear
    /\ UNCHANGED <<mode, worker, audit, broken, clears, failures>>

-----------------------------------------------------------------------------

\* A transaction ends, by COMMIT or ROLLBACK: one of the two is always possible.
Ends(w) == worker[w].fill # 0 /\ worker' = [worker EXCEPT ![w] = IdleWorker]

Next ==
    \/ \E tag \in Tags, qty \in Quantities : Executes(tag, qty)
    \/ \E w \in Workers :
            \/ \E f \in FillIds : ApplySelect(w, f)
            \/ ApplyCommit(w)
            \/ ApplyRefused(w)
            \/ ApplyFails(w)
    \/ \E r \in RowIds : ClearPhantom(r, NoStrategy)
    \/ ClearZero
    \/ ClearTrades
    \/ ClearStops
    \/ \E s \in Strategies : GoLive(s) \/ GoPaper(s)
    \/ PaperCheck
    \/ PaperDelete

Spec == Init /\ [][Next]_vars

\* Reconcile keeps calling applyUnappliedFills, which tries every pending fill
\* in its turn, and every started transaction and clear ends.
Fairness ==
    /\ \A f \in 1..MaxFills :
            SF_vars(f \in FillIds /\ \E w \in Workers : ApplySelect(w, f))
    /\ \A w \in Workers : WF_worker(Ends(w))
    /\ WF_vars(ClearZero \/ ClearTrades \/ PaperDelete)

LiveSpec == Spec /\ Fairness

-----------------------------------------------------------------------------
(***************************************************************************)
(* What must hold                                                          *)
(***************************************************************************)

\* No clear is between its statements.
Settled == clear.pc \in {"idle", "delete"}

FillsOf(r, paper) ==
    {f \in FillIds : fills[f].row = r /\ fills[f].paper = paper}

ClearedQty(ids) == SumFunctionOnSet([e \in ids |-> audit[e].qty], ids)

ClearsOf(r) == {e \in DOMAIN audit : audit[e].row = r /\ audit[e].paper = rows[r].paper}

\* The quantity of a row is what the fills of its own book, each counted once,
\* bought and sold, less what the operator was told had been cleared: paper
\* and live never share quantity, and no interleaving of applyFillById, of
\* its failures and of clears on a quiet contract loses or repeats a fill.
BookOwnsQuantity ==
    Settled =>
        \A r \in RowIds \ broken :
            rows[r].qty = QtyOf(FillsOf(r, rows[r].paper)) - ClearedQty(ClearsOf(r))

\* An open position has exactly one open trade, in its direction, whose entry
\* less its exit is the open quantity; a flat one has none (syncTrade through
\* reversals, clears and concurrent first fills).
TradesMatchRows ==
    Settled =>
        \A r \in RowIds \ broken :
            IF rows[r].qty = 0 THEN OpenTrades(r) = {}
            ELSE \E t \in DOMAIN trades :
                    /\ OpenTrades(r) = {t}
                    /\ trades[t].long = (rows[r].qty > 0)
                    /\ trades[t].entry - trades[t].exit = Abs(rows[r].qty)

TradesOf(r, paper) ==
    {t \in DOMAIN trades :
        trades[t].row = r /\ trades[t].paper = paper /\ ~trades[t].gone}

GrossOf(ids) == SumFunctionOnSet([t \in ids |-> trades[t].gross], ids)

\* The realized P&L of a row is the gross P&L of the trades of its own book:
\* the Desk's two figures agree, and a paper cycle leaves nothing in a live one.
RealizedIsTrades ==
    \A r \in RowIds : rows[r].realized = GrossOf(TradesOf(r, rows[r].paper))

Cash(ids) == SumFunctionOnSet([f \in ids |-> -(fills[f].qty * fills[f].price)], ids)

\* Twice the rounding an average price may add up to.
Rounding(ids) ==
    SumFunctionOnSet([f \in ids |-> IF fills[f].kind = "INCREASED"
                                    THEN Abs(fills[f].after) ELSE 0], ids)

\* A row that is flat and was never cleared realized exactly the cash its fills
\* brought in, whatever order they were applied in, up to the rounding of the
\* average price (half a unit per share held at each increase).
FlatIsCash ==
    Settled => \A r \in RowIds :
        LET mine == FillsOf(r, rows[r].paper)
        IN  rows[r].qty = 0 /\ ClearsOf(r) = {} /\ r \notin broken
            => 2 * Abs(rows[r].realized - Cash(mine)) <= Rounding(mine)

\* A fill of a named strategy never moves the row of another strategy
\* (matchPositionForFill, with rows inserted and claimed by concurrent calls).
NamedStaysNamed ==
    \A f \in FillIds :
        fills[f].state = "applied" /\ fills[f].tag # NoStrategy
            => rows[fills[f].row].tag = fills[f].tag

IsPending(f) == f \in FillIds /\ fills[f].state = "new"

\* The fill belongs to no strategy and more than one holds the contract.
Ambiguous(f) ==
    /\ f \in FillIds
    /\ fills[f].tag = NoStrategy
    /\ Cardinality({r \in RowIds : rows[r].tag # NoStrategy}) > 1

\* Every recorded fill reaches a position, although applications fail and race
\* for the first row, unless it is refused as ambiguous or the row it belongs
\* to was left half cleared.
FillsApplied ==
    \A f \in 1..MaxFills :
        IsPending(f) ~> (~IsPending(f) \/ Ambiguous(f) \/ broken # {})

=============================================================================
