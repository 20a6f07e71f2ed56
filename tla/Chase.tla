------------------------------- MODULE Chase --------------------------------
(***************************************************************************)
(* One live Chase book: the futures position that generateSignal (hourly)  *)
(* opens and processUpdateSLForInstrument (every minute) stops, trails and *)
(* closes, with placeSL, the operator's Pause and resetChaseSignalState,   *)
(* and the end of the trading day.                                         *)
(*                                                                         *)
(* The chase worker runs one job at a time; its jobs interleave, between   *)
(* their awaits, with the broker's executions, the positions feed, which   *)
(* may lag behind them, and the operator.  Sides are +1 (BUY, LONG) and -1 *)
(* (SELL, SHORT).  Prices are labels, kept as far as they tell intent keys *)
(* apart; what the candles show is an input.  One lot is one unit.  Left   *)
(* out: paper books, rollover, several books, partial fills, lots set to   *)
(* zero, orders of other strategies in the contract.                       *)
(***************************************************************************)
EXTENDS Integers, FiniteSets, FiniteSetsExt, Functions

CONSTANTS
    Settings,      \* the surroundings looked at, see Setting
    MaxOrders,     \* bound: orders sent
    MaxHours,      \* bound: hourly jobs
    MaxDays        \* bound: nights passed

\* sides, signals: the signals the closes may give, and how many; failures: how
\* many reads or requests fail; blind: the two whose errors the code swallows, the
\* order list on a touch and the cancel of a reset, may be among them; lag: the
\* positions feed follows later; gaps: a triggered limit order may stay open;
\* writer: another process syncs the ledger; pause, reset: the operator uses them.
Setting == [sides: SUBSET {-1, 1}, signals: Nat, failures: Nat, lag: BOOLEAN, blind: BOOLEAN,
            gaps: BOOLEAN, writer: BOOLEAN, pause: BOOLEAN, reset: BOOLEAN]

ASSUME ChaseAssumption ==
    /\ {MaxOrders, MaxHours, MaxDays} \subseteq Nat
    /\ Settings \subseteq Setting

VARIABLES
    status,    \* the chase_status row
    orders,    \* the broker's orders with tag chase, and their ledger rows
    pos,       \* the position the executed orders make
    feed,      \* the position kite.getPositions reports
    job,       \* the job the chase worker is running
    op,        \* the operator's reset
    paused,    \* chase_settings.paused
    phase,     \* is the session open?
    count,     \* bounds used, and labels given to prices
    env        \* the setting of this behaviour; it never changes

world == <<pos, feed, op, paused, phase>>
vars == <<status, orders, job, count, world, env>>

Ids == 1..MaxOrders
Sides == {-1, 1}
Fresh == -1        \* a price no other order has
Pos(n) == IF n > 0 THEN n ELSE 0
Abs(n) == IF n < 0 THEN -n ELSE n
Sgn(n) == IF n < 0 THEN -1 ELSE 1

\* sl, entry: labels of the stop and of the entry trigger; known: tradingsymbol
\* is set; breach: isSignalBreachingTolerance; stale: updatedAt is not today;
\* old: createdAt is an earlier day.
Status == [st: {"SIGNAL", "AWAIT", "IN"}, side: Sides, sl: Nat, entry: Nat,
           known: BOOLEAN, breach: BOOLEAN, stale: BOOLEAN, old: BOOLEAN]

\* st: pending waits for its trigger, open was triggered and the market has passed
\* its limit, market waits for nothing; price: the price in the intent key, 0 for
\* a market order; listed: kite.getOrders still returns it; booked: its end has
\* reached the ledger row.
Live == {"pending", "open", "market"}
Order == [st: {"none", "done", "cancelled"} \cup Live, side: Sides,
          role: {"ENTRY", "SL", "EXIT"}, price: Int, qty: 1..2,
          listed: BOOLEAN, booked: BOOLEAN]

\* What a job keeps across its awaits.  row: the status row as it read it; net,
\* known: the quantity it read; done, work: executed and working orders of the
\* order list it read; flag: the ledger showed a working entry; qty: the size it
\* is about to send.
PCs == {"idle", "adopt", "morning", "mexit", "mplace", "msettle", "candle",
        "cov1", "cov2", "cov3", "cov4", "ent1", "ent2", "ent3", "ent4", "ent5",
        "ent6", "ent7", "hold1", "hold2", "sl1", "sl2", "sl3", "sig", "cancel",
        "drop", "gin", "gtrail", "gsig", "gawait"}
Plans == {"none", "skip", "covered", "convert", "place"}
Job == [pc: PCs, kind: {"minute", "hour", "trail", "eod"}, row: Status, net: -2..2,
        known: BOOLEAN, done: SUBSET Ids, work: SUBSET Ids, flag: BOOLEAN,
        plan: Plans, qty: 0..2]

\* The row, the orders and what a job holds across its awaits stay well formed.
TypeOK ==
    /\ status \in Status
    /\ orders \in [Ids -> Order]
    /\ pos \in -2..2 /\ feed \in -2..2
    /\ job \in Job
    /\ op \in [pc: {"idle", "apply"}, side: Sides]
    /\ paused \in BOOLEAN
    /\ phase \in {"open", "closed"}
    /\ count \in [signals: 0..env.signals, prices: Nat, hours: 0..MaxHours,
                  days: 0..MaxDays, failures: 0..env.failures, resets: 0..1]
    /\ env \in Settings

NoOrder == [st |-> "none", side |-> 1, role |-> "ENTRY", price |-> 0, qty |-> 1,
            listed |-> FALSE, booked |-> FALSE]

NoSignal == [st |-> "SIGNAL", side |-> 1, sl |-> 0, entry |-> 0, known |-> FALSE,
             breach |-> FALSE, stale |-> FALSE, old |-> FALSE]

Idle == [pc |-> "idle", kind |-> "minute", row |-> NoSignal, net |-> 0, known |-> TRUE,
         done |-> {}, work |-> {}, flag |-> FALSE, plan |-> "none", qty |-> 0]

Init ==
    /\ env \in Settings
    /\ status = NoSignal
    /\ orders = [i \in Ids |-> NoOrder]
    /\ pos = 0 /\ feed = 0
    /\ job = Idle
    /\ op = [pc |-> "idle", side |-> 1]
    /\ paused = FALSE
    /\ phase = "open"
    /\ count = [signals |-> 0, prices |-> 0, hours |-> 0, days |-> 0, failures |-> 0,
                resets |-> 0]

-----------------------------------------------------------------------------
(***************************************************************************)
(* Reading the book, the orders and the ledger                             *)
(***************************************************************************)
Sent == {i \in Ids : orders[i].st # "none"}
Done == {i \in Ids : orders[i].st = "done"}
Signed(i) == orders[i].side * orders[i].qty
On(side) == {i \in Sent : orders[i].side = side}
Listed(side) == {i \in On(side) : orders[i].listed}

\* isChaseWorkingBrokerStatus on the orders of one side.
Working(side) == {i \in Listed(side) : orders[i].st \in Live}
Pending(side) == {i \in Listed(side) : orders[i].st = "pending"}

\* What the fills of some orders add up to.
QtyOf(ids) == SumFunctionOnSet([i \in ids |-> Signed(i)], ids)

\* The live ledger position of the book.
Led == QtyOf({i \in Done : orders[i].booked})

\* getOpenOrders: an ENTRY row of this side that is not finished.
OpenEntryRow(side) == \E i \in On(side) : orders[i].role = "ENTRY" /\ ~orders[i].booked

\* resolveChaseBookBreakdown with activeBookFromSources: the ledger stands in for
\* a flat or unreadable broker position.
Books ==
    {[kite |-> feed, net |-> IF feed # 0 THEN feed ELSE Led, known |-> TRUE]}
    \cup IF count.failures < env.failures
         THEN {[kite |-> 0, net |-> Led, known |-> FALSE]} ELSE {}

\* A failed read uses up one failure of the bound.
Read(b) == count' = [count EXCEPT !.failures = IF b.known THEN @ ELSE @ + 1]
Fails == count.failures < env.failures /\ count' = [count EXCEPT !.failures = @ + 1]

\* chaseSideHasPosition
Has(side, net) == side * net > 0

Ends == job' = Idle
Goes(pc) == job' = [job EXCEPT !.pc = pc]
GoesWith(pc, qty) == job' = [job EXCEPT !.pc = pc, !.qty = qty]

\* updateChaseStatus always sets updatedAt.
Writes(row) == status' = [row EXCEPT !.stale = FALSE]
ToSignal == [status EXCEPT !.st = "SIGNAL", !.breach = FALSE]

\* syncTerminalKiteOrders: the finished orders of the list reach their rows.
Synced == [i \in Ids |-> IF orders[i].listed /\ orders[i].st \in {"done", "cancelled"}
                         THEN [orders[i] EXCEPT !.booked = TRUE] ELSE orders[i]]

-----------------------------------------------------------------------------
(***************************************************************************)
(* placeOrder as Chase uses it (OrderPlacement)                            *)
(***************************************************************************)
SameKey(side, role, price, qty) ==
    {i \in On(side) : /\ orders[i].role = role /\ orders[i].qty = qty
                      /\ orders[i].price = price /\ price # Fresh}

\* The first row of the key is reused unless the ledger knows it was cancelled.
Reused(side, role, price, qty) ==
    LET same == SameKey(side, role, price, qty) IN
    same # {} /\ LET first == orders[Min(same)] IN ~(first.booked /\ first.st = "cancelled")

\* The duplicate query of assertOrderAllowed: an unfinished row of this side and
\* size refuses an ENTRY.
Duplicate(side, qty) == \E i \in On(side) : ~orders[i].booked /\ orders[i].qty = qty

Place(side, role, price, qty) ==
    IF Reused(side, role, price, qty) THEN UNCHANGED orders
    ELSE /\ Sent # Ids /\ phase = "open"
         /\ orders' = [orders EXCEPT ![Min(Ids \ Sent)] =
                [st |-> IF price \in {0, Fresh} THEN "market" ELSE "pending", side |-> side,
                 role |-> role, price |-> price, qty |-> qty, listed |-> TRUE,
                 booked |-> FALSE]]

-----------------------------------------------------------------------------
(***************************************************************************)
(* The minute job: processUpdateSLForInstrument                            *)
(***************************************************************************)

\* A stop was executed and the positions feed does not show it yet.
StopUnseen == feed # pos /\ Done # {} /\ orders[Max(Done)].role = "SL"

\* A stop was triggered and the market has passed its limit.
StopOpen == \E i \in Sent : orders[i].role = "SL" /\ orders[i].st = "open"

\* Environment: between two jobs market orders are executed and the feed catches
\* up, except with a stop that has just been hit.
Settled ==
    /\ \A i \in Sent : orders[i].st # "market"
    /\ feed = pos \/ StopUnseen
    /\ op.pc = "idle"

\* A row without a contract ends the job at once.
MinuteStart ==
    /\ job.pc = "idle" /\ phase = "open" /\ status.known
    /\ Settled
    /\ job' = [Idle EXCEPT
           !.row = status,
           !.pc = CASE status.st = "SIGNAL" -> "adopt"
                    [] status.st = "IN" /\ status.stale -> "morning"
                    [] OTHER -> "candle"]
    /\ UNCHANGED <<status, orders, count>>

\* AWAITING_SIGNAL over an open book: the row takes the side of the book.
Adopt ==
    /\ job.pc = "adopt"
    /\ \E b \in Books :
          /\ Read(b)
          /\ \/ b.net = 0 /\ Ends /\ UNCHANGED status
             \/ /\ b.net # 0
                /\ Writes([status EXCEPT !.st = "IN", !.side = Sgn(b.net), !.breach = FALSE])
                /\ job' = [job EXCEPT !.row.st = "IN", !.row.side = Sgn(b.net),
                                  !.pc = IF job.row.stale THEN "morning" ELSE "candle"]
    /\ UNCHANGED orders

NewPrice == count.prices + 1

\* The first minute of a later day: the stop is kept or trailed and placed again,
\* or, the day after the entry, the close on the other side exits.
Morning ==
    /\ job.pc = "morning"
    /\ \/ \E b \in Books, sl \in {job.row.sl, NewPrice} :
             /\ count' = [count EXCEPT !.failures = IF b.known THEN @ ELSE @ + 1,
                                       !.prices = IF sl = NewPrice THEN sl ELSE @]
             /\ Writes([status EXCEPT !.sl = sl, !.known = TRUE])
             /\ IF Has(job.row.side, b.net)
                THEN job' = [job EXCEPT !.pc = "sl1", !.qty = Abs(b.net), !.row.sl = sl]
                ELSE Ends
       \/ job.row.old /\ Goes("mexit") /\ UNCHANGED <<status, count>>
       \/ Fails /\ Ends /\ UNCHANGED status
    /\ UNCHANGED orders

\* runMorningExit: the quantity is read again.
MorningExit ==
    /\ job.pc = "mexit"
    /\ \E b \in Books :
          /\ Read(b)
          /\ IF ~b.known THEN Ends
             ELSE IF Has(job.row.side, b.net) THEN GoesWith("mplace", Abs(b.net))
             ELSE Goes("msettle")
    /\ UNCHANGED <<status, orders>>

MorningPlace ==
    /\ job.pc = "mplace"
    /\ \/ Place(-job.row.side, "EXIT", 0, job.qty) /\ Goes("msettle") /\ UNCHANGED count
       \/ Fails /\ Ends /\ UNCHANGED orders
    /\ UNCHANGED status

\* Only a flat book clears the row.
MorningSettle ==
    /\ job.pc = "msettle"
    /\ \E b \in Books :
          /\ Read(b)
          /\ Writes(IF Has(job.row.side, b.net) THEN [status EXCEPT !.known = TRUE]
                    ELSE [ToSignal EXCEPT !.known = TRUE, !.old = FALSE])
    /\ Ends
    /\ UNCHANGED orders

\* Environment: the candles of the last minutes show the touch of a stop that was
\* hit.
Touches == IF StopUnseen \/ StopOpen THEN {TRUE} ELSE BOOLEAN

\* The last candles: stop touched or not, entry crossed or not, or no use.
Candle ==
    /\ job.pc = "candle"
    /\ \/ /\ job.row.st = "IN"
          /\ \E touched \in Touches : Goes(IF touched THEN "cov1" ELSE "hold1")
          /\ UNCHANGED count
       \/ /\ job.row.st = "AWAIT"
          /\ \E b \in Books, crossed \in BOOLEAN :
                /\ Read(b)
                /\ IF crossed \/ Has(job.row.side, b.net) THEN Goes("ent1") ELSE Ends
       \/ Fails /\ Ends
    /\ UNCHANGED <<status, orders>>

-----------------------------------------------------------------------------
(***************************************************************************)
(* The stop is touched: flattenChase                                       *)
(***************************************************************************)

\* The order list is read and synced.  Without it the job goes on with none.
CoverOrders ==
    /\ job.pc = "cov1"
    /\ LET side == -job.row.side IN
       \/ /\ orders' = Synced
          /\ job' = [job EXCEPT !.pc = "cov2", !.done = Listed(side) \cap Done,
                                !.work = Working(side)]
          /\ UNCHANGED count
       \/ env.blind /\ Fails /\ Goes("cov2") /\ UNCHANGED orders
    /\ UNCHANGED status

\* openRoundTripSize: the order that opened the round trip of the ledger.
OpenedBy == {i \in Done : orders[i].booked /\ Led # 0 /\ orders[i].side = Sgn(Led)}
OpenedQty == IF OpenedBy = {} THEN 0 ELSE Signed(Max(OpenedBy))

\* chaseEpisodeCoverFillQty: cover fills of the list since the round trip opened.
EpisodeFills(fills) ==
    LET since == IF OpenedBy = {} THEN 0 ELSE Max(OpenedBy) IN
    Abs(QtyOf({i \in fills : i > since}))

\* Mutant: the fills of the order list are not taken off.
KiteQtyOnly(kite, opened, filled) == Abs(kite)

\* chaseCoverOrderQty: fills that the kite quantity does not show yet are taken
\* off.  (The ledger has a position exactly when it has a round trip, so its
\* own branch for an unknown size is never reached.)
CoverQty(kite, opened, filled) ==
    IF filled >= Abs(kite) THEN 0
    ELSE IF opened * kite > 0
    THEN Pos(Abs(kite) - Pos(filled - Pos(Abs(opened) - Abs(kite))))
    ELSE Abs(kite)

\* planChaseSlBreachFlatten and chaseCoverMatchesOpenBook.
CoverPlan(b, cover) ==
    IF ~b.known THEN "skip"
    ELSE IF cover = 0 THEN "covered"
    ELSE IF ~Has(job.row.side, b.kite) THEN "skip"
    ELSE IF job.work # {} THEN "convert" ELSE "place"

CoverSize ==
    /\ job.pc = "cov2"
    /\ \E b \in Books :
          LET cover == CoverQty(b.kite, OpenedQty, EpisodeFills(job.done))
              plan == CoverPlan(b, cover)
          IN /\ Read(b)
             /\ job' = [job EXCEPT !.pc = IF plan \in {"convert", "place"} THEN "cov3" ELSE "cov4",
                                   !.plan = plan, !.qty = cover]
    /\ UNCHANGED <<status, orders>>

\* A working stop is turned into a market order, which the broker refuses when
\* it is working no more; without one a market order is sent.
CoverSend ==
    /\ job.pc = "cov3"
    /\ \/ /\ job.plan = "convert"
          /\ \E i \in job.work :
                IF i \in Working(-job.row.side)
                THEN orders' = [orders EXCEPT ![i].st = "market"] /\ Goes("cov4")
                ELSE UNCHANGED orders /\ job' = [job EXCEPT !.pc = "cov4", !.plan = "skip"]
          /\ UNCHANGED count
       \/ /\ job.plan = "convert"
          /\ Fails
          /\ job' = [job EXCEPT !.pc = "cov4", !.plan = "skip"]
          /\ UNCHANGED orders
       \/ /\ job.plan = "place"
          /\ Place(-job.row.side, "EXIT", 0, job.qty)
          /\ Goes("cov4")
          /\ UNCHANGED count
       \/ job.plan = "place" /\ Fails /\ Ends /\ UNCHANGED orders
    /\ UNCHANGED status

\* chaseSlBreachMayClearStatus: a sent cover is not a flat book.
CoverClear ==
    /\ job.pc = "cov4"
    /\ \E b \in Books :
          /\ Read(b)
          /\ IF b.known /\ b.kite = 0 /\ job.plan # "skip" THEN Writes(ToSignal)
             ELSE UNCHANGED status
    /\ Ends
    /\ UNCHANGED orders

-----------------------------------------------------------------------------
(***************************************************************************)
(* The entry: ensureChaseEntryFilled and placeEntryTriggerOrder            *)
(***************************************************************************)
Hourly == job.kind # "minute"

\* The hourly job reads Pause before it looks at the book; the minute job does
\* not read it.
EntryBook ==
    /\ job.pc = "ent1"
    /\ \/ Hourly /\ paused /\ Ends /\ UNCHANGED count
       \/ /\ ~(Hourly /\ paused)
          /\ \E b \in Books :
                /\ Read(b)
                /\ IF Hourly /\ Has(job.row.side, b.net) THEN Ends
                   ELSE job' = [job EXCEPT !.pc = "ent2", !.net = b.net, !.known = b.known]
    /\ UNCHANGED <<status, orders>>

EntryLedger ==
    /\ job.pc = "ent2"
    /\ job' = [job EXCEPT !.pc = "ent3", !.flag = OpenEntryRow(job.row.side)]
    /\ UNCHANGED <<status, orders, count>>

\* Mutant: working orders are not looked at.
WorkingIgnored == FALSE

\* chaseHasWorkingEntryOrder
EntryWorks == job.flag \/ Working(job.row.side) # {}

\* decideChaseEntryAction in the minute job; the hourly job has left when the
\* book is open, and does not ask whether it could be read.
EntryOrders ==
    /\ job.pc = "ent3"
    /\ \/ /\ LET unsafe == ~job.known \/ Has(-job.row.side, job.net)
             IN IF ~Hourly /\ unsafe THEN Ends
                ELSE IF Has(job.row.side, job.net) THEN Goes("ent6")
                ELSE IF EntryWorks THEN Ends
                ELSE Goes("ent4")
          /\ orders' = IF Hourly THEN orders ELSE Synced
          /\ UNCHANGED count
       \/ Fails /\ Ends /\ UNCHANGED orders
    /\ UNCHANGED status

\* The minute job enters at the market, the hourly job too when the price is
\* beyond the trigger already.
EntrySend ==
    /\ job.pc = "ent4"
    /\ LET side == job.row.side IN
       \/ /\ ~Duplicate(side, 1)
          /\ \/ Place(side, "ENTRY", 0, 1)
             \/ Hourly /\ Place(side, "ENTRY", job.row.entry, 1)
          /\ IF Hourly THEN Ends ELSE Goes("ent5")
          /\ UNCHANGED count
       \/ Duplicate(side, 1) /\ Ends /\ UNCHANGED <<orders, count>>
       \/ Fails /\ Ends /\ UNCHANGED orders
    /\ UNCHANGED status

\* A sent entry is not a filled one: the book decides.
EntryFilled ==
    /\ job.pc = "ent5"
    /\ \E b \in Books : Read(b) /\ IF Has(job.row.side, b.net) THEN Goes("ent6") ELSE Ends
    /\ UNCHANGED <<status, orders>>

EntryStatus ==
    /\ job.pc = "ent6"
    /\ Writes([status EXCEPT !.st = "IN", !.side = job.row.side, !.breach = FALSE, !.old = FALSE])
    /\ Goes("ent7")
    /\ UNCHANGED <<orders, count>>

\* The first stop, of the size of the book.
EntryStop ==
    /\ job.pc = "ent7"
    /\ \/ \E b \in Books :
             /\ Read(b)
             /\ IF Has(job.row.side, b.net)
                THEN Place(-job.row.side, "SL", job.row.sl, Abs(b.net)) ELSE UNCHANGED orders
       \/ Fails /\ UNCHANGED orders
    /\ Ends
    /\ UNCHANGED status

-----------------------------------------------------------------------------
(***************************************************************************)
(* Holding: the stop is kept in place, an empty book is reset              *)
(***************************************************************************)
HoldBook ==
    /\ job.pc = "hold1"
    /\ \E b \in Books :
          /\ Read(b)
          /\ job' = [job EXCEPT !.pc = "hold2", !.net = b.net, !.known = b.known]
    /\ UNCHANGED <<status, orders>>

\* Mutant: an empty book waits.
NeverResets(known) == FALSE

\* mayResetEmptyChaseStatus
MayReset(known) == known

\* decideChaseInPositionSync.  A list that cannot be read counts as a working
\* entry.
HoldSync ==
    /\ job.pc = "hold2"
    /\ LET side == job.row.side IN
       \/ /\ orders' = Synced
          /\ IF Has(side, job.net) THEN GoesWith("sl1", Abs(job.net)) ELSE Ends
          /\ IF /\ ~Has(side, job.net) /\ MayReset(job.known)
                /\ Working(side) = {}
                /\ ~\E i \in On(side) : orders[i].role = "ENTRY" /\ ~Synced[i].booked
             THEN Writes(ToSignal) ELSE UNCHANGED status
          /\ UNCHANGED count
       \/ /\ Fails
          /\ IF Has(side, job.net) THEN GoesWith("sl1", Abs(job.net)) ELSE Ends
          /\ UNCHANGED <<status, orders>>

-----------------------------------------------------------------------------
(***************************************************************************)
(* placeSL                                                                 *)
(***************************************************************************)

\* kite.getPositions: no position, or one on the other side, ends it.
StopPosition ==
    /\ job.pc = "sl1"
    /\ \/ (IF Has(job.row.side, feed) THEN Goes("sl2") ELSE Ends) /\ UNCHANGED count
       \/ Fails /\ Ends
    /\ UNCHANGED <<status, orders>>

\* A pending stop is kept and set to the price; its size is that of the book, so
\* the branch that resizes or replaces it is left out.
StopOrders ==
    /\ job.pc = "sl2"
    /\ \/ Pending(-job.row.side) # {} /\ orders' = Synced /\ Ends /\ UNCHANGED count
       \/ Pending(-job.row.side) = {} /\ orders' = Synced /\ Goes("sl3") /\ UNCHANGED count
       \/ Fails /\ Ends /\ UNCHANGED orders
    /\ UNCHANGED status

\* Mutant: nothing is sent.
StopNotSent ==
    /\ job.pc = "sl3"
    /\ Ends
    /\ UNCHANGED <<status, orders, count>>

\* A stop order, or a limit order at the last price when that is beyond the stop.
\* After the close both are refused.
StopSend ==
    /\ job.pc = "sl3"
    /\ \/ phase = "closed" /\ UNCHANGED <<orders, count>>
       \/ Place(-job.row.side, "SL", job.row.sl, job.qty) /\ UNCHANGED count
       \/ Place(-job.row.side, "EXIT", Fresh, job.qty) /\ UNCHANGED count
       \/ Fails /\ UNCHANGED orders
    /\ Ends
    /\ UNCHANGED status

-----------------------------------------------------------------------------
(***************************************************************************)
(* The hourly job: generateSignal                                          *)
(***************************************************************************)
HourStart ==
    /\ job.pc = "idle"
    /\ count.hours < MaxHours
    /\ Settled
    /\ ~StopUnseen /\ ~StopOpen
    /\ \E kind \in IF phase = "open" THEN {"hour", "trail"} ELSE {"eod"} :
          job' = [Idle EXCEPT !.pc = "sig", !.kind = kind]
    /\ count' = [count EXCEPT !.hours = @ + 1]
    /\ UNCHANGED <<status, orders>>

\* The row is read; a paused book only manages an open position.
Signal ==
    /\ job.pc = "sig"
    /\ LET next == CASE status.st = "IN" -> "gin"
                     [] status.st = "AWAIT" -> IF paused THEN "cancel" ELSE "gawait"
                     [] OTHER -> IF paused \/ job.kind = "eod" THEN "idle" ELSE "gsig"
       IN IF next = "idle" THEN Ends
          ELSE job' = [job EXCEPT !.pc = next, !.row = status]
    /\ UNCHANGED <<status, orders, count>>

\* Mutant: the pending entry stays at the broker.
CancelsNothing ==
    /\ job.pc = "cancel"
    /\ job' = [job EXCEPT !.pc = "drop", !.work = {}]
    /\ UNCHANGED <<status, orders, count>>

\* cancelOrder: the list; only an order that waits for its trigger is found.
CancelFind ==
    /\ job.pc = "cancel"
    /\ \/ \E i \in Pending(job.row.side) : job' = [job EXCEPT !.pc = "drop", !.work = {i}]
       \/ Pending(job.row.side) = {} /\ job' = [job EXCEPT !.pc = "drop", !.work = {}]
    /\ UNCHANGED <<status, orders, count>>

\* The entry is cancelled and the signal dropped; a refused cancel ends the job
\* and the signal stays.  An invalid signal is followed by a new evaluation.
CancelDrop ==
    /\ job.pc = "drop"
    /\ \/ /\ \A i \in job.work : orders[i].st = "pending"
          /\ orders' = [i \in Ids |-> IF i \in job.work THEN [orders[i] EXCEPT !.st = "cancelled"]
                                      ELSE orders[i]]
          /\ Writes([ToSignal EXCEPT !.old = FALSE])
          /\ IF job.flag THEN job' = [Idle EXCEPT !.pc = "sig", !.kind = job.kind] ELSE Ends
          /\ UNCHANGED count
       \/ /\ \E i \in job.work : orders[i].st # "pending"
          /\ Ends /\ UNCHANGED <<status, orders, count>>
       \/ Fails /\ Ends /\ UNCHANGED <<status, orders>>

\* LONG or SHORT: an empty book is reset and evaluated at once, also when paused;
\* the 13:15 job of a later day trails the stop.
HourIn ==
    /\ job.pc = "gin"
    /\ \E b \in Books, sl \in {status.sl, NewPrice} :
          LET empty == ~Has(job.row.side, b.net)
              trail == ~empty /\ job.kind = "trail" /\ job.row.old
          IN /\ trail \/ sl = status.sl
             /\ count' = [count EXCEPT !.failures = IF b.known THEN @ ELSE @ + 1,
                                       !.prices = IF sl = NewPrice THEN sl ELSE @]
             /\ IF empty THEN Writes([ToSignal EXCEPT !.old = FALSE])
                ELSE IF trail THEN Writes([status EXCEPT !.sl = sl]) ELSE UNCHANGED status
             /\ IF empty /\ job.kind # "eod" THEN Goes("gsig")
                ELSE IF trail THEN job' = [job EXCEPT !.pc = "gtrail", !.row.sl = sl]
                ELSE Ends
    /\ UNCHANGED orders

HourTrail ==
    /\ job.pc = "gtrail"
    /\ \E b \in Books :
          Read(b) /\ IF b.net # 0 THEN GoesWith("sl1", Abs(b.net)) ELSE Ends
    /\ UNCHANGED <<status, orders>>

\* AWAITING_SIGNAL: an open book is adopted, a close outside the band is a signal.
HourSignal ==
    /\ job.pc = "gsig"
    /\ \/ \E b \in IF job.row.known THEN Books
                   ELSE {[kite |-> 0, net |-> 0, known |-> TRUE]} :
             \/ /\ b.net # 0
                /\ Read(b)
                /\ Writes([status EXCEPT !.st = "IN", !.side = Sgn(b.net), !.breach = FALSE])
                /\ Ends
             \/ b.net = 0 /\ Read(b) /\ Ends /\ UNCHANGED status
             \/ /\ b.net = 0
                /\ count.signals < env.signals
                /\ \E side \in env.sides :
                      LET row == [st |-> "AWAIT", side |-> side, sl |-> NewPrice,
                                  entry |-> NewPrice + 1, known |-> TRUE, breach |-> FALSE,
                                  stale |-> FALSE, old |-> FALSE]
                      IN status' = row /\ job' = [job EXCEPT !.pc = "ent1", !.row = row]
                /\ count' = [count EXCEPT !.failures = IF b.known THEN @ ELSE @ + 1,
                                          !.signals = @ + 1, !.prices = @ + 2]
    /\ UNCHANGED orders

\* AWAITING_LONG or AWAITING_SHORT: filled, over at the end of the day, invalid,
\* marked by a close on the other side, or tried again.
HourAwait ==
    /\ job.pc = "gawait"
    /\ \E b \in Books :
          /\ Read(b)
          /\ \/ /\ Has(job.row.side, b.net)
                /\ Writes([status EXCEPT !.st = "IN", !.side = job.row.side, !.breach = FALSE])
                /\ GoesWith("sl1", Abs(b.net))
             \/ /\ ~Has(job.row.side, b.net) /\ job.kind = "eod"
                /\ Writes([ToSignal EXCEPT !.old = FALSE])
                /\ Ends
             \/ /\ ~Has(job.row.side, b.net) /\ job.kind # "eod"
                /\ \/ /\ job' = [job EXCEPT !.pc = "cancel", !.flag = TRUE]
                      /\ UNCHANGED status
                   \/ /\ ~job.row.breach
                      /\ Writes([status EXCEPT !.breach = TRUE]) /\ Ends
                   \/ ~job.row.breach /\ Goes("ent1") /\ UNCHANGED status
    /\ UNCHANGED orders

-----------------------------------------------------------------------------
(***************************************************************************)
(* The operator                                                            *)
(***************************************************************************)
Pause ==
    /\ env.pause /\ ~paused
    /\ paused' = TRUE
    /\ UNCHANGED <<status, orders, job, count, pos, feed, op, phase>>

\* resetChaseSignalState: LONG and SHORT are refused over an open or unreadable
\* book; a pending entry is not looked at.  Environment: the operator waits for
\* the job at hand, and does not reset a signal whose entry has just been executed.
ResetCheck ==
    /\ env.reset /\ op.pc = "idle" /\ count.resets = 0
    /\ Settled
    /\ job.pc = "idle" /\ (status.st = "AWAIT" => pos = 0)
    /\ \E b \in IF status.st = "IN" THEN Books ELSE {[net |-> 0, known |-> TRUE]} :
          /\ count' = [count EXCEPT !.failures = IF b.known THEN @ ELSE @ + 1, !.resets = 1]
          /\ op' = IF status.st = "IN" /\ (~b.known \/ Has(status.side, b.net)) THEN op
                   ELSE [pc |-> "apply", side |-> IF status.st = "SIGNAL" THEN -1 ELSE status.side]
    /\ UNCHANGED <<status, orders, job, pos, feed, paused, phase>>

\* cancelOrder, whose errors are swallowed, and the row is cleared.
ResetApply ==
    /\ op.pc = "apply"
    /\ \/ \E i \in Pending(op.side) : /\ status.known
                                      /\ orders' = [orders EXCEPT ![i].st = "cancelled"]
                                      /\ UNCHANGED count
       \/ (Pending(op.side) = {} \/ ~status.known) /\ UNCHANGED <<orders, count>>
       \/ env.blind /\ Fails /\ UNCHANGED orders
    /\ status' = NoSignal
    /\ op' = [op EXCEPT !.pc = "idle"]
    /\ UNCHANGED <<job, pos, feed, paused, phase>>

-----------------------------------------------------------------------------
(***************************************************************************)
(* The broker, the feed, the ledger sync and the clock                     *)
(***************************************************************************)

\* Environment: nothing happens to an order between the reading of the position and the
\* sending of a stop or a morning exit (with a lagging feed or limits passed:
\* while a job that found no touch is running), or while a reset is under way.
Quietly ==
    /\ job.pc \notin {"sl2", "sl3", "mplace"}
    /\ env.lag \/ env.gaps =>
          job.pc \notin {"hold1", "hold2", "sl1", "sig", "gin", "gtrail"}
    /\ op.pc = "idle"

Fill(i) ==
    /\ phase = "open"
    /\ orders[i].st \in Live
    /\ Quietly
    /\ orders' = [orders EXCEPT ![i].st = "done"]
    /\ pos' = pos + Signed(i)
    /\ feed' = IF env.lag THEN feed ELSE pos'
    /\ UNCHANGED <<status, job, count, op, paused, phase>>

\* The trigger is hit and the market has passed the limit.
Trigger(i) ==
    /\ env.gaps /\ phase = "open"
    /\ orders[i].st = "pending"
    /\ Quietly
    /\ orders' = [orders EXCEPT ![i].st = "open"]
    /\ UNCHANGED <<status, job, count, world>>

FeedCatchesUp ==
    /\ feed # pos
    /\ feed' = pos
    /\ UNCHANGED <<status, orders, job, count, pos, op, paused, phase>>

\* Another process syncs the ledger with the order list.  Environment: not between
\* the two reads of an entry check.
OtherSync ==
    /\ env.writer
    /\ job.pc # "ent2"
    /\ orders' = Synced
    /\ UNCHANGED <<status, job, count, world>>

\* 15:30: day orders die; the reconcile after the close books the list.
\* Environment: no job runs across the close.
Close ==
    /\ phase = "open" /\ job.pc = "idle" /\ count.days < MaxDays
    /\ phase' = "closed"
    /\ orders' = [i \in Ids |->
           LET o == orders[i]
               end == IF o.st \in Live THEN "cancelled" ELSE o.st
           IN [o EXCEPT !.st = end, !.booked = @ \/ end # "none"]]
    /\ UNCHANGED <<status, job, count, pos, feed, op, paused>>

\* The next morning: the order list is empty and the row is of an earlier day.
Night ==
    /\ phase = "closed" /\ job.pc = "idle"
    /\ phase' = "open"
    /\ count' = [count EXCEPT !.days = @ + 1]
    /\ orders' = [i \in Ids |-> [orders[i] EXCEPT !.listed = FALSE]]
    /\ status' = [status EXCEPT !.stale = TRUE, !.old = TRUE]
    /\ feed' = pos
    /\ UNCHANGED <<job, pos, op, paused>>

JobStep ==
    \/ Adopt \/ Morning \/ MorningExit \/ MorningPlace \/ MorningSettle \/ Candle
    \/ CoverOrders \/ CoverSize \/ CoverSend \/ CoverClear
    \/ EntryBook \/ EntryLedger \/ EntryOrders \/ EntrySend \/ EntryFilled
    \/ EntryStatus \/ EntryStop
    \/ HoldBook \/ HoldSync
    \/ StopPosition \/ StopOrders \/ StopSend
    \/ Signal \/ CancelFind \/ CancelDrop \/ HourIn \/ HourTrail \/ HourSignal \/ HourAwait

Next ==
    /\ \/ (MinuteStart \/ HourStart \/ JobStep) /\ UNCHANGED world
       \/ Pause \/ ResetCheck \/ ResetApply
       \/ \E i \in Ids : Fill(i) \/ Trigger(i)
       \/ FeedCatchesUp \/ OtherSync \/ Close \/ Night
    /\ UNCHANGED env

Spec == Init /\ [][Next]_vars

\* The worker runs the jobs that are due and each continuation, the broker
\* executes an order that waits for nothing, the feed catches up, and a night
\* ends.
LiveSpec ==
    /\ Spec
    /\ WF_vars((MinuteStart \/ JobStep) /\ UNCHANGED <<world, env>>)
    /\ WF_vars((\E i \in Ids : orders[i].st = "market" /\ Fill(i)) /\ UNCHANGED env)
    /\ WF_vars(FeedCatchesUp /\ UNCHANGED env)
    /\ WF_vars(ResetApply /\ UNCHANGED env)
    /\ WF_vars(Night /\ UNCHANGED env)

-----------------------------------------------------------------------------
(***************************************************************************)
(* Properties                                                              *)
(***************************************************************************)

\* Signals, minute jobs, triggers and retries together never build more than the
\* configured lots.
OneEntry == pos \in -1..1

\* An executed stop or cover reduces the position: whatever order the stop, the
\* cover, the morning exit and the lagging feed come in, the book is not turned
\* round into a position without a signal.  (Not so when the order list could not
\* be read on the touch: the cover is sent beside a stop that still works.)
NoReversal ==
    [][~env.blind => \A i \in Ids : orders[i].role # "ENTRY" /\ orders[i].st # "done" /\ orders'[i].st = "done"
          => Abs(pos') < Abs(pos)]_vars

\* Between jobs an entry waits at the broker only for the signal it was sent for:
\* an invalid, paused, reset or filled signal leaves no trigger behind.  (Not so
\* when the cancel of a reset failed.)
NoStrayEntry ==
    ~env.blind /\ job.pc = "idle" /\ op.pc = "idle" /\ phase = "open"
    => \A i \in Ids : orders[i].role = "ENTRY" /\ orders[i].st = "pending"
          => status.st = "AWAIT" /\ status.side = orders[i].side

\* An open position gets an order that will close it, as long as no earlier cover
\* of the contract has taken the intent key of its cover.
Protected ==
    (~env.blind /\ pos # 0) ~> \/ pos = 0
                               \/ Working(-Sgn(pos)) # {}
                               \/ Reused(-Sgn(pos), "EXIT", 0, 1)

\* LONG or SHORT over an empty book does not last.
Settles == (status.st = "IN" /\ pos = 0) ~> (status.st # "IN" \/ pos # 0)

\* A paused book sends no entry.
PausedSendsNoEntry ==
    [][paused => \A i \in Ids : orders[i].st = "none" /\ orders'[i].st # "none"
                                   => orders'[i].role # "ENTRY"]_vars

=============================================================================
