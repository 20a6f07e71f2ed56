# CM-Desk: TLA+ models of the order path and its jobs

CM-Desk is a trading desk for one operator: a single Node process (Express and
Next routes, BullMQ workers, schedulers) with Postgres as its ledger, Redis as
its job store and Zerodha Kite as the broker. Everything that matters happens
between `await`s of that process, of the broker and of the database. These
modules model those interleavings, TLC checks them on small instances and
TLAPS proves the most important results for every instance.

## The system

| Part | State it keeps | Operations | What makes it correct |
|---|---|---|---|
| Order placement (`lib/kiteUtils.ts` `placeOrder`, `lib/trading/brokerPlace.ts`, `ledger.ts`, `riskGate.ts`) | `orders` rows: idempotency key, status, broker id, age | record the intent, look the order up in the broker's book, call the broker, store the acknowledgement | one intent never has two live orders; `FAILED` only for a clear reject; a row carries its own order |
| Order ledger and fills (`ledger.ts`, `kiteMap.ts`, `stateMachine.ts`) | `orders` status and filled quantity, `fills`, `applied_at` | apply a broker snapshot, insert a fill, apply a fill in a transaction, close a missing order | each execution moves the position once, and does; a filled row stays filled |
| Reconcile (`reconcile.ts`, `missingDayOrder.ts`) | none of its own | loops over the broker's book, then over unapplied fills, then over rows the book no longer lists | everything at the broker gets into the ledger |
| Accounting, positions, trades (`accounting.ts`, `positionMatch.ts`) | `positions`, `trades` | apply a fill to a position, open and close trades | quantity and realised profit follow from the fills |
| Risk gate and engine (`riskGate.ts`, `riskEngine.ts`, `riskSettings.ts`) | settings, halt | allow or refuse an order | no entry beyond a cap, exits always pass |
| Order ensurer, option strategies (`kiteUtils.ts` `remoteOrderSuccessEnsurer`, `utils.ts`) | none (promises of one attempt) | place slices, poll, retry, roll back a leg group | each leg once; no leg without its hedge; an entry ends |
| Jobs (`enqueueTradeJob.ts`, `queue.ts`, `tradingQueue.ts`, `reconcileJobs.ts`, `jobControl.ts`) | `job_executions` rows, Redis jobs | enqueue, run, arm the follow-ups, abort, boot sweep | one open run per template and day; stops armed before completion |
| Exits (`individualLegExitOrders.ts`, `autoSquareOff.ts`, `targetPnL.ts`) | stop orders at the broker | place stops, watch profit and loss, square off | a position is closed, never turned round |
| Kill desk, flatten (`killDesk.ts`, `flattenOpen.ts`) | halt flag, aborts | flatten, abort jobs, pause Chase, halt | nothing enters after a kill |
| Chase, momentum, daily trend | book status, claims | minute pass, hourly pass, daily pass | once per signal; `LONG`/`SHORT` only with a fill |
| Paper execution, portfolio, alerts, templates, sessions, simulation lab, UI | | | see "Not modelled" |

Interaction. Jobs call strategies, strategies call the ensurer, the ensurer
calls `placeOrder`, and `placeOrder` asks the risk gate, records an intent row,
calls Kite and stores the answer. Independently Chase's minute pass, the order
poll of the ensurer, the end-of-day sync and the operator's reconcile read
Kite's book and write snapshots into the same rows. There is no lock between
them: only unique indexes (`orders.idempotency_key`, `orders.broker_order_id`,
`fills.fingerprint`) and the transaction of `applyFillById`.

Hard behaviours: a lost acknowledgement whose order lands later; restarts
between a broker call and the row that records it; two activities on one
intent; snapshots taken before and written after somebody else's; database
failures in the middle of a handler. `PROJECT.json` lists them under `hazards`,
each at its line.

## Modules

| Module | Models |
|---|---|
| `OrderStates` | the status machine, Kite's status mapping, `commitBrokerFillProgress` and the status sets that queries use; pure definitions |
| `OrderPlacement` | `placeOrder` with `recordOrderIntent`, `markOrderSubmitted`, `decideBrokerPlace`, `matchingBrokerOrderId`, the duplicate check of `assertOrderAllowed`, and what `applyBrokerOrderSnapshot` does to order rows |
| `Ledger` | `applyBrokerOrderSnapshot`, `insertFill`, `applyFillById`, `applyUnappliedFills`, `closeOpenOrderAsCancelled` under several drivers |
| `FillBook` | abstract: what the broker executes is booked once and never ahead |
| `LedgerProofs` | theorems about `Ledger`: for any drivers, and for drivers that take turns |
| `OrderPlacementProofs`, `PositionBookProofs`, `JobsProofs`, `LegGroupProofs`, `ExitsProofs`, `ChaseProofs` | theorems about the module they are named after |
| `SumLemmas` | sums over finite sets, for the proofs about positions |
| `Accounting` | `applyFillToPosition` with its rounding, `matchPositionForFill`, the provenance rules; pure definitions |
| `PositionBook` | `applyFillById` with `syncTrade` under several workers, `clearPhantomPosition`, `clearPaperBook`, the paper/live switch |
| `Jobs` | `enqueueTradeJob`, the worker of `tradingQueue`, `armEntryFollowUps`, `abortJobExecution`, `reconcileOpenJobs` |
| `LegGroup` | the order part of `atmStraddle` and `strangle`, `remoteOrderSuccessEnsurer`, `orderStateChecker`, `attemptBrokerOrders`, the rollback |
| `Exits` | `individualLegExitOrders`, `targetPnL`/`squareOffTag`, `autoSquareOffStrat`, `flattenOpenPositions`, `runDeskKill` |
| `Chase` | `generateSignal`, `processUpdateSLForInstrument`, `placeSL`, `ensureChaseEntryFilled`, `flattenChase` of the minute job, `resetChaseSignalState`, Pause |
| `MC*` | instances for TLC |

How they fit. `OrderPlacement` is one call of `placeOrder`; `LegGroup`, `Exits`
and `Chase` use its outcome for their kind of intent key (a working ENTRY row is
refused as a duplicate, a filled or working exit row is reused, a failed one
opens a new key) and model what happens around it. `Ledger` ends at "this fill
moved the position", `PositionBook` is that transaction. `Jobs` has a strategy
as one step, `LegGroup` is that step.

Four modules have a constant `Settings` and a variable `env`: a set of
surroundings (which faults, which actors), one of which is chosen in `Init` and
never changes. One run then covers many small combinations instead of one big
product, and every property says in which of them it is meant.

### OrderPlacement

`rows` is the `orders` table (row id = index), `reqs` the requests that left the
process (broker order id = index) with their fate at the broker, `caller` what
each call of `placeOrder` holds across its awaits, `sync` the same for one
snapshot write. One action per stretch of code between awaits:

`RiskCheck` (duplicate check) → `IntentSelect` → `IntentInsert` → `Lookup` or
`LookupFails` (the book) → `CallBroker` → `AckArrives`, `RefusalArrives`, `AckLost`
or `AckMisread` → `MarkRead` → `MarkWrite`; `DbFails` at every database call,
`Retry` for whoever calls again, `Crash` for a restart, `WindowCloses` for a row
that gets older than `BROKER_ACK_UNKNOWN_MS`, `SyncRead`/`SyncCreate`/`SyncWrite`
for the ledger sync, `Broker*` for the exchange.

A lost answer has two outcomes. `AckLost` is one that `isAmbiguousBrokerError`
recognises (NetworkException, a socket code, a message with "timeout"): the row is
`UNKNOWN`. `AckMisread` is any other shape (General- or DataException, an unknown
error): the function says no, and the row is `FAILED` although the request may have
landed. Settings with `misread` allow it; the request is marked, so that a property
can tell the two.

Data kept: the intent key, the attributes `matchingBrokerOrderId` compares (one
value), status, broker id, whether the row is older than the window. Left out:
prices, texts, audit events, the paper path, and refusals of the risk engine
that do not depend on order rows (a refused call changes nothing).

Environment assumption, stated in `WindowCloses`: a request is settled and the
call that sent it has returned before its row is 60 seconds old. That is what
the 60-second rule relies on; the code cannot enforce it.

### Ledger

`broker` is the order at Kite, `orders`, `fills`, `applied`, `booked` the tables
(`booked`: what an order's fills moved the position by), `writer` what each
driver holds across its awaits. `Fetch` (the book), `SnapRead` (SELECT),
`InsertFill`/`InsertFails`, `ApplyFill`/`ApplyFails` (the transaction),
`WriteRow`/`WriteFails` (the final UPDATE), `ApplyPending`, `CloseRead`,
`CloseWrite`, `Crash`. The fill's fingerprint is order and cumulative quantity:
the average price in the real one follows from the cumulative quantity.

`Overlap` says whether two calls on one order may overlap. The code does not
prevent it; a run with `Overlap = FALSE` states what holds as long as drivers
happen to take turns.

### Jobs

`rows` is `job_executions` (row id = index), `jobs` the trading queue in Redis
(job id = index), `legs` the strikes a row's strategy has open, `follow` the
follow-up jobs in Redis; `call`, `steps`, `aborting` and `sweep` are what a call of
`enqueueTradeJob`, a worker, an abort and the boot sweep hold across their
awaits. `SelectOpen` → `InsertRow` → `AddJob` → `MarkQueued` or `MarkRejected`;
`Start` → `Place` → `ArmFollowUp` or `ArmFails` → `Complete` or `Throw` →
`OnCompleted`, or `OnFailedRead` → `OnFailedWrite`; `AbortMark` → `AbortRemove`;
`Crash` → `SweepList` → `SweepRow` → `SweepFail`; `JobGetsLate` and `Stall` for the
clock and BullMQ. A strategy is reduced to the strike it chooses (again at every
attempt), its legs and its ways to throw; an order of an intent that exists is
given back (`OrderPlacement`), so the legs of one strike open once. Left out:
Chase rows, the deletion of a row, jobs of an earlier day, a second stall of a job,
and the WARN alert of a failed square-off arm (the attempt throws as well).

### PositionBook

`fills` (with the position event of an applied fill), `rows` (positions),
`trades`, `mode` (paper or live per strategy), `worker` and `clear` what
`applyFillById` and a clear hold across their awaits. The transaction is split
once, between its SELECT (`ApplySelect`, which locks the rows that exist) and the
rest (`ApplyCommit`, `ApplyRefused`, `ApplyFails`): a row that does not exist yet
cannot be locked, and the unique index decides. `ClearPhantom` → `ClearZero` →
`ClearTrades`, cut off by `ClearStops`; `GoLive`, `GoPaper`, `PaperCheck` →
`PaperDelete`. `QuietClears` is an assumption on the operator (no fill executes or
is applied while a clear or a switch runs); nothing in the code sees to it.
`SharedRows` lets paper and live, or untagged and paper orders, meet in one
contract; `BookOwnsQuantity` is violated then, and the run has it `FALSE`. A trade
that a clear deletes keeps its place with the flag `gone`, so that ids stay ids.
Left out: fees, excursion marks, opening times.

### LegGroup

`job` is the queue job and its attempts, `ens` one ensurer per order (a leg above
the freeze quantity is several orders), `tries` the ledger rows of an order with
the request sent for each, `squared` what a rollback closed. `Begin` → per order
`OuterCheck`, `Check` → `Place` → `AckArrives`, `RefusalArrives` (retried up to
`RetryAttempts`) or `AckLost` → `Match` → `Poll` or `PollTimeout` → `HedgesOver` →
the same for the primaries → `PrimariesOver` → completed, or `Rollback`. `Sync`,
`Abort`, `Crash` and the broker are free. `RefusalArrives` has the three endings of
the catch block: OrderException reads the book and tries again, Input- and
PermissionException throw, and every other type (margin, holding, token, general)
ends as `{ successful: false }`, without a retry and without a rejection that
`attemptBrokerOrders` would count. The gate is asked twice, before the `try` block
(`Check`: its refusal throws) and inside `placeOrder` (`Place`: its refusal ends
like an unknown type). Ten settings: nothing but restarts (`Calm`); known refusals of
primaries and of a hedge (`Refusing`, `RefusingHedge`); unknown refusals of a hedge,
of a primary, and without the rollback flags (`Silent`, `SilentLeg`, `Loose`); a gate
that refuses now and then (`Gated`); lost answers (`Lost`); a sliced leg with an
abort, and with lost answers (`Sliced`, `SlicedLost`).

### Exits

One contract, sold by two jobs, one unit each. `net` is the account's net at the
broker, `job` entry, ABORT, ledger row and stop of each job, `exit` the order under
its FLATTEN intent key (shared by watcher and auto square-off), `flat` the orders of
the operator's flatten, by size. A key is used again by every later call
(`PlaceKey`) until its order is refused; from then on `recordOrderIntent` gives
each call a random key (`Place`), so `again` holds, per job, what auto square-off
and watcher have sent under keys of their own, and `resent` the same for the
operator. Auto square-off and watcher: read the book → cancel own stops → read the
net → place; the operator: read the rows → net → cancel → place → abort jobs → halt.

`AsoPoll` is the ensurer of auto square-off: a refused order is sent again up to
`RetryAttempts` times (OrderException without a match in the book, an order
rejected after its answer); where a setting has `fatal`, it may also be refused
with a type that is thrown or dropped, or be rejected in the book before reconcile
has its row. Then the exit is over (`refused`): the queue gives the job no attempts.
The watcher goes straight through `placeOrder` in `withRemoteRetry`.

Eleven settings: one job with all three exits (`OneJob`, and `Fatal` with refusals that
are not sent again), without the watcher (`Timed`); two jobs with stops and watchers
(`TwoJobs`); two timed jobs with and without watchers (`TwoTimed`, `TwoUnwatched`, and
`TwoFatal`); kill and flatten with and without stops (`Killed`, `Flattened`, `Stopped`,
`KilledStop`). `calm` (always `TRUE` in the run) is an
assumption about the operator's flatten: the stops of the jobs are placed when he
calls, and none triggers between his reading of the net and his cancelling of the
stop. The code has that gap: a stop triggering there turns the position round.
`Armed` is an assumption too: the exits of a job run after its stop was placed.

`AsoBook` always goes on to the cancels. `autoSquareOffStrat` does so only with
`deletePendingOrders`, which the app sets wherever it builds such a job
(`lib/browserUtils.ts:83`, `lib/planMapper.ts:139`). Left out: lost answers of an exit,
`onSquareOffSetAborted`, and the operator's flatten beside an auto square-off that
is due.

### Chase

One live book of one lot. `status` is the `chase_status` row, `orders` the orders
of tag `chase` at Kite with their ledger rows, `pos` the position they make, `feed`
what `kite.getPositions` reports, `job` the job the worker runs (one at a time),
`op` a reset. The minute job is `MinuteStart`, then by status: `Adopt`; `Morning` →
`MorningExit` → `MorningPlace` → `MorningSettle`; `Candle` → (touched)
`CoverOrders` → `CoverSize` → `CoverSend` → `CoverClear`, or (not touched) `HoldBook`
→ `HoldSync`; waiting signals `EntryBook` → `EntryLedger` → `EntryOrders` →
`EntrySend` → `EntryFilled` → `EntryStatus` → `EntryStop`; `placeSL` is
`StopPosition` → `StopOrders` → `StopSend`. The hourly job is `HourStart` → `Signal`
→ `CancelFind`/`CancelDrop`, `HourIn`, `HourTrail`, `HourSignal`, `HourAwait`.
Prices are labels, kept as far as they tell intent keys apart; what a candle shows
is an input.

Eight settings: two signals on either side; a lagging positions feed; limits
passed by the market; a second ledger writer; one failing call; one failing call
whose error the code swallows (`blind`); Pause; Reset. Assumptions about the world
are marked `Environment:` at the action they bind: between two jobs (a minute)
market orders execute and the feed catches up, except with a stop that was just
hit; nothing executes inside the few awaits between the reading of the position
and the sending of a stop or morning exit; the other writer does not sync
between the two reads of an entry check; the operator resets between jobs and not
over an entry that has just executed; an hourly job does not begin while a hit stop
is unseen; no job runs across the close. The code cannot enforce any of them,
and the list below says what breaks without them.

## Runs

| Run | Result | Shows |
|---|---|---|
| `PlaceSafe` | pass | Two callers of one intent with a slow book, two intents past the window, clear rejects, a restart: one live order per intent, a row keeps the order it knows and knows its own |
| `PlaceFull` | pass | Database errors, rejects, restart, misread answers and sync together: an ok names an order of the book with the right attributes; every landed order ends up in a row for good. Rejects, lost and misread answers alone: a `FAILED` row hides no live request but a misread one |
| `LedgerSerial` | pass | Partial fills, cancels, the overnight book, failing statements, drivers taking turns: booked once, implements `FillBook`, rows never go back, a close never cancels an execution a driver has saved, every execution is finally booked unless the book is emptied first |
| `LedgerWhole` | pass | Overlapping drivers, restarts, overnight book, orders executed in one piece: booked once |
| `PositionDay` | pass | Two workers, two strategies and untagged orders, reversals, clears, mode switches, one failure: quantity, trades, realised profit and cash agree, and every fill reaches a position |
| `JobsDay` | pass | Two senders, retries, an abort and one fault anywhere: one known run of a template can enter, a job completes only with its stop armed, a known row reported lost is lost, open legs get a stop or an alert |
| `LegsDay` | pass | Known and unknown refusals, a gate that refuses, lost answers, restarts, slices, new attempts: no order of a leg twice, a completed entry reports what it holds and is whole but for a leg dropped with an unknown refusal, hedges first with the same exception, every entry ends |
| `ExitsDay` | pass | Stop, watcher, auto square-off, flatten and kill race, two refusals: nobody closes more than is held unless two senders each placed past a refusal, no stop is left or taken from another job, a kill holds, auto square-off ends flat unless its ensurer has given up |
| `ChaseDay` | pass | Two days in eight settings: never more than the lots, no entry without its signal, no exit that reverses, an open position gets a closing order, an empty book is noticed |
| `LedgerTwoWriters` | violation | Two overlapping reads of a partly filled order book too much |
| `LegsRollback` | violation | The rollback of a half-filled straddle places nothing and leaves the leg open |
| `ChasePause` | violation | A paused book whose signal waits is entered at the market by the minute job |

Each violation is a finding in `PROJECT.json` with the line of the code and the
sentence it contradicts. `TypeOK` is defined in every module and proved
for each (of `Chase` under `Prompt`); only `LedgerSerial` also checks it, the other runs spend their
properties on behaviour.

### Known limits of the passing properties

Found with the same models by changing one setting, and not listed as runs.

Placement:
* an error `isAmbiguousBrokerError` does not know marks a live order's row `FAILED`
  and the next call places it again under a random key, although
  `docs/PROCESS_RELIABILITY.md:30` says `FAILED` is only for a clear reject
  (`OneLiveOrder` is about settings without `misread`, `FailedIsReject` excepts the
  misread request);
* after a clear reject every retry opens a random key no later retry looks up: an
  `UNKNOWN` attempt after a reject can be placed again (`OneLiveOrder`);
* reconcile may ingest an order under `broker:<id>` before `placeOrder` stores the
  id: the unique index rejects the UPDATE, which is handled as a broker error,
  and the live order's row is `FAILED` (`FailedIsReject` with `sync`);
* two intents with equal attributes (freeze-quantity slices) can take over each
  other's order through `matchingBrokerOrderId` (`OwnOrder` needs distinct
  attributes);
* `markOrderSubmitted` writes back a broker id it read earlier (`KeepsOrder` needs
  one caller per intent);
* the 60-second window is counted from the creation of the row, so a second
  placement has none of its own: past it, two callers of one intent that are both
  at their lookup place twice (`OneLiveOrder` past the window needs one caller);
* a caller that read no broker id can mark the row `UNKNOWN` over the id another
  caller has stored meanwhile; with refusals, a row can be `FAILED` over another
  caller's live order (`FailedIsReject` with rejects needs one caller).

Ledger and positions:
* a restart between the fill and the update of the order row lets the next, larger
  snapshot book the first part again (`NoOverbook` with partial fills and restarts);
* with `Overlap`, an old snapshot can take a `FILLED` row back (`ProgressKept`);
* executions before an `EXPIRED` status are not booked (`FillsBooked`);
* an order that completed after the last poll of its day, or whose driver died
  between saving the fill and updating the row, is closed as `CANCELLED` the next
  day (`CloseSparesFills` is about executions a driver has saved, with drivers that
  take turns and no restart or failed update of the row);
* with `SharedRows`, one row holds both books; without `QuietClears`, a clear wipes
  a fill; a restart inside a clear leaves a row whose trades no longer match.

Jobs and legs:
* a retried entry chooses its strike again and may open legs at two strikes;
* a job whose UPDATE to `QUEUE` failed runs under a `REJECT` row, and its template
  can be sent again; the boot sweep fails a row whose id was never stored although
  its job waits in Redis;
* after refusals, a second attempt of the job can place a leg again whose first
  attempt is working under a random key (`LegOnce` with refusals and several
  attempts), where `docs/PROCESS_RELIABILITY.md:46` says retries are safe; the
  same within one attempt when the book is late after a refusal;
* slices of equal quantity refuse each other as duplicates, and an ensurer can
  take over the other's order (`DistinctOrders`); a sliced leg never
  counts as rejected;
* a leg that ends unsure (a lost answer, a timeout, a gate that changes its mind
  between its two questions) is dropped without rollback: `CompletedIsWhole` and
  `ShortIsHedged` assume `Answered` and unsliced legs, and except a leg the broker
  refused with a type the ensurer has no branch for (`Dropped`).
  So a hedge refused for margin is dropped and the primary leaves without it, although
  `docs/strategies/ATM_STRADDLE.md:57` says the flags flatten a broken hedge.

Exits and Chase:
* auto square-off sizes its order by the account's net: with stops and a second
  job in the contract it can close the other job's unit (with several jobs,
  `OwnQuantity` needs a setting without timed exits or without stops);
* past a refusal under the intent key, auto square-off and the watcher, or two rows of
  one flatten, place under random keys and close the same quantity (`TwoSenders`
  and `FlatTwice` in `OwnQuantity` and `NotTurnedRound`), although
  `docs/PROCESS_RELIABILITY.md:34` says the reuse rule protects exits;
* a square-off refused for good leaves the position without a stop (`GaveUp` in
  `FlatByEnd`), although `docs/strategies/ATM_STRADDLE.md:11` says it is flat before the
  close;
* an entry executed during a flatten lets two flatten orders of different sizes turn
  the net round; a second flatten or kill on the same day finds its key taken
  (`KillHolds` is about the first);
* the operator's flatten key has no tag: after a completed flatten of the same
  contract and size on the same day it is reused and nothing is sent;
* with an unreadable order list on a touch, the cover is sent beside a working stop
  (`NoReversal` with `blind`);
* a reset swallows the error of its cancel and leaves the entry trigger at the
  broker; a reset over a market entry under way leaves a position no job adopts,
  since the row has no contract any more;
* all covers share one intent key per contract, side and quantity: a second cover
  may be answered from the first (`Protected` accepts it);
* if another process syncs the ledger between the entry check's read of the ledger
  and of the order list, the check sees neither row nor order and enters again;
* `cancelOrder` sees only `TRIGGER PENDING` orders: a triggered entry whose limit was
  passed is not cancelled;
* with two failing reads, or with passed limits and signals of both sides, a stop or
  a cover can be executed that does not reduce the position (`NoReversal` has at
  most one failure in `ChaseDay`, and one side with passed limits);
* `generateSignal` does not look at `kiteQtyKnown`: an unreadable position counts as
  the ledger's.

### Bounds

Two callers are enough for every pairwise race on a row; three attempts let a
caller fail, place again and fail again; three requests are one more than the
property allows. `PlaceFull`, with liveness, has two of each: a lost or
misread answer, or a reject, and the placement after it. Quantity 3 gives a fill before, between and after two snapshots.
Two drivers are enough for a race on one row. Failures and restarts are bounded
by `MaxFails`, `MaxCrashes`, `MaxFailures`, `MaxFaults`, `MaxRefusals`; one or two put
one into every gap between two steps. `PositionDay`: quantities -2 and 1 make
increases, reductions, closes and reversals with three fills; prices 1, 2, 4 make
averages that must be rounded; two clears. `JobsDay`: two rows and two senders of
one template, two attempts, one abort. `LegsDay`: a hedge and two primaries, or two
slices, and three attempts of an ensurer as in the code. `ExitsDay`: two refusals for
three attempts, so that an exit can be refused twice and still go through. `ChaseDay`: seven orders
(entry, stop and cover of two round trips, one to spare), three hourly jobs, one
night. `CHECK_DEADLOCK FALSE`: calls end, and a finite day has a last state.

### Fairness

`OrderPlacement`: a sync pass that has begun goes on (weak: an `await` returns) and
an order that stays in the book is read again (strong: reconcile loops over the
whole book and runs again; any one pass may be cut short). `Ledger`: the same of its
drivers, and unapplied fills are picked up. `PositionBook`: every pending fill is
tried again (strong, per fill: `applyUnappliedFills` goes through all of them on
every pass) and a started transaction ends; that it succeeds is not assumed.
`Jobs`: the worker goes on with every job, its event handlers included, and BullMQ
returns a stalled job. `LegGroup`: the event loop runs every continuation, an HTTP
call is answered or fails, the broker ends an order or the ensurer's timer fires.
`Exits`: entry and stop go through, the square-off time comes, a market order is
executed or refused. `Chase`: jobs that are due run, market orders execute, the feed
catches up, a night ends. Nothing is assumed of operators or of triggers.

## Theorems

Each proof module extends the module it is about. Every theorem holds for any
set of constants that satisfies the module's named assumption: any number of
callers, drivers, jobs and orders, any quantity, any number of failures and
restarts, and, in the modules with `Settings`, any set of surroundings. A
hypothesis of a theorem is written in its statement.

### Ledger (`LedgerProofs`)

* `TypeCorrect`: inductive with `PendingIsNew`: a driver about to insert a fill
  holds a snapshot above the quantity it read; without it a fill's quantity
  need not be a natural number.
* `FilledQtyIsBacked` (`FilledQtyBacked`), with overlap, partial fills and the
  overnight book. The invariant adds that the quantity every driver carries
  (the one it read, and the snapshot's once `saved`) is backed too; fills are
  never deleted.
* `WholeOrdersBookedOnce` (`NoOverbook`) and `WholeOrdersRefine`
  (`ImplementsFillBook`), with `~Partial`. Every quantity in sight is 0 or `Qty`,
  so an order has one fingerprint, one fill row, and `applied` decides whether it
  is booked. The refinement goes step by step: `Executes` is `Execute`, a first
  `ApplyTransaction` is `Book`, all else stutters. Without `~Partial` both are
  false when drivers overlap (`LedgerTwoWriters`).
* `CloseSparesFillsHolds` (`CloseSparesFills`), with `~Overlap`, the overnight book
  included. `CloseInv`: a `CANCELLED` in the hand of a driver is what the broker said;
  between the SELECT and the UPDATE of a call only the close may write the row; a
  close starts from a row without fills, and its UPDATE is conditional on that. So
  a close either finds no saved fill or is put right by the driver that saved it.
* `ProgressKeptInTurns` (`ProgressKept`), with `~Overlap`. `TurnInv`: at most one
  driver is at an order; what it read is what the row still says; only an open
  row is read for a snapshot; a full snapshot goes with `FILLED`. "What it read
  is what the row still says" is what overlap destroys.
* `TurnsBookedOnce` (`NoOverbook` while nothing has restarted) and `TurnsRefine`
  (with `MaxCrashes = 0`), with `~Overlap`, for orders executed in any number of
  parts. The fills of an order are pieces that begin where the one before ended;
  `UnitInv` says so with sets instead of sums: `booked` is the number of units
  that lie in an applied fill, and a set of units is no larger than what was
  executed.

### Order placement (`OrderPlacementProofs`)

* `TypeCorrect` and `OkIsInBookHolds` (`OkIsInBook`): every setting.
* `OwnOrderHolds` (`OwnOrder`): every setting in which the attributes tell the
  intents apart (`AttrsTellKeys`). `BookInv`: every id a caller, a row or the sync
  holds is a request of its own attributes.
* `KeepsOrderHolds` (`KeepsOrder`): every setting with one caller per intent; the
  invariant says that the id `markOrderSubmitted` read is the row's.
* `OneLiveOrderHolds` (`OneLiveOrder`): no ledger sync and no database errors
  (`Undisturbed`), and either no row ever gets older than the window or one
  caller per intent. Inside the window an intent has one row that may still
  send; a row has at most one request or one caller about to make it, and an
  `UNKNOWN` row is not sent again. Past the window a request has either reached
  the book, where the lookup finds it, or failed.
* `FailedIsRejectHolds` (`FailedIsReject`, which is about settings without sync and
  database errors and excepts the request whose own answer was misread):
  distinct attributes, one caller per intent and not both a slow book and the
  window; rejects and misread answers are allowed. A misread answer is the only
  way a `FAILED` row can hide a live order there.

TLC found both hypotheses necessary while the invariants were strengthened:
past the window two callers of one intent that are both at their lookup place
twice, and a caller that read no broker id can mark the row `UNKNOWN` over the
id another has stored.

### Jobs (`JobsProofs`)

`TypeCorrect`, `OneKnownRunHolds`, `CompletedIsArmedHolds` and `LostIsLostHolds` hold
without a hypothesis. `JobsInv` ties the two stores together: every queue job
belongs to the row its sender inserted (`Linked`, `Calls`), a worker's program
counter says what of its legs is armed (`Worker`), a row that can still enter is
the open row of its template (`Opens`, the unique index over rows), and a row the
sweep holds has no job in Redis (`Sweeping`, `Swept`).

### Exits (`ExitsProofs`)

* `TypeCorrect`, `NoStopLeftHolds`, `OwnStopsOnlyHolds` (an action property): any
  set of jobs. An exit that has gone past the cancel found the stop of its job
  cancelled, done or absent, and the job places none any more.
* `OwnQuantityHolds` (`Alone => OwnQuantity`) and `NotTurnedRoundHolds` (the same,
  and no flatten). `Alone`: where stops meet a timed square-off, the contract has
  one job. The invariant counts every unit as held, in a stop or in an exit under
  way, and the exit order of a job as one because its intent key is shared;
  past a refusal the one order is the single sender's. `TwoSenders` (auto square-off
  and watcher have both placed past it) is excepted in the property: there the
  conclusion is false.
* `KillHoldsOnce` (`KillHolds` after one flatten): what was booked when the
  operator began is closed by the orders of his reading of the net, whatever
  entry or exit runs meanwhile.

The hypotheses are the run's: with two jobs, stops and a timed square-off in one
contract, auto square-off sizes its order by the account's net and can close
the other job's unit.

### PositionBook (`PositionBookProofs`)

* `TypeCorrect`, `BaseHolds`, `NamedStaysNamedHolds`: every setting, also with both
  books in one contract and clears over fills under way. `BaseInv` says what the
  locks and the unique index give: a pending fill has at most one worker, a
  worker's row is the one its SELECT locked, an applied fill has its row, a
  strategy has at most one row with its name, a trade its row.
* `BooksKeptApart`, `TradesMatchRowsHolds`, `BookOwnsQuantityHolds`,
  `RealizedIsTradesHolds`, `FlatIsCashHolds`: where `OneBook` holds, that is
  `QuietClears /\ ~SharedRows`, the hypotheses of the run (both are false in the
  code, see the known limits). `AloneInv`: the fills, events and trades of a row
  are of the row's own book, and a row has exactly the open trade its quantity
  asks for, or is left flat by a clear that was cut off. `SumsInv` relates each
  row to three sums: its quantity to its fills less its clears, its realised
  profit to its trades (and, on a live row, to its events), and its profit less
  the open quantity at the average price to the cash of its fills, up to the
  rounding of the averages. The rounding part is arithmetic about
  `applyFillToPosition`, kind by kind (open, increase, reduce, close, reverse).

The sums are folds over sets of fills, trades and events. `SumLemmas` derives what
the proofs need of them (that a sum is a number, follows the values it sums, and
may take out any element first) once from the definition of the fold; everything
else, the sums of `Chase` included, cites those lemmas. The library's induction
theorems take a formula as a parameter, which cannot be instantiated, so the
induction is over a set in the place of the formula, from the well-foundedness
of `<` and of strict inclusion.

### LegGroup (`LegGroupProofs`)

* `TypeCorrect`: every setting. It needs `LegInv`: an attempt that runs was
  counted (a restart takes one off), ensurers run only in the phase of their leg,
  and what a row or an ensurer says of a request is true of its fate.
* `LegOnceHolds` (`LegOnce`) with `SafeRetries`: where the broker may refuse, the job
  runs once and no answer is lost. `OnceInv`: without refusals an order has one
  request at all, because a row that is not `REJECTED`, `FAILED` or `CANCELLED` is
  reused or refused; with them, all but the last are dead, and the last one is
  dead before the ensurer is free to send again. Without the hypothesis it is
  false: after a refusal the retry opens a random key, and an attempt of the job
  after the next one reads only the first key.
* `ReportedIsHeldHolds`, `CompletedIsWholeHolds`, `ShortIsHedgedHolds` with
  `DistinctOrders`: no two orders of a job have the same symbol, side and quantity.
  `CompletedIsWhole` and `ShortIsHedged` are about entries whose answers are not lost
  and whose gate does not change its mind (`Answered`), and except an order the
  broker refused where the setting has types without a branch (`Dropped`).
  `WholeInv`: an ensurer waits for a request of its own order; answered and not
  aborted, it ends without a result only for such a refusal, because the duplicate
  check it passed stays passed; the rollback flags let the job go on only with legs
  that were not rejected; and primaries leave only behind executed or dropped
  hedges, also after a restart, since an executed request stays executed and a
  refused one refused.

### Chase (`ChaseProofs`)

The hypothesis is `Prompt`: no setting has a lagging positions feed, a triggered
limit order the market has passed, or a failing call. Both sides, any number of
signals, orders, hours, days and minute jobs, the operator's Pause and reset, and
another writer of the ledger are allowed.

* `TypeCorrect`: `TypeOK` bounds the position, so even the type needs the rest.
* `OneEntryHolds`, `NoStrayEntryHolds`: at most one order works at the broker. It is
  the entry of the waiting signal, over an empty book whose ledger does not show
  the position either, or it closes the position (`WorkOk`). One order at a time
  is what the sequence of awaits has to guarantee, so `Inv` says for every point
  of every job what the job may still rely on after its last await: a cover that
  is about to be placed finds nothing working, a retry of an entry finds the
  book empty and the ledger behind, the cancels of a drop reach every working order.
* `NoReversalHolds`: an action property. Only `Fill` makes an order `done`, and under
  `Inv` a fill of anything but an entry takes the position to zero.

The conjuncts that make it inductive are not obvious. `OrderOk`: an order that is
over is in the ledger or still in the order list. `BookOk`: the position is the
sum of the executed orders, and the ledger is at most one round trip behind it.
`RowOk`: a row that is still a signal with a position under it exists only
while the hourly job is between its two reads, or while the book is paused.
`ClosedOk` and `CountOk`: the end of the day leaves nothing working and nothing
unbooked, and a night begins only within its bound.

### What stays with TLC

Every liveness property (`LandedIsTracked`, `FillsBooked`, `FillsApplied`,
`EntryIsFollowedUp`, `EntryEnds`, `FlatByEnd`, `Protected`, `Settles`): liveness under
fairness and `ENABLED` are outside the prover's reach. `OneEntry`, `NoStrayEntry` and `NoReversal` of `Chase` are proved
under `Prompt` only: with a lagging feed, a passed limit or a failing call (settings of `ChaseDay`)
they are model-checked. There the entry rests on the order list instead
of the position, and the invariant is a different one. The three
violations are counterexamples, which only TLC gives.

Every inductive invariant was checked by TLC on the runs' instances before it was
proved (the unconditional ones of `PositionBook` with clears over fills and shared
rows as well).

## Plan

Done: placement, ledger, accounting and positions, jobs, leg groups, exits and kill,
Chase, with theorems about each. Next:

1. `Chase` beyond `Prompt`: with a lagging feed the fills of the order list stand in
   for the position (`EpisodeFills`, `CoverQty`), and the clause for each job speaks of
   both; then failing reads, one at a time.
2. Models, if they are taken up: the once-a-day claims of momentum and daily trend,
   the paper fill after `markOrderSubmitted`, the risk caps.

## Not modelled

Momentum and daily trend compute over candles of many symbols; their orders and
fills go through what is modelled, their once-a-day claims are in the plan.
Paper execution writes the ledger without a broker. The caps of the risk gate are
read without a lock from sums over the account: two entries may pass together,
and the code does not claim otherwise. Chase's rollover, its paper book and the
EMA are left out of `Chase`. Portfolio, signals and alerts derive reports and
change no trading state. Templates and schedules are forms over single rows. The
calendar is a table. Sessions, routes and UI are framework code around the
operations above. The simulation lab is the repository's own test harness. The
SL watchers are not started by any queue at this commit. Strike selection is
arithmetic over live quotes.

More than half of the repository's lines are pages, the simulation lab, vendored
tooling and reports: they keep no state of their own that a model could check, so
the models cover a small share of the lines and most of the code that sends an
order or writes the ledger.
