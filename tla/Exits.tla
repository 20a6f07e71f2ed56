------------------------------- MODULE Exits --------------------------------
(***************************************************************************)
(* How option positions are closed: the stop orders of                     *)
(* individualLegExitOrders, the loss watcher targetPnL with squareOffTag,  *)
(* auto square-off (autoSquareOffStrat, doDeletePendingOrders,             *)
(* doSquareOffPositions), and the operator's flattenOpenPositions and      *)
(* runDeskKill.                                                            *)
(*                                                                         *)
(* One contract, sold by one or more jobs, one unit each, each with its    *)
(* own order tag.  The broker's net of the contract is the account's, not  *)
(* a job's.  Exits are not refused as duplicates; placeOrder only reuses   *)
(* the row of their intent key (OrderPlacement), so every exit is a key    *)
(* with a state here.  A key whose order was refused or rejected is of no  *)
(* use to a later call: recordOrderIntent gives each such call a key of    *)
(* its own, with a random suffix no other call finds.  Left out: paper     *)
(* books, closed markets, failed reads of the book or the net, lost        *)
(* answers (OrderPlacement), a triggered limit stop that does not fill,    *)
(* onSquareOffSetAborted.                                                  *)
(***************************************************************************)
EXTENDS Integers, FiniteSets

CONSTANTS
    Jobs,          \* option jobs that sell the contract
    Settings,      \* the surroundings looked at, see Setting
    RetryAttempts, \* placements of one call of remoteOrderSuccessEnsurer
    MaxRefusals    \* bound: exit requests the broker refuses

\* jobs: the jobs of the day; stops: their exit strategy places a stop;
\* aso: auto square-off is on; target: the loss watcher is on; flattens: how
\* often the operator squares off; kill: he uses Kill rather than Flatten;
\* calm: the stops of the jobs that are in are placed when he calls, and none
\* triggers between his reading the net and cancelling the stop; fatal:
\* refusals remoteOrderSuccessEnsurer does not send again may come, an error type
\* other than OrderException, or an order rejected after its answer whose row
\* reconcile has not seen before the attempts are over, 15 seconds apart.
Setting == [jobs: SUBSET Jobs, stops: BOOLEAN, aso: BOOLEAN, target: BOOLEAN,
            flattens: Nat, kill: BOOLEAN, calm: BOOLEAN, fatal: BOOLEAN]

ASSUME ExitsAssumption ==
    /\ IsFiniteSet(Jobs)
    /\ MaxRefusals \in Nat
    /\ RetryAttempts \in Nat
    /\ Settings \subseteq Setting

VARIABLES
    net,       \* the broker's net quantity of the contract
    job,       \* per job: its entry, ABORT, its ledger row and its stop
    exit,      \* per job: the order under its FLATTEN intent key
    again,     \* per job and sender: its order under a key of its own
    flat,      \* per size: the order under the flatten key, which has no tag
    resent,    \* per size: flatten orders under keys of their own, and executed
    aso,       \* the auto square-off of each job
    attempt,   \* attemptCount of its ensurer
    watch,     \* the loss watcher of each job
    op,        \* the operator's flatten or kill
    halted,    \* deskHalted
    refusals,
    env        \* the setting of this behaviour; it never changes

vars == <<net, job, exit, again, flat, resent, aso, attempt, watch, op, halted, refusals, env>>

Sizes == 1..Cardinality(Jobs)
KeyStates == {"none", "sent", "done", "FAILED"}
Senders == {"aso", "watch"}
ExitPCs == {"wait", "book", "cancel", "net", "place", "poll", "refused", "over"}

\* row: the quantity of the job's ledger position.
Job == [entry: {"planned", "checked", "in", "refused"}, aborted: BOOLEAN, row: {-1, 0},
        stop: {"none", "pending", "done", "cancelled"}]

\* rows: ledger rows still to square off; at: the row at hand; qty: the size
\* read for it; jobs: optionJobIds; had: the jobs whose entry was booked when
\* the call began (for the properties only); left: calls the operator has left.
Op == [pc: {"idle", "net", "cancel", "place", "abort", "halt"}, rows: SUBSET Jobs,
       at: SUBSET Jobs, qty: Nat, jobs: SUBSET Jobs, had: SUBSET Jobs, left: Nat]

\* The orders, the rows and what each exit holds across its awaits stay well
\* formed.
TypeOK ==
    /\ net \in Int
    /\ job \in [Jobs -> Job]
    /\ exit \in [Jobs -> KeyStates]
    /\ again \in [Jobs -> [Senders -> KeyStates]]
    /\ flat \in [Sizes -> KeyStates]
    /\ resent \in [Sizes -> [sent: Nat, done: Nat]]
    /\ aso \in [Jobs -> ExitPCs]
    /\ attempt \in [Jobs -> Nat]
    /\ watch \in [Jobs -> ExitPCs]
    /\ op \in Op
    /\ halted \in BOOLEAN
    /\ refusals \in 0..MaxRefusals
    /\ env \in Settings

IdleOp(left) == [pc |-> "idle", rows |-> {}, at |-> {}, qty |-> 0, jobs |-> {},
                 had |-> {}, left |-> left]

Init ==
    /\ env \in Settings
    /\ net = 0
    /\ job = [j \in Jobs |-> [entry |-> "planned", aborted |-> FALSE, row |-> 0,
                              stop |-> "none"]]
    /\ exit = [j \in Jobs |-> "none"]
    /\ again = [j \in Jobs |-> [a \in Senders |-> "none"]]
    /\ flat = [n \in Sizes |-> "none"]
    /\ resent = [n \in Sizes |-> [sent |-> 0, done |-> 0]]
    /\ aso = [j \in Jobs |-> "wait"]
    /\ attempt = [j \in Jobs |-> 0]
    /\ watch = [j \in Jobs |-> "wait"]
    /\ op = IdleOp(env.flattens)
    /\ halted = FALSE
    /\ refusals = 0

SetJob(j, rec) == job' = [job EXCEPT ![j] = rec]
In(j) == job[j].entry = "in"
Filled(state) == IF state = "done" THEN 1 ELSE 0

\* What job j holds by the orders that carry its tag: getCompletedOrdersbyTag.
Held(j) == (IF In(j) THEN -1 ELSE 0) + Filled(job[j].stop) + Filled(exit[j])
           + Filled(again[j]["aso"]) + Filled(again[j]["watch"])

-----------------------------------------------------------------------------
(***************************************************************************)
(* Entries and stops                                                       *)
(***************************************************************************)

\* assertOrderAllowed for the entry: neither halted nor aborted.
CheckEntry(j) ==
    /\ job[j].entry = "planned"
    /\ SetJob(j, [job[j] EXCEPT
           !.entry = IF halted \/ job[j].aborted THEN "refused" ELSE "checked"])
    /\ UNCHANGED <<net, exit, again, flat, resent, aso, attempt, watch, op, halted, refusals>>

\* The entry order is executed at the broker (LegGroup).
Entered(j) ==
    /\ job[j].entry = "checked"
    /\ SetJob(j, [job[j] EXCEPT !.entry = "in"])
    /\ net' = net - 1
    /\ UNCHANGED <<exit, again, flat, resent, aso, attempt, watch, op, halted, refusals>>

\* individualLegExitOrders: the stop of a filled leg; its ensurer reads ABORT.
\* Environment: the exit worker has placed it before any exit of the job runs.
PlaceStop(j) ==
    /\ env.stops
    /\ In(j)
    /\ job[j].stop = "none"
    /\ ~job[j].aborted
    /\ aso[j] = "wait" /\ watch[j] = "wait" /\ op.pc = "idle"
    /\ SetJob(j, [job[j] EXCEPT !.stop = "pending"])
    /\ UNCHANGED <<net, exit, again, flat, resent, aso, attempt, watch, op, halted, refusals>>

\* The market reaches the trigger and the stop order is executed.
StopTriggers(j) ==
    /\ job[j].stop = "pending"
    /\ ~(env.calm /\ op.pc = "cancel")
    /\ SetJob(j, [job[j] EXCEPT !.stop = "done"])
    /\ net' = net + 1
    /\ UNCHANGED <<exit, again, flat, resent, aso, attempt, watch, op, halted, refusals>>

\* The fills with the tag of the job reach its ledger row (Ledger,
\* PositionBook).
BookFills(j) ==
    /\ Held(j) \in {-1, 0}
    /\ job[j].row # Held(j)
    /\ SetJob(j, [job[j] EXCEPT !.row = Held(j)])
    /\ UNCHANGED <<net, exit, again, flat, resent, aso, attempt, watch, op, halted, refusals>>

-----------------------------------------------------------------------------
(***************************************************************************)
(* Exits with the tag of a job: auto square-off and the loss watcher       *)
(***************************************************************************)

\* The stop has been placed, or the job has none.  Environment: the queues give
\* the exits of a job to their workers after its stop was placed.
Armed(j) == In(j) /\ (env.stops => job[j].stop # "none")

\* autoSquareOffStrat at the clock time: an aborted job is left alone.
AsoStart(j) ==
    /\ env.aso /\ Armed(j)
    /\ aso[j] = "wait"
    /\ aso' = [aso EXCEPT ![j] = IF job[j].aborted THEN "over" ELSE "book"]
    /\ UNCHANGED <<net, job, exit, again, flat, resent, attempt, watch, op, halted, refusals>>

\* targetPnL: the loss is breached and squareOffTag runs, unless the tag is
\* flat, the job is aborted or the square-off time has come.
WatchBreach(j) ==
    /\ env.target /\ Armed(j)
    /\ watch[j] = "wait"
    /\ watch' = [watch EXCEPT ![j] =
           IF Held(j) = 0 \/ job[j].aborted \/ aso[j] # "wait" THEN "over" ELSE "book"]
    /\ UNCHANGED <<net, job, exit, again, flat, resent, aso, attempt, op, halted, refusals>>

\* The pending stops in the broker's book.
PendingStops == {k \in Jobs : job[k].stop = "pending"}

\* Mutant: the tag is not compared.
AnyTag(j) == PendingStops

\* protectiveOrderMatchesJob and the filter of squareOffTag: the pending stop
\* with the tag of the job.
OwnStops(j) == PendingStops \cap {j}

\* kite.getOrders: is there a stop to cancel?  deletePendingOrders is set
\* wherever the app builds the job.
AsoBook(j) ==
    /\ aso[j] = "book"
    /\ aso' = [aso EXCEPT ![j] = IF OwnStops(j) # {} THEN "cancel" ELSE "net"]
    /\ UNCHANGED <<net, job, exit, again, flat, resent, attempt, watch, op, halted, refusals>>

WatchBook(j) ==
    /\ watch[j] = "book"
    /\ watch' = [watch EXCEPT ![j] = IF Held(j) = 0 THEN "over"
                                     ELSE IF OwnStops(j) # {} THEN "cancel" ELSE "net"]
    /\ UNCHANGED <<net, job, exit, again, flat, resent, aso, attempt, op, halted, refusals>>

\* kite.cancelOrder: done in the meantime, the broker refuses until
\* withRemoteRetry gives up; cancelled in the meantime, the same.
CancelOwn(j) == job' = [k \in Jobs |-> IF k \in OwnStops(j)
                                       THEN [job[k] EXCEPT !.stop = "cancelled"] ELSE job[k]]

\* Auto square-off logs a failed cancel and goes on.
AsoCancel(j) ==
    /\ aso[j] = "cancel"
    /\ CancelOwn(j)
    /\ aso' = [aso EXCEPT ![j] = "net"]
    /\ UNCHANGED <<net, exit, again, flat, resent, attempt, watch, op, halted, refusals>>

\* Mutant: the watcher ignores a failed cancel and a stop left behind.
WatchSkipsCancel(j) ==
    /\ watch[j] = "cancel"
    /\ watch' = [watch EXCEPT ![j] = "net"]
    /\ UNCHANGED <<net, job, exit, again, flat, resent, aso, attempt, op, halted, refusals>>

\* A failed cancel ends this run of the watcher; the queue runs it again.
WatchCancel(j) ==
    /\ watch[j] = "cancel"
    /\ CancelOwn(j)
    /\ watch' = [watch EXCEPT ![j] = IF OwnStops(j) # {} THEN "net" ELSE "wait"]
    /\ UNCHANGED <<net, exit, again, flat, resent, aso, attempt, op, halted, refusals>>

\* Mutant: the net is not read.
AsoNetBlind(j) ==
    /\ aso[j] = "net"
    /\ aso' = [aso EXCEPT ![j] = "place"]
    /\ UNCHANGED <<net, job, exit, again, flat, resent, attempt, watch, op, halted, refusals>>

\* squareOffNet: kite.getPositions; a position on the side of the entry order
\* is squared off by at most the order's quantity.
AsoNet(j) ==
    /\ aso[j] = "net"
    /\ aso' = [aso EXCEPT ![j] = IF net < 0 THEN "place" ELSE "over"]
    /\ UNCHANGED <<net, job, exit, again, flat, resent, attempt, watch, op, halted, refusals>>

WatchNet(j) ==
    /\ watch[j] = "net"
    /\ watch' = [watch EXCEPT ![j] = IF net < 0 THEN "place" ELSE "over"]
    /\ UNCHANGED <<net, job, exit, again, flat, resent, aso, attempt, op, halted, refusals>>

\* Mutant: every call sends, whatever the row of the key says.
SendAlways(state) == "sent"

\* placeOrder on an exit key: a new intent is sent, any other reused.
PlaceKey(state) == IF state = "none" THEN "sent" ELSE state

\* Mutant: the row of a refused intent is reused.
ReuseRefused(j, sender) ==
    /\ exit' = [exit EXCEPT ![j] = PlaceKey(exit[j])]
    /\ UNCHANGED again

\* placeOrder for an exit of job j: past a refusal under the intent key every
\* call sends under a key of its own.
Place(j, sender) ==
    IF exit[j] = "FAILED"
    THEN again' = [again EXCEPT ![j][sender] = "sent"] /\ UNCHANGED exit
    ELSE exit' = [exit EXCEPT ![j] = PlaceKey(exit[j])] /\ UNCHANGED again

\* The state of the order a sender of exits has the broker id of.
Mine(j, sender) == IF exit[j] = "FAILED" THEN again[j][sender] ELSE exit[j]

\* doSquareOffPositions, the market exit through remoteOrderSuccessEnsurer: an
\* ABORT throws, and the job is over.
AsoPlace(j) ==
    /\ aso[j] = "place"
    /\ IF job[j].aborted
       THEN aso' = [aso EXCEPT ![j] = "over"] /\ UNCHANGED <<exit, again>>
       ELSE aso' = [aso EXCEPT ![j] = "poll"] /\ Place(j, "aso")
    /\ UNCHANGED <<net, job, flat, resent, attempt, watch, op, halted, refusals>>

\* The ensurer waits for COMPLETE and sends a refused order again.  Refused for
\* good it throws or answers {successful: false}; the job has no attempts and is
\* not run again.
AsoPoll(j) ==
    /\ aso[j] = "poll"
    /\ \/ /\ Mine(j, "aso") = "done"
          /\ aso' = [aso EXCEPT ![j] = "over"]
          /\ UNCHANGED attempt
       \/ /\ Mine(j, "aso") \notin {"sent", "done"}
          /\ attempt' = [attempt EXCEPT ![j] = @ + 1]
          /\ \/ attempt'[j] < RetryAttempts /\ aso' = [aso EXCEPT ![j] = "place"]
             \/ /\ env.fatal \/ attempt'[j] >= RetryAttempts
                /\ aso' = [aso EXCEPT ![j] = "refused"]
    /\ UNCHANGED <<net, job, exit, again, flat, resent, watch, op, halted, refusals>>

\* squareOffOrder: straight through placeOrder in withRemoteRetry, which sends
\* again after every refusal.  (An order rejected after its answer is not sent
\* again; here it may be.)
WatchPlace(j) ==
    /\ watch[j] = "place"
    /\ \/ /\ Mine(j, "watch") = "done"
          /\ watch' = [watch EXCEPT ![j] = "over"]
          /\ UNCHANGED <<exit, again>>
       \/ /\ Mine(j, "watch") \notin {"sent", "done"}
          /\ Place(j, "watch")
          /\ UNCHANGED watch
    /\ UNCHANGED <<net, job, flat, resent, aso, attempt, op, halted, refusals>>

-----------------------------------------------------------------------------
(***************************************************************************)
(* flattenOpenPositions and runDeskKill                                    *)
(***************************************************************************)

\* A flatten order of this size is at the broker.
Working(n) == flat[n] = "sent" \/ resent[n].sent > resent[n].done

\* The open ledger rows are read once.  Environment: the operator does not
\* call again while a market order of the last call is under way.
OpStart ==
    /\ op.pc = "idle" /\ op.left > 0
    /\ \A n \in Sizes : ~Working(n)
    /\ env.calm /\ env.stops => \A j \in Jobs : In(j) => job[j].stop # "none"
    /\ op' = [IdleOp(op.left - 1) EXCEPT
                  !.pc = "net",
                  !.rows = {j \in Jobs : job[j].row # 0},
                  !.had = {j \in Jobs : job[j].row # 0}]
    /\ UNCHANGED <<net, job, exit, again, flat, resent, aso, attempt, watch, halted, refusals>>

\* getNetPositionQty and flattenRowPlan: the size is the account's net.
OpNet ==
    /\ op.pc = "net"
    /\ \/ \E j \in op.rows :
             op' = IF net < 0
                   THEN [op EXCEPT !.pc = "cancel", !.rows = @ \ {j}, !.at = {j}, !.qty = -net]
                   ELSE [op EXCEPT !.rows = @ \ {j}]
       \/ op.rows = {} /\ op' = [op EXCEPT !.pc = "abort"]
    /\ UNCHANGED <<net, job, exit, again, flat, resent, aso, attempt, watch, halted, refusals>>

\* cancelPendingSl: the first pending stop of the contract, whatever its tag.
OpCancel ==
    /\ op.pc = "cancel"
    /\ \/ \E k \in PendingStops : SetJob(k, [job[k] EXCEPT !.stop = "cancelled"])
       \/ PendingStops = {} /\ UNCHANGED job
    /\ op' = [op EXCEPT !.pc = "place"]
    /\ UNCHANGED <<net, exit, again, flat, resent, aso, attempt, watch, halted, refusals>>

\* submitFlattenOrder: no tag, so the key is the contract, the side and the
\* size, and past a refusal under it a key of its own.  A refusal is put on the
\* skipped list and the loop goes on.
OpPlace ==
    /\ op.pc = "place"
    /\ \/ /\ IF flat[op.qty] = "FAILED"
             THEN resent' = [resent EXCEPT ![op.qty].sent = @ + 1] /\ UNCHANGED flat
             ELSE flat' = [flat EXCEPT ![op.qty] = PlaceKey(flat[op.qty])] /\ UNCHANGED resent
          /\ op' = [op EXCEPT !.pc = "net", !.at = {}, !.qty = 0, !.jobs = @ \cup op.at]
          /\ UNCHANGED refusals
       \/ /\ refusals < MaxRefusals
          /\ flat[op.qty] \in {"none", "FAILED"}
          /\ flat' = [flat EXCEPT ![op.qty] = "FAILED"]
          /\ op' = [op EXCEPT !.pc = "net", !.at = {}, !.qty = 0]
          /\ refusals' = refusals + 1
          /\ UNCHANGED resent
    /\ UNCHANGED <<net, job, exit, again, aso, attempt, watch, halted>>

\* Kill aborts every job of the day.  Flatten aborts the jobs it squared off
\* whose ledger row is closed by now.
OpAbort ==
    /\ op.pc = "abort"
    /\ LET ended == IF env.kill THEN Jobs ELSE {j \in op.jobs : job[j].row = 0} IN
       job' = [j \in Jobs |-> [job[j] EXCEPT !.aborted = @ \/ j \in ended]]
    /\ op' = IF env.kill THEN [op EXCEPT !.pc = "halt"]
             ELSE [op EXCEPT !.pc = "idle", !.at = {}, !.jobs = {}]
    /\ UNCHANGED <<net, exit, again, flat, resent, aso, attempt, watch, halted, refusals>>

\* Mutant: the halt is not stored.
OpHaltsNothing ==
    /\ op.pc = "halt"
    /\ op' = [op EXCEPT !.pc = "idle"]
    /\ UNCHANGED <<net, job, exit, again, flat, resent, aso, attempt, watch, halted, refusals>>

\* runDeskKill halts the desk last.
OpHalt ==
    /\ op.pc = "halt"
    /\ halted' = TRUE
    /\ op' = [op EXCEPT !.pc = "idle"]
    /\ UNCHANGED <<net, job, exit, again, flat, resent, aso, attempt, watch, refusals>>

-----------------------------------------------------------------------------
(***************************************************************************)
(* The broker                                                              *)
(***************************************************************************)
\* An exit of job j at the broker, under the intent key or one of its own.
ExitFills(j) ==
    /\ \/ /\ exit[j] = "sent"
          /\ exit' = [exit EXCEPT ![j] = "done"]
          /\ UNCHANGED again
       \/ \E a \in Senders :
             /\ again[j][a] = "sent"
             /\ again' = [again EXCEPT ![j][a] = "done"]
             /\ UNCHANGED exit
    /\ net' = net + 1
    /\ UNCHANGED <<job, flat, resent, aso, attempt, watch, op, halted, refusals>>

ExitRefused(j) ==
    /\ refusals < MaxRefusals
    /\ refusals' = refusals + 1
    /\ \/ /\ exit[j] = "sent"
          /\ exit' = [exit EXCEPT ![j] = "FAILED"]
          /\ UNCHANGED again
       \/ \E a \in Senders :
             /\ again[j][a] = "sent"
             /\ again' = [again EXCEPT ![j][a] = "FAILED"]
             /\ UNCHANGED exit
    /\ UNCHANGED <<net, job, flat, resent, aso, attempt, watch, op, halted>>

FlatFills(n) ==
    /\ \/ /\ flat[n] = "sent"
          /\ flat' = [flat EXCEPT ![n] = "done"]
          /\ UNCHANGED resent
       \/ /\ resent[n].sent > resent[n].done
          /\ resent' = [resent EXCEPT ![n].done = @ + 1]
          /\ UNCHANGED flat
    /\ net' = net + n
    /\ UNCHANGED <<job, exit, again, aso, attempt, watch, op, halted, refusals>>

AsoStep(j) == AsoStart(j) \/ AsoBook(j) \/ AsoCancel(j) \/ AsoNet(j) \/ AsoPlace(j)
              \/ AsoPoll(j)

WatchStep(j) ==
    \/ WatchBreach(j) \/ WatchBook(j) \/ WatchCancel(j) \/ WatchNet(j) \/ WatchPlace(j)

OpStep == OpNet \/ OpCancel \/ OpPlace \/ OpAbort \/ OpHalt

Next ==
    /\ \/ \E j \in env.jobs :
             \/ CheckEntry(j) \/ Entered(j) \/ PlaceStop(j) \/ StopTriggers(j)
             \/ BookFills(j) \/ AsoStep(j) \/ WatchStep(j)
             \/ ExitFills(j) \/ ExitRefused(j)
       \/ \E n \in Sizes : FlatFills(n)
       \/ OpStart \/ OpStep
    /\ UNCHANGED env

Spec == Init /\ [][Next]_vars

\* The entry and its stop go through, the square-off time comes, the event loop
\* runs every continuation, and the broker executes a market order.
LiveSpec ==
    /\ Spec
    /\ \A j \in Jobs :
          /\ WF_vars(j \in env.jobs /\ (CheckEntry(j) \/ Entered(j) \/ PlaceStop(j)) /\ UNCHANGED env)
          /\ WF_vars(j \in env.jobs /\ AsoStep(j) /\ UNCHANGED env)
          /\ WF_vars(ExitFills(j) /\ UNCHANGED env)
    /\ WF_vars(OpStep /\ UNCHANGED env)
    /\ WF_vars((\E n \in Sizes : FlatFills(n)) /\ UNCHANGED env)

-----------------------------------------------------------------------------
(***************************************************************************)
(* Properties                                                              *)
(***************************************************************************)

\* Past a refusal under the intent key of job j, auto square-off and the watcher
\* have each sent an order the other does not find.
TwoSenders(j) == \A a \in Senders : again[j][a] # "none"

\* The same for the operator's flatten: two rows, each past the refusal.
FlatTwice == \E n \in Sizes : resent[n].sent > 1

\* Stop, loss watcher and auto square-off together never close more than the
\* job holds: whichever of them comes first, the others find the stop done,
\* the net flat or their common intent key in use.  Known failure, excepted
\* here: TwoSenders.
OwnQuantity == \A j \in Jobs : Held(j) <= 0 \/ TwoSenders(j)

\* No exit, the operator's included, turns the short position round, but for the
\* same known failure.
NotTurnedRound == net <= 0 \/ FlatTwice \/ \E j \in Jobs : TwoSenders(j)

\* A job that an exit has closed has no stop left at the broker that could
\* open a new position.
NoStopLeft ==
    \A j \in Jobs : "done" \in {exit[j], again[j]["aso"], again[j]["watch"]}
                      => job[j].stop # "pending"

\* The exits of a job cancel the stop of that job and of no other.
OwnStopsOnly ==
    [][\A k \in Jobs : job[k].stop = "pending" /\ job'[k].stop = "cancelled" =>
          \/ "cancel" \in {aso[k], watch[k]}
          \/ op.pc = "cancel"]_vars

\* A kill whose orders are executed and were not refused has closed everything
\* that was booked when it began, its jobs are aborted and the desk is halted: no
\* entry that asks afterwards gets through.
KillHolds ==
    /\ env.kill /\ op.pc = "idle" /\ op.left = 0 /\ refusals = 0
    /\ \A n \in Sizes : ~Working(n)
    => /\ halted
       /\ \A j \in env.jobs : job[j].aborted
       /\ -net <= Cardinality({j \in env.jobs : In(j) /\ j \notin op.had})

\* Auto square-off has given the exit of job j up: the refusals were of a kind
\* it does not send again, or it had all its attempts refused.
GaveUp(j) == aso[j] = "refused" /\ (env.fatal \/ refusals >= RetryAttempts)

\* With auto square-off on, the position is closed for good in the end, through
\* refused exit orders too as long as the ensurer has attempts left for them.
FlatByEnd == <>[](env.aso => \/ net = 0
                            \/ \E j \in Jobs : GaveUp(j) \/ TwoSenders(j))

=============================================================================
