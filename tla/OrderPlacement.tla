--------------------------- MODULE OrderPlacement ---------------------------
(***************************************************************************)
(* How an order leaves the desk: placeOrder of lib/kiteUtils with          *)
(* recordOrderIntent and markOrderSubmitted of lib/trading/ledger,         *)
(* decideBrokerPlace and matchingBrokerOrderId of lib/trading/brokerPlace  *)
(* and the duplicate check of lib/trading/riskGate.                        *)
(*                                                                         *)
(* Callers (a queue worker, a watcher, a square-off with its retry loop)   *)
(* run inside one Node process.  Every await is a place where another      *)
(* caller, the broker or the ledger sync may run, so placeOrder is split   *)
(* at each of them.  Two keys with the same Attrs differ only in what      *)
(* matchingBrokerOrderId does not compare: prices, slice and purpose.      *)
(* Paper execution never reaches the broker and is left out, and so are    *)
(* the refusals of the risk engine that do not depend on the order rows: a *)
(* call they stop changes nothing.                                         *)
(***************************************************************************)
EXTENDS OrderStates, Sequences, FiniteSets

CONSTANTS
    Callers,        \* concurrent invocations of placeOrder
    Keys,           \* intent keys (orderIntentKey) in use
    Attrs,          \* tag, symbol, side, quantity, product, exchange and type
    AttrOf,         \* the attributes of each key
    EntryKeys,      \* keys whose order role is ENTRY
    Settings,       \* the surroundings looked at, see Setting
    MaxAttempts,    \* bound: placeOrder calls per caller
    MaxReqs,        \* bound: requests sent to the broker
    MaxCrashes      \* bound: process restarts

\* keyOf: the key each caller places; slow: a book read may miss a request that
\* is still under way; refusals: the broker may refuse a request (a clear
\* reject); sync: reconcile or the terminal sync reads the book meanwhile;
\* window: a row may get older than BROKER_ACK_UNKNOWN_MS; dbErrors: a database
\* call of the ledger may fail; misread: a lost answer may come as an error that
\* isAmbiguousBrokerError does not know.
Setting == [keyOf: [Callers -> Keys], slow: BOOLEAN, refusals: BOOLEAN,
            sync: BOOLEAN, window: BOOLEAN, dbErrors: BOOLEAN, misread: BOOLEAN]

ASSUME PlacementAssumption ==
    /\ AttrOf \in [Keys -> Attrs]
    /\ EntryKeys \subseteq Keys
    /\ Settings \subseteq Setting
    /\ {MaxAttempts, MaxReqs, MaxCrashes} \subseteq Nat

VARIABLES
    rows,     \* the orders table, one record per row; the row id is the index
    reqs,     \* requests sent to the broker; the index is the broker order id
    caller,   \* what each placeOrder call holds across its awaits
    sync,     \* what the ledger sync holds across its awaits
    crashes,
    env       \* the setting of this behaviour; it never changes

tables == <<rows, reqs, caller, sync, crashes>>
vars == <<rows, reqs, caller, sync, crashes, env>>

RowIds == DOMAIN rows
ReqIds == DOMAIN reqs

\* fate: on the wire, lost, refused, or the status the broker book shows.
BookStatus == {"OPEN", "COMPLETE", "REJECTED", "CANCELLED"}
Fates == {"wire", "dropped", "refused"} \cup BookStatus

\* 0 stands for a null broker order id, row or request.  The idempotency key
\* is the intent key, that key with a random suffix, or broker:<of>.
Row == [kind: {"intent", "retry", "broker"}, key: Keys, of: Nat,
        status: OrderStatus,
        bid: Nat,                             \* broker_order_id
        aged: BOOLEAN]                        \* older than BROKER_ACK_UNKNOWN_MS

\* misread is history: the answer was lost and its error taken for a reject.
Req == [row: Nat, fate: Fates, misread: BOOLEAN]

PCs == {"idle", "select", "insert", "lookup", "call", "calling",
        "markRead", "markWrite", "ok", "thrown", "rejected"}

\* mark, id: what markOrderSubmitted is asked to write; inTry: its error is
\* caught by placeOrder; cur, curBid: the row as its SELECT returned it.
Local == [pc: PCs, attempts: Nat, row: Nat, aged: BOOLEAN, req: Nat,
          mark: OrderStatus, id: Nat, inTry: BOOLEAN,
          cur: OrderStatus, curBid: Nat]

Sync == [pc: {"idle", "create", "write"}, id: Nat, row: Nat, from: OrderStatus,
         next: OrderStatus]

\* The tables and what each activity holds across an await stay well formed.
TypeOK ==
    /\ rows \in Seq(Row)
    /\ reqs \in Seq(Req)
    /\ caller \in [Callers -> Local]
    /\ sync \in Sync
    /\ crashes \in Nat
    /\ env \in Settings

IdleCaller(attempts) ==
    [pc |-> "idle", attempts |-> attempts, row |-> 0, aged |-> FALSE, req |-> 0,
     mark |-> "UNKNOWN", id |-> 0, inTry |-> FALSE, cur |-> "PENDING",
     curBid |-> 0]

\* A call that is over keeps its outcome and, when it succeeded, the order id.
Ended(c, pc, id) == [IdleCaller(caller[c].attempts) EXCEPT !.pc = pc, !.id = id]

Becomes(c, local) == caller' = [caller EXCEPT ![c] = local]

IdleSync == [pc |-> "idle", id |-> 0, row |-> 0, from |-> "PENDING",
             next |-> "PENDING"]

Init ==
    /\ rows = <<>>
    /\ reqs = <<>>
    /\ caller = [c \in Callers |-> IdleCaller(0)]
    /\ sync = IdleSync
    /\ crashes = 0
    /\ env \in Settings

-----------------------------------------------------------------------------
(***************************************************************************)
(* Reading the ledger and the broker book                                  *)
(***************************************************************************)
IntentRows(k) == {r \in RowIds : rows[r].kind = "intent" /\ rows[r].key = k}

NewRow(kind, k, of) ==
    [kind |-> kind, key |-> k, of |-> of, status |-> "PENDING", bid |-> 0,
     aged |-> FALSE]

\* The unique index orders_broker_order_id_uidx would reject this write.
TakenByOther(r, id) == id # 0 /\ \E q \in RowIds \ {r} : rows[q].bid = id

\* The intent key request n was sent for.
ReqKey(n) == rows[reqs[n].row].key

\* Mutant: the attributes are not compared.
AnyMatches(k) == {n \in ReqIds : reqs[n].fate \in BookStatus}

\* matchingBrokerOrderId: any order of the book with these attributes, whatever
\* its price and its status.  The broker does not promise an order of the list.
BookMatches(k) ==
    {n \in ReqIds : reqs[n].fate \in BookStatus /\ AttrOf[ReqKey(n)] = AttrOf[k]}

\* The duplicate query of assertOrderAllowed.
pendingDuplicate(k) ==
    \E r \in RowIds : /\ AttrOf[rows[r].key] = AttrOf[k]
                      /\ rows[r].status \in DUPLICATE_STATUSES

\* Mutant: a saved row without an id is placed at once.
DecideWithoutLookup(created, row) ==
    IF ~created /\ row.bid # 0 THEN "reuse" ELSE "place"

\* Mutant: the age is looked at before the stored id.
DecideAgeFirst(created, row) ==
    IF created \/ row.status \in RETRY_TERMINAL \/ row.aged THEN "place"
    ELSE IF row.bid # 0 THEN "reuse"
    ELSE "lookup"

\* decideBrokerPlace on a saved row, before the book is read.
FirstDecision(created, row) ==
    IF created \/ row.status \in RETRY_TERMINAL THEN "place"
    ELSE IF row.bid # 0 THEN "reuse"
    ELSE "lookup"

\* The continuation of recordOrderIntent: no await before the decision acts.
Proceed(c, r, created, row) ==
    CASE FirstDecision(created, row) = "reuse" ->
            Becomes(c, Ended(c, "ok", row.bid))
      [] FirstDecision(created, row) = "place" ->
            Becomes(c, [caller[c] EXCEPT !.pc = "call", !.row = r])
      [] OTHER ->
            Becomes(c, [caller[c] EXCEPT !.pc = "lookup", !.row = r,
                                     !.aged = row.aged])

-----------------------------------------------------------------------------
(***************************************************************************)
(* placeOrder                                                              *)
(***************************************************************************)

\* assertOrderAllowed: an ENTRY with an equivalent working row is refused.
RiskCheck(c) ==
    /\ caller[c].pc = "idle"
    /\ caller[c].attempts < MaxAttempts
    /\ Becomes(c, [caller[c] EXCEPT
           !.attempts = @ + 1,
           !.pc = IF env.keyOf[c] \in EntryKeys /\ pendingDuplicate(env.keyOf[c])
                     THEN "rejected" ELSE "select"])
    /\ UNCHANGED <<rows, reqs, sync, crashes>>

\* recordOrderIntent, the SELECT: a finished row opens a random new key, which
\* no other call can hold; any other row is the saved intent.
IntentSelect(c) ==
    /\ caller[c].pc = "select"
    /\ \/ /\ IntentRows(env.keyOf[c]) = {}
          /\ Becomes(c, [caller[c] EXCEPT !.pc = "insert"])
          /\ UNCHANGED rows
       \/ \E r \in IntentRows(env.keyOf[c]) :
             IF rows[r].status \in RETRY_TERMINAL
             THEN LET row == NewRow("retry", env.keyOf[c], 0) IN
                  /\ rows' = Append(rows, row)
                  /\ Proceed(c, Len(rows) + 1, TRUE, row)
             ELSE /\ Proceed(c, r, FALSE, rows[r])
                  /\ UNCHANGED rows
    /\ UNCHANGED <<reqs, sync, crashes>>

\* recordOrderIntent, INSERT ... ON CONFLICT DO NOTHING: the loser of a race
\* reads the winner's row.
IntentInsert(c) ==
    /\ caller[c].pc = "insert"
    /\ \/ /\ IntentRows(env.keyOf[c]) = {}
          /\ LET row == NewRow("intent", env.keyOf[c], 0) IN
             /\ rows' = Append(rows, row)
             /\ Proceed(c, Len(rows) + 1, TRUE, row)
       \/ \E r \in IntentRows(env.keyOf[c]) :
             /\ Proceed(c, r, FALSE, rows[r])
             /\ UNCHANGED rows
    /\ UNCHANGED <<reqs, sync, crashes>>

\* kite.getOrders answers and decideBrokerPlace runs again with the match.
\* Unless the broker is slow, the book shows every request that will ever land.
Lookup(c) ==
    /\ caller[c].pc = "lookup"
    /\ env.slow \/ \A n \in ReqIds : reqs[n].fate # "wire"
    /\ \/ \E n \in BookMatches(env.keyOf[c]) :
             Becomes(c, [caller[c] EXCEPT
                 !.pc = "markRead", !.mark = "SUBMITTED",
                 !.id = n, !.inTry = FALSE])
       \/ /\ BookMatches(env.keyOf[c]) = {}
          /\ Becomes(c, IF caller[c].aged THEN [caller[c] EXCEPT !.pc = "call"]
                                          ELSE Ended(c, "thrown", 0))
    /\ UNCHANGED <<rows, reqs, sync, crashes>>

\* The book is unavailable: OrderAckUnknownError.
LookupFails(c) ==
    /\ caller[c].pc = "lookup"
    /\ Becomes(c, Ended(c, "thrown", 0))
    /\ UNCHANGED <<rows, reqs, sync, crashes>>

\* kite.placeOrder leaves the process.
CallBroker(c) ==
    /\ caller[c].pc = "call"
    /\ Len(reqs) < MaxReqs
    /\ reqs' = Append(reqs, [row |-> caller[c].row, fate |-> "wire",
                             misread |-> FALSE])
    /\ Becomes(c, [caller[c] EXCEPT !.pc = "calling", !.req = Len(reqs) + 1])
    /\ UNCHANGED <<rows, sync, crashes>>

\* The answer carries an order id (the SDK never answers without one).
AckArrives(c) ==
    /\ caller[c].pc = "calling"
    /\ reqs[caller[c].req].fate \in BookStatus
    /\ Becomes(c, [caller[c] EXCEPT
           !.pc = "markRead", !.mark = "SUBMITTED",
           !.id = caller[c].req, !.req = 0, !.inTry = TRUE])
    /\ UNCHANGED <<rows, reqs, sync, crashes>>

\* A clear reject: not an ambiguous error, the catch block marks FAILED.
RefusalArrives(c) ==
    /\ caller[c].pc = "calling"
    /\ reqs[caller[c].req].fate = "refused"
    /\ Becomes(c, [caller[c] EXCEPT
           !.pc = "markRead", !.mark = "FAILED", !.req = 0,
           !.inTry = FALSE])
    /\ UNCHANGED <<rows, reqs, sync, crashes>>

\* The answer is lost with a NetworkException, a socket code or a message that
\* isAmbiguousBrokerError knows: the catch block marks UNKNOWN.  The request may
\* have landed, have been lost, or still be under way.
AckLost(c) ==
    /\ caller[c].pc = "calling"
    /\ Becomes(c, [caller[c] EXCEPT
           !.pc = "markRead", !.mark = "UNKNOWN", !.req = 0,
           !.inTry = FALSE])
    /\ UNCHANGED <<rows, reqs, sync, crashes>>

\* The answer is lost with any other error (a General- or DataException, an
\* unknown shape): isAmbiguousBrokerError says no, the catch block marks FAILED.
AckMisread(c) ==
    /\ env.misread
    /\ caller[c].pc = "calling"
    /\ reqs' = [reqs EXCEPT ![caller[c].req] =
                    [reqs[caller[c].req] EXCEPT !.misread = TRUE]]
    /\ Becomes(c, [caller[c] EXCEPT
           !.pc = "markRead", !.mark = "FAILED", !.req = 0,
           !.inTry = FALSE])
    /\ UNCHANGED <<rows, sync, crashes>>

\* markOrderSubmitted, the SELECT.
MarkRead(c) ==
    /\ caller[c].pc = "markRead"
    /\ Becomes(c, [caller[c] EXCEPT
           !.pc = "markWrite",
           !.cur = rows[caller[c].row].status,
           !.curBid = rows[caller[c].row].bid])
    /\ UNCHANGED <<rows, reqs, sync, crashes>>

\* An error of markOrderSubmitted: the catch block of placeOrder turns it into
\* one more mark, outside the try block it leaves placeOrder.
MarkError(c, mark) ==
    Becomes(c, IF caller[c].inTry
               THEN [caller[c] EXCEPT !.pc = "markRead", !.mark = mark,
                                      !.id = 0, !.inTry = FALSE]
               ELSE Ended(c, "thrown", 0))

\* The value of broker_order_id that the UPDATE sets.
MarkBid(c) == IF caller[c].id # 0 THEN caller[c].id ELSE caller[c].curBid

MarkUpdate(c) ==
    /\ TransitionPasses(caller[c].cur, caller[c].mark)
    /\ ~TakenByOther(caller[c].row, MarkBid(c))
    /\ rows' = [rows EXCEPT ![caller[c].row] =
                    [rows[caller[c].row] EXCEPT !.status = caller[c].mark,
                                                !.bid = MarkBid(c)]]

\* Mutant: placeOrder does not rethrow after the mark.
MarkWriteSwallows(c) ==
    /\ caller[c].pc = "markWrite"
    /\ MarkUpdate(c)
    /\ Becomes(c, Ended(c, "ok", caller[c].id))
    /\ UNCHANGED <<reqs, sync, crashes>>

\* markOrderSubmitted, the UPDATE.  An illegal transition returns without
\* writing; a broker id held by another row is a database error that is not
\* ambiguous, so the catch block marks FAILED.
MarkWrite(c) ==
    /\ caller[c].pc = "markWrite"
    /\ \/ /\ \/ MarkUpdate(c)
             \/ ~TransitionPasses(caller[c].cur, caller[c].mark) /\ UNCHANGED rows
          /\ Becomes(c, IF caller[c].mark = "SUBMITTED"
                        THEN Ended(c, "ok", caller[c].id)
                        ELSE Ended(c, "thrown", 0))
       \/ /\ TransitionPasses(caller[c].cur, caller[c].mark)
          /\ TakenByOther(caller[c].row, MarkBid(c))
          /\ MarkError(c, "FAILED")
          /\ UNCHANGED rows
    /\ UNCHANGED <<reqs, sync, crashes>>

\* A database call fails.  recordOrderIntent then returns null and placeOrder
\* throws, even if the failing call is the event that follows the INSERT;
\* markOrderSubmitted throws, before its UPDATE or (appendOrderEvent) after it.
\* isAmbiguousBrokerError decides on the message of the database driver.
DbFails(c) ==
    /\ env.dbErrors
    /\ \/ /\ caller[c].pc \in {"select", "insert"}
          /\ \/ UNCHANGED rows
             \/ /\ caller[c].pc = "insert" /\ IntentRows(env.keyOf[c]) = {}
                /\ rows' = Append(rows, NewRow("intent", env.keyOf[c], 0))
             \/ /\ caller[c].pc = "select"
                /\ \E r \in IntentRows(env.keyOf[c]) : rows[r].status \in RETRY_TERMINAL
                /\ rows' = Append(rows, NewRow("retry", env.keyOf[c], 0))
          /\ Becomes(c, Ended(c, "thrown", 0))
       \/ /\ caller[c].pc \in {"markRead", "markWrite"}
          /\ \/ UNCHANGED rows
             \/ caller[c].pc = "markWrite" /\ MarkUpdate(c)
          /\ \E mark \in {"FAILED", "UNKNOWN"} : MarkError(c, mark)
    /\ UNCHANGED <<reqs, sync, crashes>>

\* withRemoteRetry, a queue retry or a new click after an error.
Retry(c) ==
    /\ caller[c].pc \in {"thrown", "rejected"}
    /\ caller[c].attempts < MaxAttempts
    /\ Becomes(c, IdleCaller(caller[c].attempts))
    /\ UNCHANGED <<rows, reqs, sync, crashes>>

-----------------------------------------------------------------------------
(***************************************************************************)
(* The broker, the clock and the process                                   *)
(***************************************************************************)
SetFate(n, fate) == reqs' = [reqs EXCEPT ![n] = [reqs[n] EXCEPT !.fate = fate]]

BrokerLands(n) ==
    /\ reqs[n].fate = "wire"
    /\ SetFate(n, "OPEN")
    /\ UNCHANGED <<rows, caller, sync, crashes>>

BrokerLoses(n) ==
    /\ reqs[n].fate = "wire"
    /\ SetFate(n, "dropped")
    /\ UNCHANGED <<rows, caller, sync, crashes>>

BrokerRefuses(n) ==
    /\ env.refusals
    /\ reqs[n].fate = "wire"
    /\ SetFate(n, "refused")
    /\ UNCHANGED <<rows, caller, sync, crashes>>

BrokerEnds(n) ==
    /\ reqs[n].fate = "OPEN"
    /\ \E fate \in {"COMPLETE", "REJECTED", "CANCELLED"} : SetFate(n, fate)
    /\ UNCHANGED <<rows, caller, sync, crashes>>

\* A call that holds row r between its decision and its last write.
Busy(r) ==
    \E c \in Callers : /\ caller[c].row = r
                       /\ caller[c].pc \in {"call", "calling", "markRead", "markWrite"}

\* Environment: a request is settled, and the call that sent it has ended,
\* before its row is older than BROKER_ACK_UNKNOWN_MS.
WindowCloses(r) ==
    /\ env.window
    /\ ~rows[r].aged
    /\ ~Busy(r)
    /\ \A n \in ReqIds : reqs[n].row = r => reqs[n].fate # "wire"
    /\ rows' = [rows EXCEPT ![r] = [rows[r] EXCEPT !.aged = TRUE]]
    /\ UNCHANGED <<reqs, caller, sync, crashes>>

\* Restart: every call and the sync are gone; a job runs its call again.
Crash ==
    /\ crashes < MaxCrashes
    /\ crashes' = crashes + 1
    /\ caller' = [c \in Callers |-> IdleCaller(caller[c].attempts)]
    /\ sync' = IdleSync
    /\ UNCHANGED <<rows, reqs>>

-----------------------------------------------------------------------------
(***************************************************************************)
(* applyBrokerOrderSnapshot as reconcile and syncTerminalKiteOrders run it *)
(* (fills are Ledger's subject; here only what it does to order rows)      *)
(***************************************************************************)
BrokerRows(id) == {r \in RowIds : rows[r].bid = id}

\* Mutant: orders without a ledger row are skipped.
SyncReadKnown(n) ==
    /\ env.sync
    /\ sync.pc = "idle"
    /\ reqs[n].fate \in BookStatus
    /\ LET next == mapKiteOrderStatus(reqs[n].fate, 0, 1) IN
       \E r \in BrokerRows(n) :
          /\ rows[r].status # next
          /\ sync' = [pc |-> "write", id |-> n, row |-> r,
                      from |-> rows[r].status, next |-> next]
    /\ UNCHANGED <<rows, reqs, caller, crashes>>

\* A snapshot of order n is taken and the row is looked up by its broker id.
SyncRead(n) ==
    /\ env.sync
    /\ sync.pc = "idle"
    /\ reqs[n].fate \in BookStatus
    /\ LET filled == IF reqs[n].fate = "COMPLETE" THEN 1 ELSE 0
           next   == mapKiteOrderStatus(reqs[n].fate, filled, 1)
       IN \/ \E r \in BrokerRows(n) :
                /\ rows[r].status # next
                /\ sync' = [pc |-> "write", id |-> n, row |-> r,
                            from |-> rows[r].status, next |-> next]
          \/ /\ BrokerRows(n) = {}
             /\ sync' = [IdleSync EXCEPT !.pc = "create", !.id = n, !.next = next]
    /\ UNCHANGED <<rows, reqs, caller, crashes>>

\* No row carried the id: recordOrderIntent under the key broker:<id>, which
\* finds the row a crashed sync may have left.
SyncCreate ==
    /\ sync.pc = "create"
    /\ LET left == {r \in RowIds : rows[r].kind = "broker" /\ rows[r].of = sync.id} IN
       \/ /\ left = {}
          /\ rows' = Append(rows, NewRow("broker", ReqKey(sync.id), sync.id))
          /\ sync' = [sync EXCEPT !.pc = "write", !.row = Len(rows) + 1,
                                  !.from = "PENDING"]
       \/ \E r \in left :
             /\ sync' = [sync EXCEPT !.pc = "write", !.row = r,
                                     !.from = rows[r].status]
             /\ UNCHANGED rows
    /\ UNCHANGED <<reqs, caller, crashes>>

\* The final UPDATE.  An illegal transition is logged and written all the same;
\* a broker id held by another row is an error that ends the sync.
SyncWrite ==
    /\ sync.pc = "write"
    /\ LET to == commitBrokerFillProgress(0, 0, TRUE, sync.from, sync.next).status IN
       IF TakenByOther(sync.row, sync.id)
       THEN UNCHANGED rows
       ELSE rows' = [rows EXCEPT ![sync.row] =
                [rows[sync.row] EXCEPT
                    !.bid = sync.id,
                    !.status = IF sync.from = to THEN rows[sync.row].status ELSE to]]
    /\ sync' = IdleSync
    /\ UNCHANGED <<reqs, caller, crashes>>

-----------------------------------------------------------------------------
CallerStep(c) ==
    \/ RiskCheck(c) \/ IntentSelect(c) \/ IntentInsert(c)
    \/ Lookup(c) \/ LookupFails(c) \/ CallBroker(c)
    \/ AckArrives(c) \/ RefusalArrives(c) \/ AckLost(c) \/ AckMisread(c)
    \/ MarkRead(c) \/ MarkWrite(c) \/ DbFails(c) \/ Retry(c)

BrokerStep(n) ==
    BrokerLands(n) \/ BrokerLoses(n) \/ BrokerRefuses(n) \/ BrokerEnds(n)

SyncStep == (\E n \in ReqIds : SyncRead(n)) \/ SyncCreate \/ SyncWrite

Next ==
    /\ \/ \E c \in Callers : CallerStep(c)
       \/ \E n \in ReqIds : BrokerStep(n)
       \/ \E r \in RowIds : WindowCloses(r)
       \/ SyncStep
       \/ Crash
    /\ UNCHANGED env

Spec == Init /\ [][Next]_vars

\* Reconcile loops over the whole book and runs again every day and on every
\* operator request: an order that stays in the book is read, and a pass that
\* has begun goes on unless the process dies.
LiveSpec ==
    /\ Spec
    /\ WF_tables(SyncCreate)
    /\ WF_tables(SyncWrite)
    /\ \A n \in 1..MaxReqs : SF_tables(n \in ReqIds /\ SyncRead(n))

-----------------------------------------------------------------------------
(***************************************************************************)
(* Properties                                                              *)
(***************************************************************************)

\* Requests that are or may still become a working or executed order.
Live(n) == reqs[n].fate \in {"wire", "OPEN", "COMPLETE"}

\* What decideBrokerPlace rests on: a book read past the window shows every order
\* that landed, and no row of the intent was marked FAILED before, by a refusal or
\* by a lost answer taken for one.
BookDecides == ~env.refusals /\ ~env.misread /\ ~(env.slow /\ env.window)

\* One intent never has two live orders at the broker, whatever the callers,
\* restarts and lost acknowledgements do: the promise of decideBrokerPlace.
OneLiveOrder ==
    BookDecides => \A m, n \in ReqIds : Live(m) /\ Live(n) /\ ReqKey(m) = ReqKey(n) => m = n

\* placeOrder opens a new key for a row marked FAILED.  Misread answers are the
\* only way such a row can hide a live request: every other request sent for it,
\* whatever was lost, refused or placed again on the row, has come to nothing.
\* With database errors or the ledger sync the code does mark live orders FAILED.
FailedIsReject ==
    ~env.sync /\ ~env.dbErrors =>
        \A n \in ReqIds :
            rows[reqs[n].row].status = "FAILED" => ~Live(n) \/ reqs[n].misread

\* A ledger row carries the id of an order that was sent for its own intent:
\* fills of that order are booked on this row.
OwnOrder ==
    \A r \in RowIds : rows[r].bid # 0 => ReqKey(rows[r].bid) = rows[r].key

\* A caller told that the order is placed was told an order of the broker's
\* book with the attributes it asked for.
OkIsInBook ==
    \A c \in Callers : caller[c].pc = "ok" =>
        /\ caller[c].id \in ReqIds
        /\ reqs[caller[c].id].fate \in BookStatus
        /\ AttrOf[ReqKey(caller[c].id)] = AttrOf[env.keyOf[c]]

OneCallerPerIntent ==
    \A c, d \in Callers : env.keyOf[c] = env.keyOf[d] => c = d

\* A row that one caller at a time places never forgets the order it knows or
\* moves on to another one: the exits of its job watch that order.
KeepsOrder ==
    [][OneCallerPerIntent => \A r \in RowIds : rows[r].bid # 0 => rows'[r].bid = rows[r].bid]_vars

\* Where reconcile runs, every order that reaches the book ends up, and stays,
\* under the id of some ledger row, whatever was lost on the way to the
\* acknowledgement.
LandedIsTracked ==
    \A n \in 1..MaxReqs :
        (env.sync /\ n \in ReqIds /\ reqs[n].fate \in BookStatus)
            ~> [](\E r \in RowIds : rows[r].bid = n)

=============================================================================
