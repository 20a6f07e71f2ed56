------------------------------ MODULE LegGroup ------------------------------
(***************************************************************************)
(* One entry job of an option strategy: the order part of atmStraddle and  *)
(* strangle, remoteOrderSuccessEnsurer of lib/kiteUtils, orderStateChecker *)
(* and attemptBrokerOrders of lib/utils, and the retries of the trading    *)
(* queue.                                                                  *)
(*                                                                         *)
(* A leg larger than the freeze quantity is sent as several orders         *)
(* (slices); every order has an ensurer of its own, and they run side by   *)
(* side.  The orders are ENTRY orders of one tag, so placeOrder is what    *)
(* OrderPlacement shows for an EntryKey with one caller: a working row is  *)
(* refused as a duplicate, a FILLED row is reused, a finished row opens a  *)
(* new random key.  Left out: paper execution, partial fills of a MARKET   *)
(* order, database errors and answers taken for a reject by mistake        *)
(* (OrderPlacement has both), and the choice of the strikes, which is the  *)
(* same on every attempt here.                                             *)
(***************************************************************************)
EXTENDS OrderStates, Sequences, FiniteSets

CONSTANTS
    Legs,            \* the legs of the structure
    Orders,          \* the orders they are sent as
    LegOf,           \* the leg each order belongs to
    Hedges,          \* the legs bought first; the others are the primaries
    Attrs,           \* symbol, side and quantity
    AttrOf,          \* what the duplicate check and the book match compare
    RetryAttempts,   \* retryAttempts of remoteOrderSuccessEnsurer (3)
    Settings         \* the surroundings looked at, see Setting

\* jobTries: attempts of the queue job (3); restarts: bound on process restarts;
\* refusals: the broker may refuse or reject an order; others: with a type the
\* ensurer has no branch for (margin, holding, token, general); gate: the risk
\* gate may refuse for a reason that is not in the rows of this job; lost: an
\* answer, the book or the final state may stay away until the code gives up;
\* sync: reconcile runs meanwhile; user: the operator may abort the job;
\* rollback: the rollback flags of the job.
Setting == [orders: SUBSET Orders, jobTries: Nat, restarts: Nat,
            refusals: BOOLEAN, others: BOOLEAN, gate: BOOLEAN, lost: BOOLEAN,
            sync: BOOLEAN, user: BOOLEAN, rollback: BOOLEAN]

ASSUME LegAssumption ==
    /\ LegOf \in [Orders -> Legs]
    /\ AttrOf \in [Orders -> Attrs]
    /\ Hedges \subseteq Legs
    /\ RetryAttempts \in Nat \ {0}
    /\ Settings \subseteq Setting

VARIABLES
    job,       \* the queue job: its phase and the attempts made
    ens,       \* the ensurer of each order
    tries,     \* per order, its ledger rows with the request sent for each
    squared,   \* requests that a rollback has squared off
    aborted,   \* userOverride of the job is ABORT
    crashes,
    env        \* the setting of this behaviour; it never changes

vars == <<job, ens, tries, squared, aborted, crashes, env>>

BookStatus == {"OPEN", "COMPLETE", "REJECTED", "CANCELLED"}
Fates == {"wire", "dropped", "refused"} \cup BookStatus

\* One row of the orders table and the one request placed for it.  The first
\* row of an order holds the intent key, the others that key with a suffix.
Try == [row: OrderStatus, id: BOOLEAN, fate: Fates]

JobPCs == {"queued", "hedges", "primaries", "rollback", "completed", "failed"}
EnsPCs == {"off", "outer", "check", "place", "calling", "match", "poll",
           "done", "unsure", "thrown", "outerThrown"}
Over == {"done", "unsure", "thrown", "outerThrown"}

\* The request <<order, index>> an ensurer waits for; NoReq when there is none.
NoReq == <<>>

Orders_ == env.orders
Slices(l) == {o \in Orders_ : LegOf[o] = l}
ActiveLegs == {l \in Legs : Slices(l) # {}}
Requests == UNION {{<<o, n>> : n \in DOMAIN tries[o]} : o \in Orders_}
At(r) == tries[r[1]][r[2]]
InBook(r) == At(r).fate \in BookStatus

\* The job, its ensurers and the rows stay well formed; an ensurer waits only
\* for a request that was sent.
TypeOK ==
    /\ job \in [pc: JobPCs, attempt: Nat]
    /\ ens \in [Orders -> [pc: EnsPCs, attempt: Nat, at: Requests \cup {NoReq}]]
    /\ tries \in [Orders -> Seq(Try)]
    /\ squared \subseteq Requests
    /\ aborted \in BOOLEAN
    /\ crashes \in Nat
    /\ env \in Settings

Off == [pc |-> "off", attempt |-> 0, at |-> NoReq]

Init ==
    /\ job = [pc |-> "queued", attempt |-> 0]
    /\ ens = [o \in Orders |-> Off]
    /\ tries = [o \in Orders |-> <<>>]
    /\ squared = {}
    /\ aborted = FALSE
    /\ crashes = 0
    /\ env \in Settings

Becomes(o, pc) == ens' = [ens EXCEPT ![o] = [ens[o] EXCEPT !.pc = pc]]
Ends(o, pc) == ens' = [ens EXCEPT ![o] = [ens[o] EXCEPT !.pc = pc, !.at = NoReq]]

\* attemptCount + 1: the recursive call of the ensurer.
Again(o) == ens' = [ens EXCEPT ![o] = [pc |-> "check", attempt |-> ens[o].attempt + 1,
                                       at |-> NoReq]]

SetTry(r, try) == tries' = [tries EXCEPT ![r[1]] = [tries[r[1]] EXCEPT ![r[2]] = try]]

-----------------------------------------------------------------------------
(***************************************************************************)
(* remoteOrderSuccessEnsurer                                               *)
(***************************************************************************)

\* The duplicate query of assertOrderAllowed: tag, symbol, side and quantity,
\* so two slices of one quantity are duplicates of each other.
pendingDuplicate(o) ==
    \E r \in Requests : /\ AttrOf[r[1]] = AttrOf[o]
                        /\ At(r).row \in DUPLICATE_STATUSES

\* The slices of a leg go on together.
Split(l, pc) ==
    ens' = [o \in Orders |-> IF o \in Slices(l) THEN [Off EXCEPT !.pc = pc] ELSE ens[o]]

\* The call for a whole leg above the freeze quantity: it reads ABORT and asks
\* the gate once, then splits into slices that run side by side.
OuterCheck(l) ==
    /\ Slices(l) # {} /\ \A o \in Slices(l) : ens[o].pc = "outer"
    /\ \/ (aborted \/ env.gate) /\ Split(l, "outerThrown")
       \/ ~aborted /\ Split(l, "check")
    /\ UNCHANGED <<job, tries, squared, aborted, crashes>>

\* The gate refuses for a duplicate or, where env.gate says so, for a limit, a
\* halt or a missing quote.
GateRefuses(o) == pendingDuplicate(o) \/ env.gate
GateAgrees(o) == ~pendingDuplicate(o)

\* Attempts left, ABORT not set, the gate agrees: all outside the try block.
Check(o) ==
    /\ ens[o].pc = "check"
    /\ \/ /\ ens[o].attempt >= RetryAttempts \/ aborted \/ GateRefuses(o)
          /\ Ends(o, "thrown")
       \/ /\ ens[o].attempt < RetryAttempts /\ ~aborted /\ GateAgrees(o)
          /\ Becomes(o, "place")
    /\ UNCHANGED <<job, tries, squared, aborted, crashes>>

NewTry == [row |-> "PENDING", id |-> FALSE, fate |-> "wire"]

\* A row is opened and the broker called.
SendNew(o) ==
    /\ tries' = [tries EXCEPT ![o] = Append(tries[o], NewTry)]
    /\ ens' = [ens EXCEPT ![o] = [ens[o] EXCEPT !.pc = "calling",
                                      !.at = <<o, Len(tries[o]) + 1>>]]

\* Mutant: a filled intent is not reused.
ReusesNever(o) == FALSE

\* The intent row is FILLED by now, holds the order id and is reused.
Reuses(o) == tries[o] # <<>> /\ tries[o][1].row \notin RETRY_TERMINAL

\* placeOrder: the gate asks again, now inside the try block, so that its
\* refusal ends without a result; then a missing or finished intent row opens a
\* new row, and any other is reused.
Place(o) ==
    /\ ens[o].pc = "place"
    /\ \/ /\ aborted \/ GateRefuses(o)
          /\ Ends(o, "unsure") /\ UNCHANGED tries
       \/ /\ ~aborted /\ GateAgrees(o) /\ Reuses(o)
          /\ ens' = [ens EXCEPT ![o] = [ens[o] EXCEPT !.pc = "poll", !.at = <<o, 1>>]]
          /\ UNCHANGED tries
       \/ ~aborted /\ GateAgrees(o) /\ ~Reuses(o) /\ SendNew(o)
    /\ UNCHANGED <<job, squared, aborted, crashes>>

\* kite.placeOrder answers with an order id: the row is SUBMITTED.
AckArrives(o) ==
    /\ ens[o].pc = "calling"
    /\ InBook(ens[o].at)
    /\ SetTry(ens[o].at, [At(ens[o].at) EXCEPT !.row = "SUBMITTED", !.id = TRUE])
    /\ Becomes(o, "poll")
    /\ UNCHANGED <<job, squared, aborted, crashes>>

\* A refusal marks FAILED.  OrderException reads the book, Input and Permission
\* are thrown, and any other type ends without a result and without a retry.
RefusalArrives(o) ==
    /\ ens[o].pc = "calling"
    /\ At(ens[o].at).fate = "refused"
    /\ SetTry(ens[o].at, [At(ens[o].at) EXCEPT !.row = "FAILED"])
    /\ Becomes(o, "match") \/ Ends(o, "thrown") \/ (env.others /\ Ends(o, "unsure"))
    /\ UNCHANGED <<job, squared, aborted, crashes>>

\* Mutant: a call whose request was lost never ends.
AckLostHangs(o) ==
    /\ env.lost
    /\ ens[o].pc = "calling"
    /\ InBook(ens[o].at)
    /\ SetTry(ens[o].at, [At(ens[o].at) EXCEPT !.row = "UNKNOWN"])
    /\ Ends(o, "unsure")
    /\ UNCHANGED <<job, squared, aborted, crashes>>

\* A transport error marks UNKNOWN: a NetworkException reads the book, any
\* other error ends without a result.
AckLost(o) ==
    /\ env.lost
    /\ ens[o].pc = "calling"
    /\ SetTry(ens[o].at, [At(ens[o].at) EXCEPT !.row = "UNKNOWN"])
    /\ Becomes(o, "match") \/ Ends(o, "unsure")
    /\ UNCHANGED <<job, squared, aborted, crashes>>

\* The first order of the book with these attributes, whatever its state; the
\* broker does not promise an order of the list.
BookMatches(o) == {r \in Requests : InBook(r) /\ AttrOf[r[1]] = AttrOf[o]}

\* A NetworkException or OrderException: a match is awaited, no match retries.
Match(o) ==
    /\ ens[o].pc = "match"
    /\ \/ \E r \in BookMatches(o) :
             ens' = [ens EXCEPT ![o] = [ens[o] EXCEPT !.pc = "poll", !.at = r]]
       \/ BookMatches(o) = {} /\ Again(o)
       \/ env.lost /\ Ends(o, "unsure")
    /\ UNCHANGED <<job, tries, squared, aborted, crashes>>

\* applyBrokerOrderSnapshot on a request whose row holds the order id; without
\* one the snapshot opens a row of its own and this row stays as it is.
Snapshot(r) ==
    LET next == mapKiteOrderStatus(At(r).fate, IF At(r).fate = "COMPLETE" THEN 1 ELSE 0, 1) IN
    IF At(r).id /\ TransitionPasses(At(r).row, next)
    THEN SetTry(r, [At(r) EXCEPT !.row = next]) ELSE UNCHANGED tries

\* orderStateChecker: COMPLETE is success, REJECTED or CANCELLED tries again.
\* While the broker does not know the order yet, the checker takes it for a
\* rejected one too.
Poll(o) ==
    /\ ens[o].pc = "poll"
    /\ \/ /\ At(ens[o].at).fate = "COMPLETE"
          /\ Snapshot(ens[o].at)
          /\ Becomes(o, "done")
       \/ /\ At(ens[o].at).fate \in {"REJECTED", "CANCELLED"}
          /\ Again(o)
          /\ UNCHANGED tries
       \/ /\ env.lost /\ At(ens[o].at).fate = "OPEN"
          /\ Again(o)
          /\ UNCHANGED tries
    /\ UNCHANGED <<job, squared, aborted, crashes>>

\* finiteStateChecker gives up after orderStatusCheckTimeout.
PollTimeout(o) ==
    /\ env.lost
    /\ ens[o].pc = "poll"
    /\ Ends(o, "unsure")
    /\ UNCHANGED <<job, tries, squared, aborted, crashes>>

-----------------------------------------------------------------------------
(***************************************************************************)
(* The entry job                                                           *)
(***************************************************************************)
LegDone(l) == \A o \in Slices(l) : ens[o].pc = "done"

\* attemptBrokerOrders, allOk: no leg was rejected.  A sliced leg collects its
\* slices with allSettled, so only the call before the split can reject it.
LegRejected(l) ==
    \E o \in Slices(l) : \/ ens[o].pc = "outerThrown"
                         \/ ens[o].pc = "thrown" /\ Cardinality(Slices(l)) = 1

allOk(legs) == \A l \in legs : ~LegRejected(l)

\* attemptBrokerOrders, statefulOrders: the orders of the successful legs.
statefulOrders(legs) ==
    {ens[o].at : o \in {p \in Orders_ : LegOf[p] \in legs /\ LegDone(LegOf[p])}}

\* The ensurers of these legs are started.
Start(legs) ==
    ens' = [o \in Orders |->
        IF o \in Orders_ /\ LegOf[o] \in legs
        THEN [Off EXCEPT !.pc = IF Cardinality(Slices(LegOf[o])) = 1
                                THEN "check" ELSE "outer"]
        ELSE ens[o]]

AllOver(legs) == \A o \in Orders_ : LegOf[o] \in legs => ens[o].pc \in Over

HedgeLegs == ActiveLegs \cap Hedges
PrimaryLegs == ActiveLegs \ Hedges

\* Mutant: the primaries are sent with the hedges.
BeginAll ==
    /\ job.pc = "queued"
    /\ job' = [job EXCEPT !.pc = "primaries", !.attempt = job.attempt + 1]
    /\ Start(ActiveLegs)
    /\ UNCHANGED <<tries, squared, aborted, crashes>>

\* BullMQ runs the job; the strategy sends the hedges first, if there are any.
Begin ==
    /\ job.pc = "queued"
    /\ job' = [job EXCEPT !.pc = IF HedgeLegs = {} THEN "primaries" ELSE "hedges",
                          !.attempt = job.attempt + 1]
    /\ Start(IF HedgeLegs = {} THEN PrimaryLegs ELSE HedgeLegs)
    /\ UNCHANGED <<tries, squared, aborted, crashes>>

HedgesOver ==
    /\ job.pc = "hedges"
    /\ AllOver(HedgeLegs)
    /\ IF ~allOk(HedgeLegs) /\ env.rollback
       THEN job' = [job EXCEPT !.pc = "rollback"] /\ UNCHANGED ens
       ELSE job' = [job EXCEPT !.pc = "primaries"] /\ Start(PrimaryLegs)
    /\ UNCHANGED <<tries, squared, aborted, crashes>>

\* Mutant: a broken primary leg does not stop the job.
PrimariesAlwaysOver ==
    /\ job.pc = "primaries"
    /\ AllOver(PrimaryLegs)
    /\ job' = [job EXCEPT !.pc = "completed"]
    /\ UNCHANGED <<ens, tries, squared, aborted, crashes>>

\* The strategy returns rawKiteOrdersResponse and squareOffOrders; arming the
\* exits and completing the job are in Jobs.
PrimariesOver ==
    /\ job.pc = "primaries"
    /\ AllOver(PrimaryLegs)
    /\ job' = [job EXCEPT !.pc = IF ~allOk(PrimaryLegs) /\ env.rollback
                                 THEN "rollback" ELSE "completed"]
    /\ UNCHANGED <<ens, tries, squared, aborted, crashes>>

\* Mutant: the rollback knows its instrument.
WithInstrument == TRUE

\* The rollback passes { orderTag } alone as the job data.
RollbackHasInstrument == FALSE

\* doSquareOffPositions: every order it is given goes through an ensurer, which
\* reads INSTRUMENT_DETAILS of the job's instrument before it places anything
\* and fails when there is none.
doSquareOffPositions(requests, hasInstrument) ==
    IF hasInstrument THEN requests ELSE {}

\* Whether doSquareOffPositions fails or the strategy throws after it, this
\* attempt of the job has failed, and BullMQ runs it again.
Fails == job' = [job EXCEPT !.pc = IF job.attempt < env.jobTries THEN "queued" ELSE "failed"]

Rollback ==
    /\ job.pc = "rollback"
    /\ squared' = squared \cup
          doSquareOffPositions(statefulOrders(ActiveLegs), RollbackHasInstrument)
    /\ Fails
    /\ ens' = [o \in Orders |-> Off]
    /\ UNCHANGED <<tries, aborted, crashes>>

-----------------------------------------------------------------------------
(***************************************************************************)
(* The broker, the ledger sync, the operator and the process               *)
(***************************************************************************)
SetFate(r, fate) ==
    /\ SetTry(r, [At(r) EXCEPT !.fate = fate])
    /\ UNCHANGED <<job, ens, squared, aborted, crashes>>

BrokerLands(r) == At(r).fate = "wire" /\ SetFate(r, "OPEN")

BrokerRefuses(r) == env.refusals /\ At(r).fate = "wire" /\ SetFate(r, "refused")

BrokerLoses(r) == env.lost /\ At(r).fate = "wire" /\ SetFate(r, "dropped")

BrokerFills(r) == At(r).fate = "OPEN" /\ SetFate(r, "COMPLETE")

BrokerRejects(r) ==
    /\ env.refusals
    /\ At(r).fate = "OPEN"
    /\ \E fate \in {"REJECTED", "CANCELLED"} : SetFate(r, fate)

\* Reconcile or the terminal sync applies the broker's state to a row.
Sync(r) ==
    /\ env.sync
    /\ InBook(r)
    /\ Snapshot(r)
    /\ UNCHANGED <<job, ens, squared, aborted, crashes>>

\* The operator stops the job.
Abort ==
    /\ env.user
    /\ ~aborted
    /\ job.pc \notin {"completed", "failed"}
    /\ aborted' = TRUE
    /\ UNCHANGED <<job, ens, tries, squared, crashes>>

\* A restart: the ensurers are gone and BullMQ hands the stalled job out again
\* without counting an attempt.
Crash ==
    /\ crashes < env.restarts
    /\ job.pc \in {"hedges", "primaries", "rollback"}
    /\ crashes' = crashes + 1
    /\ job' = [pc |-> "queued", attempt |-> job.attempt - 1]
    /\ ens' = [o \in Orders |-> Off]
    /\ UNCHANGED <<tries, squared, aborted>>

EnsurerStep(o) ==
    \/ Check(o) \/ Place(o) \/ AckArrives(o) \/ RefusalArrives(o) \/ AckLost(o)
    \/ Match(o) \/ Poll(o) \/ PollTimeout(o)

JobStep == Begin \/ HedgesOver \/ PrimariesOver \/ Rollback

BrokerStep(r) ==
    \/ BrokerLands(r) \/ BrokerRefuses(r) \/ BrokerLoses(r) \/ BrokerFills(r)
    \/ BrokerRejects(r)

Next ==
    /\ \/ JobStep
       \/ \E o \in Orders_ : EnsurerStep(o)
       \/ \E l \in Legs : OuterCheck(l)
       \/ \E r \in Requests : BrokerStep(r) \/ Sync(r)
       \/ Abort
       \/ Crash
    /\ UNCHANGED env

Spec == Init /\ [][Next]_vars

\* The event loop runs every continuation; an HTTP call is answered or fails,
\* and the broker brings an order to an end or the ensurer's timer fires.
Fairness ==
    /\ WF_vars(JobStep /\ UNCHANGED env)
    /\ \A o \in Orders : WF_vars(o \in Orders_ /\ EnsurerStep(o) /\ UNCHANGED env)
    /\ \A l \in Legs : WF_vars(OuterCheck(l) /\ UNCHANGED env)
    /\ WF_vars((\E r \in Requests : BrokerStep(r)) /\ UNCHANGED env)

LiveSpec == Spec /\ Fairness

-----------------------------------------------------------------------------
(***************************************************************************)
(* Properties                                                              *)
(***************************************************************************)
Alive(r) == At(r).fate \in {"wire", "OPEN", "COMPLETE"}

\* No order of a leg is at the broker twice: through refusals and the ensurer's
\* retries, lost answers, restarts and new attempts of the job, at most one of
\* its requests is under way, working or executed.
LegOnce ==
    \A o \in Orders_ :
        Cardinality({n \in DOMAIN tries[o] : Alive(<<o, n>>)}) <= 1

\* What a completed entry hands to its exits is held: every reported request
\* was executed, was not squared off by an earlier rollback, and stands for
\* one order only.
ReportedIsHeld ==
    job.pc = "completed" =>
        /\ \A r \in statefulOrders(ActiveLegs) :
              At(r).fate = "COMPLETE" /\ r \notin squared
        /\ \A o, p \in Orders_ :
              o # p /\ ens[o].pc = "done" /\ ens[p].pc = "done" => ens[o].at # ens[p].at

Unsliced(legs) == \A l \in legs : Cardinality(Slices(l)) = 1

\* No answer is lost and the gate does not change its mind between its two
\* questions: every ensurer learns what became of its order.
Answered == ~env.lost /\ ~env.gate

\* An order the ensurer drops without a rejection: the broker refused it, and
\* may have done so with a type the ensurer has no branch for.
Dropped(o) == env.others /\ \E n \in DOMAIN tries[o] : At(<<o, n>>).fate = "refused"

\* With every order answered, all legs below the freeze quantity and nobody
\* aborting, an entry that completes lacks no leg but one the broker refused
\* with a type the ensurer does not know: any other leg that broke, in this
\* attempt or in one before a restart, has stopped it.
CompletedIsWhole ==
    /\ job.pc = "completed" /\ env.rollback
    /\ Answered /\ Unsliced(ActiveLegs) /\ ~aborted
    => \A l \in ActiveLegs : LegDone(l) \/ \E o \in Slices(l) : Dropped(o)

\* With every order answered, no primary order leaves before every hedge is
\* bought, whatever attempt of the job bought it, but for a hedge the broker
\* refused with a type the ensurer does not know.
ShortIsHedged ==
    env.rollback /\ Answered /\ Unsliced(HedgeLegs) =>
        \A r \in Requests : LegOf[r[1]] \in PrimaryLegs =>
            \A o \in Orders_ : LegOf[o] \in HedgeLegs =>
                \/ \E n \in DOMAIN tries[o] : At(<<o, n>>).fate = "COMPLETE"
                \/ Dropped(o)

\* Every entry job comes to an end: no ensurer waits for ever.
EntryEnds == <>[](job.pc \in {"completed", "failed"})

\* The rollback of a broken entry squares off what was filled: an attempt that
\* ends in a rollback leaves none of its reported requests standing.
RollbackSquares ==
    [][job.pc = "rollback" /\ job'.pc # "rollback" /\ crashes' = crashes
          => statefulOrders(ActiveLegs) \subseteq squared']_vars

=============================================================================
