---------------------------- MODULE LedgerProofs ----------------------------
(***************************************************************************)
(* Theorems about Ledger, for every set of drivers and orders and every    *)
(* number of failures and restarts.                                        *)
(***************************************************************************)
EXTENDS Ledger, FiniteSetTheorems, TLAPS

-----------------------------------------------------------------------------
(***************************************************************************)
(* The conversions                                                         *)
(***************************************************************************)

\* Every broker status becomes a ledger status.
LEMMA MapType ==
    ASSUME NEW s \in KiteStatus, NEW f \in Nat, NEW q \in Nat
    PROVE  mapKiteOrderStatus(s, f, q) \in OrderStatus
  BY DEF mapKiteOrderStatus, OrderStatus, KiteStatus

\* What is written back is a status and a quantity.
LEMMA CommitType ==
    ASSUME NEW prev \in Nat, NEW kite \in Nat, NEW saved \in BOOLEAN,
           NEW from \in OrderStatus, NEW next \in OrderStatus
    PROVE  commitBrokerFillProgress(prev, kite, saved, from, next) \in
               [filledQty: Nat, status: OrderStatus]
  BY DEF commitBrokerFillProgress, OrderStatus

LEMMA IdleType == Idle \in Local
  BY LedgerAssumption DEF Idle, Local, Snapshot, OrderRow, KiteStatus, OrderStatus

-----------------------------------------------------------------------------
(***************************************************************************)
(* Type correctness                                                        *)
(***************************************************************************)

\* A driver that is about to save a fill has something new to save: without
\* it the quantity of a fill need not be a natural number.
PendingIsNew ==
    \A w \in Writers : writer[w].pc = "insert" =>
        writer[w].row.filledQty < writer[w].snap.filled /\ ~writer[w].saved

LEMMA TypeInit == Init => TypeOK /\ PendingIsNew
  <1> SUFFICES ASSUME Init PROVE TypeOK /\ PendingIsNew
    OBVIOUS
  <1>1. TypeOK
    BY IdleType DEF Init, TypeOK, OrderRow, KiteStatus, OrderStatus
  <1>2. PendingIsNew
    BY DEF Init, PendingIsNew, Idle
  <1> QED
    BY <1>1, <1>2

LEMMA BecomesAt ==
    ASSUME TypeOK, NEW w \in Writers, NEW local, Becomes(w, local), NEW v \in Writers
    PROVE  writer'[v] = IF v = w THEN local ELSE writer[v]
  BY DEF TypeOK, Becomes

LEMMA PendingStep == TypeOK /\ PendingIsNew /\ [Next]_vars => PendingIsNew'
  <1> SUFFICES ASSUME TypeOK, PendingIsNew, [Next]_vars,
                      NEW v \in Writers, writer'[v].pc = "insert"
               PROVE  /\ writer'[v].row.filledQty < writer'[v].snap.filled
                      /\ ~writer'[v].saved
    BY DEF PendingIsNew
  <1>1. CASE writer'[v] = writer[v]
    BY <1>1 DEF PendingIsNew
  <1>2. CASE SnapRead(v)
    <2> DEFINE row == orders[writer[v].order]
               pc == IF booksFill(writer[v].snap, row) THEN "insert" ELSE "write"
               saved == writer[v].snap.filled <= row.filledQty
    <2>0. writer[v] \in Local /\ row \in OrderRow
      BY DEF TypeOK, Local
    <2>1. writer'[v] = [writer[v] EXCEPT !.row = row, !.saved = saved, !.pc = pc]
      BY <1>2, BecomesAt DEF SnapRead
    <2>2. writer'[v].row = row /\ writer'[v].saved = saved /\ writer'[v].pc = pc
          /\ writer'[v].snap = writer[v].snap
      BY <2>0, <2>1 DEF Local
    <2>3. booksFill(writer[v].snap, row)
      BY <2>2
    <2>4. row.filledQty \in Nat /\ writer[v].snap.filled \in Nat
      BY <2>0 DEF Local, OrderRow, Snapshot
    <2> HIDE DEF row, pc, saved
    <2>5. writer'[v].row.filledQty < writer'[v].snap.filled
      BY <2>2, <2>3, <2>4 DEF booksFill
    <2>6. ~(writer[v].snap.filled <= row.filledQty)
      BY <2>2, <2>4, <2>5
    <2>7. ~writer'[v].saved
      BY <2>2, <2>6, Zenon DEF saved
    <2> QED
      BY <2>5, <2>7
  <1>3. ASSUME NEW w \in Writers, NEW o \in Orders, Fetch(w, o) \/ CloseRead(w, o),
               writer'[v] # writer[v]
        PROVE  FALSE
    <2>0. writer[w] \in Local
      BY DEF TypeOK
    <2>1. CASE Fetch(w, o)
      <3>1. writer'[v] = [writer[w] EXCEPT !.pc = "read", !.order = o,
                !.snap = [status |-> broker[o].status, filled |-> broker[o].filled]]
        BY <1>3, <2>1, BecomesAt DEF Fetch
      <3> QED
        BY <2>0, <3>1 DEF Local
    <2>2. CASE CloseRead(w, o)
      <3>1. writer'[v] = [writer[w] EXCEPT !.pc = "close", !.order = o, !.row = orders[o]]
        BY <1>3, <2>2, BecomesAt DEF CloseRead
      <3> QED
        BY <2>0, <3>1 DEF Local
    <2> QED
      BY <1>3, <2>1, <2>2
  <1>4. ASSUME NEW w \in Writers, SnapshotStep(w) \/ CloseWrite(w), ~SnapRead(v),
               writer'[v] # writer[v]
        PROVE  FALSE
    <2>1. CASE SnapRead(w)
      BY <1>4, <2>1, BecomesAt DEF SnapRead
    <2>2. CASE InsertFill(w) \/ InsertFails(w) \/ ApplyFill(w) \/ ApplyFails(w)
      <3>1. \/ writer'[v] = [writer[w] EXCEPT !.pc = "apply", !.saved = TRUE]
            \/ writer'[v] = [writer[w] EXCEPT !.pc = "write"]
        BY <1>4, <2>2, BecomesAt DEF InsertFill, InsertFails, ApplyFill, ApplyFails
      <3>2. writer[w] \in Local
        BY DEF TypeOK
      <3> QED
        BY <3>1, <3>2 DEF Local
    <2>3. CASE WriteRow(w) \/ WriteFails(w) \/ CloseWrite(w)
      <3>1. writer'[v].pc = "idle"
        BY <1>4, <2>3, BecomesAt DEF WriteRow, WriteFails, CloseWrite, Idle
      <3> QED
        BY <3>1
    <2> QED
      BY <1>4, <2>1, <2>2, <2>3 DEF SnapshotStep
  <1>5. ASSUME Crash PROVE FALSE
    <2>1. writer'[v].pc = "idle"
      BY <1>5 DEF Crash, Idle
    <2> QED
      BY <2>1
  <1>6. ASSUME UNCHANGED writer PROVE writer'[v] = writer[v]
    BY <1>6
  <1> QED
    BY <1>1, <1>2, <1>3, <1>4, <1>5, <1>6 DEF Next, BrokerStep, Executes,
       CancelRequested, Ends, BookClears, ApplyPending, vars

LEMMA ApplyType ==
    ASSUME TypeOK, NEW f \in fills, ApplyTransaction(f)
    PROVE  applied' \in SUBSET fills /\ booked' \in [Orders -> Nat]
  BY DEF TypeOK, ApplyTransaction, Fill

LEMMA WrittenType ==
    ASSUME TypeOK, NEW w \in Writers, NEW o \in Orders
    PROVE  Written(w, orders[o]) \in OrderRow
  <1> DEFINE me == writer[w]
             to == commitBrokerFillProgress(me.row.filledQty, me.snap.filled, me.saved,
                                            me.row.status, NextStatus(me.snap))
  <1>1. /\ me.row.filledQty \in Nat /\ me.snap.filled \in Nat /\ me.saved \in BOOLEAN
        /\ me.row.status \in OrderStatus /\ me.snap.status \in KiteStatus
    BY DEF TypeOK, Local, Snapshot, OrderRow
  <1>2. NextStatus(me.snap) \in OrderStatus
    BY <1>1, MapType, LedgerAssumption DEF NextStatus
  <1>3. to.filledQty \in Nat /\ to.status \in OrderStatus
    BY <1>1, <1>2, CommitType
  <1>4. orders[o].status \in OrderStatus
    BY DEF TypeOK, OrderRow
  <1> HIDE DEF to
  <1> QED
    BY <1>3, <1>4 DEF Written, OrderRow, to, me

LEMMA TypeStep == TypeOK /\ PendingIsNew /\ [Next]_vars => TypeOK'
  <1> SUFFICES ASSUME TypeOK, PendingIsNew, [Next]_vars PROVE TypeOK'
    OBVIOUS
  <1> USE LedgerAssumption
  <1>0. ASSUME NEW w \in Writers, NEW local \in Local, Becomes(w, local)
        PROVE  writer' \in [Writers -> Local]
    BY <1>0 DEF Becomes, TypeOK
  <1>1. ASSUME NEW o \in Orders, BrokerStep(o) PROVE TypeOK'
    <2> DEFINE B == [status: KiteStatus, filled: Nat, gone: BOOLEAN]
    <2>1. ASSUME NEW b \in B, broker' = [broker EXCEPT ![o] = b]
          PROVE  broker' \in [Orders -> B]
      BY <2>1 DEF TypeOK
    <2>2. broker[o] \in B
      BY DEF TypeOK
    <2> HIDE DEF B
    <2>3. CASE Executes(o)
      <3>1. PICK q \in (IF Partial THEN broker[o].filled + 1 .. Qty ELSE {Qty}) :
               broker' = [broker EXCEPT ![o] =
                   [broker[o] EXCEPT
                       !.filled = q,
                       !.status = IF q = Qty THEN "COMPLETE" ELSE broker[o].status]]
        BY <2>3 DEF Executes
      <3>2. q \in Nat
        BY <3>1, <2>2 DEF B
      <3>3. [broker[o] EXCEPT !.filled = q,
                !.status = IF q = Qty THEN "COMPLETE" ELSE broker[o].status] \in B
        BY <3>2, <2>2 DEF B, KiteStatus
      <3>4. broker' \in [Orders -> B]
        BY <3>1, <3>3, <2>1
      <3> QED
        BY <3>4, <2>3 DEF Executes, TypeOK, dbVars, B
    <2>4. CASE CancelRequested(o)
      <3>1. [broker[o] EXCEPT !.status = "CANCEL PENDING"] \in B
        BY <2>2 DEF B, KiteStatus
      <3> QED
        BY <3>1, <2>1, <2>4 DEF CancelRequested, TypeOK, dbVars, B
    <2>5. CASE Ends(o)
      <3>1. PICK s \in EndStatuses : broker' = [broker EXCEPT ![o] = [broker[o] EXCEPT !.status = s]]
        BY <2>5 DEF Ends
      <3>2. [broker[o] EXCEPT !.status = s] \in B
        BY <2>2 DEF B, KiteStatus
      <3>3. broker' \in [Orders -> B]
        BY <3>1, <3>2, <2>1
      <3> QED
        BY <3>3, <2>5 DEF Ends, TypeOK, dbVars, B
    <2>6. CASE BookClears(o)
      <3>1. [broker[o] EXCEPT !.gone = TRUE,
                !.status = IF broker[o].status \in {"OPEN", "CANCEL PENDING"}
                           THEN "CANCELLED" ELSE broker[o].status] \in B
        BY <2>2 DEF B, KiteStatus
      <3> QED
        BY <3>1, <2>1, <2>6 DEF BookClears, TypeOK, dbVars, B
    <2> QED
      BY <1>1, <2>3, <2>4, <2>5, <2>6 DEF BrokerStep
  <1>2. ASSUME NEW w \in Writers, NEW o \in Orders, Fetch(w, o) PROVE TypeOK'
    BY ZenonT(60), <1>2 DEF Fetch, TypeOK, dbVars, Local, Snapshot, Becomes
  <1>3. ASSUME NEW w \in Writers, SnapRead(w) PROVE TypeOK'
    <2> DEFINE row == orders[writer[w].order]
               pc == IF booksFill(writer[w].snap, row) THEN "insert" ELSE "write"
               saved == writer[w].snap.filled <= row.filledQty
    <2>1. writer[w] \in Local /\ row \in OrderRow
      BY DEF TypeOK, Local
    <2>2. pc \in {"insert", "write"} /\ saved \in BOOLEAN
      OBVIOUS
    <2>3. Becomes(w, [writer[w] EXCEPT !.row = row, !.saved = saved, !.pc = pc])
      BY <1>3 DEF SnapRead
    <2> HIDE DEF row, pc, saved
    <2>4. [writer[w] EXCEPT !.row = row, !.saved = saved, !.pc = pc] \in Local
      BY <2>1, <2>2 DEF Local
    <2>5. writer' \in [Writers -> Local]
      BY <2>3, <2>4, <1>0
    <2> QED
      BY <1>3, <2>5 DEF SnapRead, TypeOK, dbVars
  <1>4. ASSUME NEW w \in Writers, InsertFill(w) PROVE TypeOK'
    <2> DEFINE f == [order |-> writer[w].order, upTo |-> writer[w].snap.filled,
                     qty |-> writer[w].snap.filled - writer[w].row.filledQty]
    <2>1. writer[w] \in Local
      BY DEF TypeOK
    <2>2. [writer[w] EXCEPT !.pc = "apply", !.saved = TRUE] \in Local
      BY <2>1 DEF Local
    <2>3. writer' \in [Writers -> Local]
      BY <2>2, <1>0, <1>4 DEF InsertFill
    <2>4. f \in Fill
      BY <2>1, <1>4 DEF PendingIsNew, Fill, Local, Snapshot, OrderRow, InsertFill
    <2>5. fills' \in SUBSET Fill /\ fills \subseteq fills'
      BY <2>4, <1>4 DEF InsertFill, TypeOK
    <2> QED
      BY <1>4, <2>3, <2>5 DEF InsertFill, TypeOK
  <1>5. ASSUME NEW w \in Writers, InsertFails(w) \/ ApplyFails(w) PROVE TypeOK'
    <2>1. [writer[w] EXCEPT !.pc = "write"] \in Local
      BY DEF TypeOK, Local
    <2>2. writer' \in [Writers -> Local]
      BY <2>1, <1>0, <1>5 DEF InsertFails, ApplyFails
    <2> QED
      BY <1>5, <2>2 DEF InsertFails, ApplyFails, TypeOK, dbVars
  <1>6. ASSUME NEW w \in Writers, ApplyFill(w) PROVE TypeOK'
    <2>1. PICK f \in Fingerprinted(w) : ApplyTransaction(f)
      BY <1>6 DEF ApplyFill
    <2>2. applied' \in SUBSET fills /\ booked' \in [Orders -> Nat]
      BY <2>1, ApplyType DEF Fingerprinted
    <2> QED
      BY <1>6, <2>2 DEF ApplyFill, Becomes, TypeOK, Local
  <1>7. ASSUME NEW w \in Writers, WriteRow(w) PROVE TypeOK'
    <2>1. writer[w].order \in Orders
      BY DEF TypeOK, Local
    <2>2. Written(w, orders[writer[w].order]) \in OrderRow
      BY <2>1, WrittenType
    <2> QED
      BY <1>7, <2>1, <2>2, IdleType DEF WriteRow, Becomes, TypeOK
  <1>8. ASSUME NEW w \in Writers, WriteFails(w) PROVE TypeOK'
    BY <1>8, IdleType DEF WriteFails, Becomes, TypeOK, dbVars
  <1>9. ASSUME NEW w \in Writers, CloseWrite(w) PROVE TypeOK'
    <2>1. writer[w].order \in Orders
      BY DEF TypeOK, Local
    <2> QED
      BY <1>9, <2>1, IdleType DEF CloseWrite, Becomes, TypeOK, OrderRow, OrderStatus
  <1>10. ASSUME NEW w \in Writers, NEW o \in Orders, CloseRead(w, o) PROVE TypeOK'
    BY ZenonT(60), <1>10 DEF CloseRead, Becomes, TypeOK, dbVars, Local
  <1>11. ASSUME ApplyPending PROVE TypeOK'
    <2>1. PICK f \in fills \ applied : ApplyTransaction(f)
      BY <1>11 DEF ApplyPending
    <2>2. applied' \in SUBSET fills /\ booked' \in [Orders -> Nat]
      BY <2>1, ApplyType
    <2> QED
      BY <1>11, <2>2 DEF ApplyPending, TypeOK
  <1>12. ASSUME Crash PROVE TypeOK'
    BY <1>12, IdleType DEF Crash, TypeOK, dbVars
  <1>13. ASSUME UNCHANGED vars PROVE TypeOK'
    BY <1>13 DEF vars, TypeOK
  <1> QED
    BY <1>1, <1>2, <1>3, <1>4, <1>5, <1>6, <1>7, <1>8, <1>9, <1>10, <1>11, <1>12,
       <1>13 DEF Next, SnapshotStep

\* The tables and the state each driver keeps across its awaits are always
\* well formed: every status written to an order row is a ledger status.
THEOREM TypeCorrect == Spec => []TypeOK
  BY TypeInit, TypeStep, PendingStep, PTL DEF Spec

-----------------------------------------------------------------------------
(***************************************************************************)
(* The filled quantity is backed by fill rows                              *)
(***************************************************************************)
BackedIn(F, o, q) == q > 0 => \E f \in F : f.order = o /\ f.upTo = q

\* Along one call: the quantity read from the row is backed from the SELECT to
\* the UPDATE, the quantity of the snapshot once its fill is saved.
CallBacked(F, me) ==
    /\ me.pc \in {"insert", "apply", "write"} =>
           BackedIn(F, me.order, me.row.filledQty)
    /\ me.pc = "apply" => BackedIn(F, me.order, me.snap.filled)
    /\ me.pc = "write" /\ me.saved /\ me.row.filledQty < me.snap.filled =>
           BackedIn(F, me.order, me.snap.filled)

BackInv ==
    /\ \A o \in Orders : BackedIn(fills, o, orders[o].filledQty)
    /\ \A w \in Writers : CallBacked(fills, writer[w])

LEMMA BackMono ==
    ASSUME NEW F, NEW G, F \subseteq G, NEW me, CallBacked(F, me)
    PROVE  CallBacked(G, me)
  BY DEF CallBacked, BackedIn

LEMMA FillsGrow == TypeOK /\ [Next]_vars => fills \subseteq fills'
  BY DEF Next, vars, BrokerStep, Executes, CancelRequested, Ends, BookClears, dbVars,
     SnapshotStep, SnapRead, InsertFill, InsertFails, ApplyFill, ApplyFails, WriteRow,
     WriteFails, CloseWrite, Fetch, CloseRead, ApplyPending, Crash

\* The UPDATE keeps the quantity it read or takes that of a saved fill.
LEMMA CommitQty ==
    ASSUME NEW prev \in Nat, NEW kite \in Nat, NEW saved \in BOOLEAN,
           NEW from, NEW next,
           NEW q, q = commitBrokerFillProgress(prev, kite, saved, from, next).filledQty
    PROVE  q = prev \/ (q = kite /\ prev < kite /\ saved)
  BY DEF commitBrokerFillProgress

LEMMA WrittenQty ==
    ASSUME TypeOK, NEW w \in Writers, NEW current, NEW q,
           q = Written(w, current).filledQty
    PROVE  \/ q = writer[w].row.filledQty
           \/ /\ q = writer[w].snap.filled
              /\ writer[w].row.filledQty < writer[w].snap.filled
              /\ writer[w].saved
  <1>1. /\ writer[w].row.filledQty \in Nat /\ writer[w].snap.filled \in Nat
        /\ writer[w].saved \in BOOLEAN
    BY DEF TypeOK, Local, OrderRow, Snapshot
  <1>2. q = commitBrokerFillProgress(writer[w].row.filledQty, writer[w].snap.filled,
                writer[w].saved, writer[w].row.status,
                NextStatus(writer[w].snap)).filledQty
    BY DEF Written
  <1> QED
    BY <1>1, <1>2, CommitQty

LEMMA BackStep == TypeOK /\ PendingIsNew /\ BackInv /\ [Next]_vars => BackInv'
  <1> SUFFICES ASSUME TypeOK, PendingIsNew, BackInv, [Next]_vars PROVE BackInv'
    OBVIOUS
  <1>0. fills \subseteq fills'
    BY FillsGrow
  <1>1. ASSUME UNCHANGED orders
        PROVE  \A o \in Orders : BackedIn(fills', o, orders'[o].filledQty)
    BY <1>0, <1>1 DEF BackInv, BackedIn
  <1>2. ASSUME NEW v \in Writers, writer'[v] = writer[v]
        PROVE  CallBacked(fills', writer'[v])
    BY <1>0, <1>2, BackMono DEF BackInv
  <1>3. ASSUME NEW v \in Writers, writer'[v].pc \in {"idle", "read", "close"}
        PROVE  CallBacked(fills', writer'[v])
    BY <1>3 DEF CallBacked
  <1>4. Idle.pc = "idle"
    BY DEF Idle
  <1>5. CASE UNCHANGED <<orders, writer>>
    BY <1>1, <1>2, <1>5 DEF BackInv
  <1>6. ASSUME NEW w \in Writers, NEW o \in Orders, Fetch(w, o) \/ CloseRead(w, o)
        PROVE  BackInv'
    <2>1. UNCHANGED orders
      BY <1>6 DEF Fetch, CloseRead, dbVars
    <2>2. \A v \in Writers : writer'[v] = writer[v] \/ writer'[v].pc \in {"read", "close"}
      <3> SUFFICES ASSUME NEW v \in Writers, writer'[v] # writer[v]
                   PROVE  writer'[v].pc \in {"read", "close"}
        OBVIOUS
      <3>0. writer[w] \in Local
        BY DEF TypeOK
      <3>1. CASE Fetch(w, o)
        <4>1. writer'[v] = [writer[w] EXCEPT !.pc = "read", !.order = o,
                !.snap = [status |-> broker[o].status, filled |-> broker[o].filled]]
          BY <3>1, BecomesAt DEF Fetch
        <4> QED
          BY <3>0, <4>1 DEF Local
      <3>2. CASE CloseRead(w, o)
        <4>1. writer'[v] = [writer[w] EXCEPT !.pc = "close", !.order = o,
                                             !.row = orders[o]]
          BY <3>2, BecomesAt DEF CloseRead
        <4> QED
          BY <3>0, <4>1 DEF Local
      <3> QED
        BY <1>6, <3>1, <3>2
    <2> QED
      BY <1>1, <1>2, <1>3, <2>1, <2>2 DEF BackInv
  <1>7. ASSUME NEW w \in Writers, SnapRead(w) PROVE BackInv'
    <2> DEFINE row == orders[writer[w].order]
               pc == IF booksFill(writer[w].snap, row) THEN "insert" ELSE "write"
               saved == writer[w].snap.filled <= row.filledQty
    <2>0. /\ writer[w] \in Local /\ writer[w].order \in Orders
          /\ row.filledQty \in Nat /\ writer[w].snap.filled \in Nat
      BY DEF TypeOK, Local, OrderRow, Snapshot
    <2>1. UNCHANGED <<orders, fills>>
      BY <1>7 DEF SnapRead, dbVars
    <2>2. writer'[w] = [writer[w] EXCEPT !.row = row, !.saved = saved, !.pc = pc]
      BY <1>7, BecomesAt DEF SnapRead
    <2>3. /\ writer'[w].row = row /\ writer'[w].saved = saved
          /\ writer'[w].pc \in {"insert", "write"}
          /\ writer'[w].snap = writer[w].snap /\ writer'[w].order = writer[w].order
      BY <2>0, <2>2 DEF Local
    <2>4. BackedIn(fills', writer[w].order, row.filledQty)
      BY <2>0, <2>1 DEF BackInv
    <2>5. ~(writer'[w].saved /\ row.filledQty < writer[w].snap.filled)
      <3>1. saved => ~(row.filledQty < writer[w].snap.filled)
        BY <2>0
      <3> HIDE DEF saved, row
      <3> QED
        BY <2>3, <3>1, Zenon
    <2> HIDE DEF row, pc, saved
    <2>6. CallBacked(fills', writer'[w])
      BY <2>3, <2>4, <2>5 DEF CallBacked
    <2>7. \A v \in Writers : v # w => writer'[v] = writer[v]
      BY <1>7, BecomesAt DEF SnapRead
    <2> QED
      BY <1>1, <1>2, <2>1, <2>6, <2>7 DEF BackInv
  <1>8. ASSUME NEW w \in Writers, InsertFill(w) PROVE BackInv'
    <2>0. writer[w] \in Local
      BY DEF TypeOK
    <2>1. writer'[w] = [writer[w] EXCEPT !.pc = "apply", !.saved = TRUE]
      BY <1>8, BecomesAt DEF InsertFill
    <2>2. /\ writer'[w].pc = "apply" /\ writer'[w].row = writer[w].row
          /\ writer'[w].snap = writer[w].snap /\ writer'[w].order = writer[w].order
      BY <2>0, <2>1 DEF Local
    <2>3. \E f \in fills' : f.order = writer[w].order /\ f.upTo = writer[w].snap.filled
      <3> DEFINE g == [order |-> writer[w].order, upTo |-> writer[w].snap.filled,
                       qty |-> writer[w].snap.filled - writer[w].row.filledQty]
      <3>1. CASE Fingerprinted(w) # {}
        BY <1>8, <3>1 DEF InsertFill, Fingerprinted
      <3>2. CASE Fingerprinted(w) = {}
        <4>1. g \in fills'
          BY <1>8, <3>2 DEF InsertFill
        <4>2. g.order = writer[w].order /\ g.upTo = writer[w].snap.filled
          OBVIOUS
        <4> HIDE DEF g
        <4> QED
          BY <4>1, <4>2
      <3> QED
        BY <3>1, <3>2
    <2>4. BackedIn(fills, writer[w].order, writer[w].row.filledQty)
      BY <1>8 DEF InsertFill, BackInv, CallBacked
    <2>5. CallBacked(fills', writer'[w])
      BY <1>0, <2>2, <2>3, <2>4 DEF CallBacked, BackedIn
    <2>6. \A v \in Writers : v # w => writer'[v] = writer[v]
      BY <1>8, BecomesAt DEF InsertFill
    <2>7. UNCHANGED orders
      BY <1>8 DEF InsertFill
    <2> QED
      BY <1>1, <1>2, <2>5, <2>6, <2>7 DEF BackInv
  <1>9. ASSUME NEW w \in Writers, InsertFails(w) \/ ApplyFill(w) \/ ApplyFails(w)
        PROVE  BackInv'
    <2>0. writer[w] \in Local
      BY DEF TypeOK
    <2>1. writer'[w] = [writer[w] EXCEPT !.pc = "write"]
      BY <1>9, BecomesAt DEF InsertFails, ApplyFill, ApplyFails
    <2>2. /\ writer'[w].pc = "write" /\ writer'[w].row = writer[w].row
          /\ writer'[w].snap = writer[w].snap /\ writer'[w].order = writer[w].order
          /\ writer'[w].saved = writer[w].saved
      BY <2>0, <2>1 DEF Local
    <2>3. \/ writer[w].pc = "insert" /\ ~writer[w].saved
          \/ writer[w].pc = "apply"
      BY <1>9 DEF InsertFails, ApplyFill, ApplyFails, PendingIsNew
    <2>4. CallBacked(fills, writer[w])
      BY DEF BackInv
    <2>5. CallBacked(fills, writer'[w])
      <3>1. BackedIn(fills, writer[w].order, writer[w].row.filledQty)
        BY <2>3, <2>4 DEF CallBacked
      <3>2. writer[w].saved => BackedIn(fills, writer[w].order, writer[w].snap.filled)
        BY <2>3, <2>4, Zenon DEF CallBacked
      <3> QED
        BY <2>2, <3>1, <3>2 DEF CallBacked
    <2>6. CallBacked(fills', writer'[w])
      BY <1>0, <2>5, BackMono
    <2>7. \A v \in Writers : v # w => writer'[v] = writer[v]
      BY <1>9, BecomesAt DEF InsertFails, ApplyFill, ApplyFails
    <2>8. UNCHANGED orders
      BY <1>9 DEF InsertFails, ApplyFill, ApplyFails, dbVars
    <2> QED
      BY <1>1, <1>2, <2>6, <2>7, <2>8 DEF BackInv
  <1>10. ASSUME NEW w \in Writers, WriteRow(w) PROVE BackInv'
    <2> DEFINE o == writer[w].order
               q == Written(w, orders[o]).filledQty
    <2>0. o \in Orders
      BY DEF TypeOK, Local
    <2>1. BackedIn(fills, o, q)
      <3>1. /\ BackedIn(fills, o, writer[w].row.filledQty)
            /\ writer[w].saved /\ writer[w].row.filledQty < writer[w].snap.filled =>
                   BackedIn(fills, o, writer[w].snap.filled)
        BY <1>10 DEF BackInv, CallBacked, WriteRow
      <3>2. \/ q = writer[w].row.filledQty
            \/ /\ q = writer[w].snap.filled
               /\ writer[w].row.filledQty < writer[w].snap.filled
               /\ writer[w].saved
        BY WrittenQty
      <3> HIDE DEF o, q
      <3> QED
        BY <3>1, <3>2, Zenon
    <2>2. orders' = [orders EXCEPT ![o] = Written(w, orders[o])]
      BY <1>10 DEF WriteRow
    <2>3. UNCHANGED fills
      BY <1>10 DEF WriteRow
    <2>4. \A p \in Orders : orders'[p] = IF p = o THEN Written(w, orders[o]) ELSE orders[p]
      BY <2>2 DEF TypeOK
    <2> HIDE DEF o
    <2>5. \A p \in Orders : BackedIn(fills', p, orders'[p].filledQty)
      BY <2>1, <2>3, <2>4, Zenon DEF BackInv
    <2>6. \A v \in Writers : writer'[v] = IF v = w THEN Idle ELSE writer[v]
      BY <1>10, BecomesAt DEF WriteRow
    <2> QED
      BY <1>2, <1>3, <1>4, <2>5, <2>6 DEF BackInv
  <1>11. ASSUME NEW w \in Writers, WriteFails(w) PROVE BackInv'
    <2>1. UNCHANGED orders
      BY <1>11 DEF WriteFails, dbVars
    <2>2. \A v \in Writers : writer'[v] = IF v = w THEN Idle ELSE writer[v]
      BY <1>11, BecomesAt DEF WriteFails
    <2> QED
      BY <1>1, <1>2, <1>3, <1>4, <2>1, <2>2 DEF BackInv
  <1>12. ASSUME NEW w \in Writers, CloseWrite(w) PROVE BackInv'
    <2> DEFINE o == writer[w].order
    <2>1. \A p \in Orders : orders'[p].filledQty = orders[p].filledQty
      BY <1>12 DEF CloseWrite, TypeOK, OrderRow, Local
    <2>2. UNCHANGED fills
      BY <1>12 DEF CloseWrite
    <2>3. \A v \in Writers : writer'[v] = IF v = w THEN Idle ELSE writer[v]
      BY <1>12, BecomesAt DEF CloseWrite
    <2>4. \A p \in Orders : BackedIn(fills', p, orders'[p].filledQty)
      BY <2>1, <2>2 DEF BackInv
    <2> QED
      BY <1>2, <1>3, <1>4, <2>3, <2>4 DEF BackInv
  <1>13. ASSUME Crash PROVE BackInv'
    <2>1. UNCHANGED orders /\ \A v \in Writers : writer'[v] = Idle
      BY <1>13 DEF Crash, dbVars
    <2> QED
      BY <1>1, <1>3, <1>4, <2>1 DEF BackInv
  <1>14. ASSUME NEW o \in Orders, BrokerStep(o) PROVE UNCHANGED <<orders, writer>>
    BY <1>14 DEF BrokerStep, Executes, CancelRequested, Ends, BookClears, dbVars
  <1>15. ASSUME ApplyPending PROVE UNCHANGED <<orders, writer>>
    BY <1>15 DEF ApplyPending
  <1>16. ASSUME UNCHANGED vars PROVE UNCHANGED <<orders, writer>>
    BY <1>16 DEF vars
  <1> QED
    BY <1>5, <1>6, <1>7, <1>8, <1>9, <1>10, <1>11, <1>12, <1>13, <1>14, <1>15, <1>16
       DEF Next, SnapshotStep

\* The filled quantity of an order row is always backed by a saved fill row,
\* with overlapping calls, partial fills, failing statements and restarts:
\* a snapshot that is skipped as old hides no execution.
THEOREM FilledQtyIsBacked == Spec => []FilledQtyBacked
  <1>1. Init => BackInv
    BY DEF Init, BackInv, BackedIn, CallBacked, Idle
  <1>2. BackInv => FilledQtyBacked
    BY DEF BackInv, BackedIn, FilledQtyBacked
  <1> QED
    BY <1>1, <1>2, TypeInit, TypeStep, PendingStep, BackStep, PTL DEF Spec

-----------------------------------------------------------------------------
(***************************************************************************)
(* Orders that execute in one piece are booked once                        *)
(***************************************************************************)

\* All quantities are nothing or everything, a fill is saved only after the
\* execution, and what was booked for an order is an applied fill.
WholeInv ==
    /\ \A o \in Orders : broker[o].filled \in {0, Qty} /\ orders[o].filledQty \in {0, Qty}
    /\ \A w \in Writers :
          /\ writer[w].snap.filled \in {0, Qty}
          /\ writer[w].row.filledQty \in {0, Qty}
          /\ writer[w].snap.filled <= broker[writer[w].order].filled
          /\ writer[w].pc = "idle" => writer[w].snap.filled = 0
    /\ \A f \in fills : f.upTo = Qty /\ f.qty = Qty /\ broker[f.order].filled = Qty
    /\ \A o \in Orders :
          booked[o] = 0 \/ (booked[o] = Qty /\ \E f \in applied : f.order = o)

\* The conjunct of WholeInv about one driver.
DriverWhole(me, B) ==
    /\ me.snap.filled \in {0, Qty}
    /\ me.row.filledQty \in {0, Qty}
    /\ me.snap.filled <= B[me.order].filled
    /\ me.pc = "idle" => me.snap.filled = 0

LEMMA IdleWhole ==
    ASSUME TypeOK PROVE DriverWhole(Idle, broker)
  <1>1. Idle.order \in Orders /\ Idle.snap.filled = 0 /\ Idle.row.filledQty = 0
    BY LedgerAssumption DEF Idle
  <1>2. broker[Idle.order].filled \in Nat
    BY <1>1 DEF TypeOK
  <1> QED
    BY <1>1, <1>2 DEF DriverWhole

\* In this setting the transaction of applyFillById books a fill from nothing.
LEMMA ApplyWhole ==
    ASSUME TypeOK, WholeInv, NEW f \in fills, ApplyTransaction(f)
    PROVE  /\ f.order \in Orders
           /\ broker[f.order].filled = Qty
           /\ \/ UNCHANGED <<applied, booked>>
              \/ /\ booked[f.order] = 0
                 /\ booked' = [booked EXCEPT ![f.order] = Qty]
                 /\ applied' = applied \cup {f}
  <1>1. f \in Fill /\ f.order \in Orders
    BY DEF TypeOK, Fill
  <1>2. ASSUME f \notin applied, NEW g \in applied PROVE g.order # f.order
    <2>1. g \in fills /\ g \in Fill
      BY DEF TypeOK
    <2>2. g.upTo = f.upTo /\ g.qty = f.qty
      BY <2>1 DEF WholeInv
    <2>3. g.order = f.order => g = f
      BY <1>1, <2>1, <2>2 DEF Fill
    <2> QED
      BY <1>2, <2>3
  <1>3. f \notin applied => booked[f.order] = 0
    BY <1>1, <1>2 DEF WholeInv
  <1>4. f.qty = Qty /\ broker[f.order].filled = Qty
    BY DEF WholeInv
  <1> QED
    BY <1>1, <1>3, <1>4, LedgerAssumption DEF ApplyTransaction

LEMMA WholeStep ==
    ASSUME ~Partial, TypeOK, PendingIsNew, WholeInv, [Next]_vars
    PROVE  WholeInv'
  <1> USE LedgerAssumption
  <1> DEFINE RowsWhole == \A o \in Orders : broker[o].filled \in {0, Qty}
                                            /\ orders[o].filledQty \in {0, Qty}
             DriversWhole == \A w \in Writers : DriverWhole(writer[w], broker)
             FillsWhole == \A f \in fills :
                 f.upTo = Qty /\ f.qty = Qty /\ broker[f.order].filled = Qty
             BookedWhole == \A o \in Orders :
                 booked[o] = 0 \/ (booked[o] = Qty /\ \E f \in applied : f.order = o)
  <1>0. RowsWhole /\ DriversWhole /\ FillsWhole /\ BookedWhole
    BY DEF WholeInv, DriverWhole
  <1>1. RowsWhole' /\ DriversWhole' /\ FillsWhole' /\ BookedWhole' => WholeInv'
    BY DEF WholeInv, DriverWhole
  <1>2. CASE UNCHANGED vars
    BY <1>0, <1>1, <1>2 DEF vars
  <1>3. ASSUME NEW o \in Orders, BrokerStep(o) PROVE WholeInv'
    <2>1. UNCHANGED <<orders, fills, applied, booked, writer>>
      BY <1>3 DEF BrokerStep, Executes, CancelRequested, Ends, BookClears, dbVars
    <2>2. \A p \in Orders : broker'[p].filled \in {broker[p].filled, Qty}
      <3>1. CASE Executes(o)
        <4>1. broker' = [broker EXCEPT ![o] = [broker[o] EXCEPT !.filled = Qty,
                  !.status = IF Qty = Qty THEN "COMPLETE" ELSE broker[o].status]]
          BY <3>1 DEF Executes
        <4> QED
          BY <4>1 DEF TypeOK
      <3>2. CASE CancelRequested(o)
        BY <3>2 DEF CancelRequested, TypeOK
      <3>3. CASE Ends(o)
        <4>1. PICK s \in EndStatuses :
                broker' = [broker EXCEPT ![o] = [broker[o] EXCEPT !.status = s]]
          BY <3>3 DEF Ends
        <4> QED
          BY <4>1 DEF TypeOK
      <3>4. CASE BookClears(o)
        BY <3>4 DEF BookClears, TypeOK
      <3> QED
        BY <1>3, <3>1, <3>2, <3>3, <3>4 DEF BrokerStep
    <2>3. RowsWhole'
      BY <1>0, <2>1, <2>2
    <2>4. FillsWhole'
      BY <1>0, <2>1, <2>2 DEF TypeOK, Fill
    <2>5. DriversWhole'
      <3> SUFFICES ASSUME NEW w \in Writers PROVE DriverWhole(writer[w], broker')
        BY <2>1
      <3>1. writer[w].order \in Orders /\ writer[w].snap.filled \in Nat
        BY DEF TypeOK, Local, Snapshot
      <3>2. DriverWhole(writer[w], broker)
        BY <1>0
      <3> QED
        BY <2>2, <3>1, <3>2 DEF DriverWhole
    <2> QED
      BY <1>0, <1>1, <2>1, <2>3, <2>4, <2>5
  \* From here on the broker does not move.
  <1>4. ASSUME UNCHANGED <<broker, orders, fills, applied, booked>>, DriversWhole'
        PROVE  WholeInv'
    BY <1>0, <1>1, <1>4
  <1>5. ASSUME NEW w \in Writers, NEW local, Becomes(w, local), UNCHANGED broker,
               DriverWhole(local, broker)
        PROVE  DriversWhole'
    <2>1. \A v \in Writers : writer'[v] = IF v = w THEN local ELSE writer[v]
      BY <1>5, BecomesAt
    <2> QED
      BY <1>0, <1>5, <2>1
  <1>6. ASSUME NEW w \in Writers, NEW o \in Orders, Fetch(w, o) PROVE WholeInv'
    <2> DEFINE local == [writer[w] EXCEPT !.pc = "read", !.order = o,
                !.snap = [status |-> broker[o].status, filled |-> broker[o].filled]]
    <2>1. /\ local.order = o /\ local.snap.filled = broker[o].filled
          /\ local.row = writer[w].row /\ local.pc = "read"
      BY DEF TypeOK, Local
    <2>2. Becomes(w, local)
      BY <1>6 DEF Fetch
    <2>3. DriverWhole(writer[w], broker)
      BY <1>0
    <2> HIDE DEF local
    <2>4. DriverWhole(local, broker)
      BY <1>0, <2>1, <2>3 DEF DriverWhole
    <2> QED
      BY <1>4, <1>5, <1>6, <2>2, <2>4 DEF Fetch, dbVars
  <1>7. ASSUME NEW w \in Writers, NEW o \in Orders, CloseRead(w, o) PROVE WholeInv'
    <2> DEFINE local == [writer[w] EXCEPT !.pc = "close", !.order = o, !.row = orders[o]]
    <2>1. /\ local.order = o /\ local.snap = writer[w].snap
          /\ local.row = orders[o] /\ local.pc = "close"
      BY DEF TypeOK, Local
    <2>2. Becomes(w, local) /\ writer[w].pc = "idle"
      BY <1>7 DEF CloseRead
    <2>3. DriverWhole(writer[w], broker)
      BY <1>0
    <2> HIDE DEF local
    <2>4. DriverWhole(local, broker)
      BY <1>0, <2>1, <2>2, <2>3 DEF DriverWhole
    <2> QED
      BY <1>4, <1>5, <1>7, <2>2, <2>4 DEF CloseRead, dbVars
  <1>8. ASSUME NEW w \in Writers, SnapRead(w) PROVE WholeInv'
    <2> DEFINE row == orders[writer[w].order]
               pc == IF booksFill(writer[w].snap, row) THEN "insert" ELSE "write"
               saved == writer[w].snap.filled <= row.filledQty
               local == [writer[w] EXCEPT !.row = row, !.saved = saved, !.pc = pc]
    <2>0. writer[w] \in Local /\ writer[w].order \in Orders
      BY DEF TypeOK, Local
    <2>1. /\ local.order = writer[w].order /\ local.snap = writer[w].snap
          /\ local.row = row /\ local.pc \in {"insert", "write"}
      BY <2>0 DEF Local
    <2>2. Becomes(w, local)
      BY <1>8 DEF SnapRead
    <2>3. DriverWhole(writer[w], broker) /\ row.filledQty \in {0, Qty}
      BY <1>0, <2>0
    <2> HIDE DEF local, row
    <2>4. DriverWhole(local, broker)
      BY <2>1, <2>3 DEF DriverWhole
    <2> QED
      BY <1>4, <1>5, <1>8, <2>2, <2>4 DEF SnapRead, dbVars
  <1>9. ASSUME NEW w \in Writers, NEW s \in {"apply", "write"},
               DriverWhole(writer[w], broker)
        PROVE  /\ DriverWhole([writer[w] EXCEPT !.pc = s], broker)
               /\ DriverWhole([writer[w] EXCEPT !.pc = s, !.saved = TRUE], broker)
    BY <1>9 DEF DriverWhole, TypeOK, Local
  <1>10. ASSUME NEW w \in Writers, InsertFill(w) PROVE WholeInv'
    <2>1. DriversWhole'
      BY <1>0, <1>5, <1>9, <1>10 DEF InsertFill
    <2> DEFINE f == [order |-> writer[w].order, upTo |-> writer[w].snap.filled,
                     qty |-> writer[w].snap.filled - writer[w].row.filledQty]
    <2>2. /\ writer[w].order \in Orders /\ writer[w].snap.filled \in Nat
          /\ writer[w].row.filledQty \in Nat /\ broker[writer[w].order].filled \in Nat
      BY DEF TypeOK, Local, Snapshot, OrderRow
    <2>3. writer[w].row.filledQty < writer[w].snap.filled
      BY <1>10 DEF InsertFill, PendingIsNew
    <2>4. writer[w].snap.filled = Qty /\ writer[w].row.filledQty = 0
      BY <1>0, <2>2, <2>3 DEF DriverWhole
    <2>5. broker[writer[w].order].filled = Qty
      BY <1>0, <2>2, <2>4 DEF DriverWhole
    <2>6. f.upTo = Qty /\ f.qty = Qty /\ broker[f.order].filled = Qty
      BY <2>4, <2>5
    <2> HIDE DEF f
    <2>7. fills' \subseteq fills \cup {f} /\ UNCHANGED <<broker, orders, applied, booked>>
      BY <1>10 DEF InsertFill, f
    <2>8. FillsWhole'
      BY <1>0, <2>6, <2>7
    <2> QED
      BY <1>0, <1>1, <2>1, <2>7, <2>8
  <1>11. ASSUME NEW w \in Writers, InsertFails(w) \/ ApplyFails(w) PROVE WholeInv'
    BY <1>0, <1>4, <1>5, <1>9, <1>11 DEF InsertFails, ApplyFails, dbVars
  <1>12. ASSUME NEW f \in fills, ApplyTransaction(f), UNCHANGED <<broker, orders, fills>>,
                DriversWhole'
         PROVE  WholeInv'
    <2>1. BookedWhole'
      BY <1>0, <1>12, ApplyWhole DEF TypeOK
    <2> QED
      BY <1>0, <1>1, <1>12, <2>1
  <1>13. ASSUME NEW w \in Writers, ApplyFill(w) PROVE WholeInv'
    <2>1. PICK f \in Fingerprinted(w) : ApplyTransaction(f)
      BY <1>13 DEF ApplyFill
    <2>2. f \in fills
      BY DEF Fingerprinted
    <2>3. DriversWhole'
      BY <1>0, <1>5, <1>9, <1>13 DEF ApplyFill
    <2> QED
      BY <1>12, <1>13, <2>1, <2>2, <2>3 DEF ApplyFill
  <1>14. ASSUME ApplyPending PROVE WholeInv'
    <2>1. PICK f \in fills \ applied : ApplyTransaction(f)
      BY <1>14 DEF ApplyPending
    <2>2. DriversWhole'
      BY <1>0, <1>14 DEF ApplyPending
    <2> QED
      BY <1>12, <1>14, <2>1, <2>2 DEF ApplyPending
  <1>15. ASSUME NEW w \in Writers, WriteRow(w) PROVE WholeInv'
    <2>1. DriversWhole'
      BY <1>5, <1>15, IdleWhole DEF WriteRow
    <2> DEFINE o == writer[w].order
    <2>2. Written(w, orders[o]).filledQty \in {0, Qty}
      BY <1>0, WrittenQty DEF DriverWhole
    <2>3. orders' = [orders EXCEPT ![o] = Written(w, orders[o])]
      BY <1>15 DEF WriteRow
    <2> HIDE DEF o
    <2>4. \A p \in Orders : orders'[p].filledQty \in {0, Qty}
      BY <1>0, <2>2, <2>3 DEF TypeOK
    <2> QED
      BY <1>0, <1>1, <1>15, <2>1, <2>4 DEF WriteRow
  <1>16. ASSUME NEW w \in Writers, CloseWrite(w) PROVE WholeInv'
    <2>1. DriversWhole'
      BY <1>5, <1>16, IdleWhole DEF CloseWrite
    <2>2. \A p \in Orders : orders'[p].filledQty = orders[p].filledQty
      BY <1>16 DEF CloseWrite, TypeOK, OrderRow, Local
    <2> QED
      BY <1>0, <1>1, <1>16, <2>1, <2>2 DEF CloseWrite
  <1>17. ASSUME NEW w \in Writers, WriteFails(w) PROVE WholeInv'
    BY <1>4, <1>5, <1>17, IdleWhole DEF WriteFails, dbVars
  <1>18. ASSUME Crash PROVE WholeInv'
    <2>1. DriversWhole'
      BY <1>18, IdleWhole DEF Crash
    <2> QED
      BY <1>4, <1>18, <2>1 DEF Crash, dbVars
  <1> QED
    BY <1>2, <1>3, <1>6, <1>7, <1>8, <1>10, <1>11, <1>13, <1>14, <1>15, <1>16, <1>17,
       <1>18 DEF Next, SnapshotStep

LEMMA WholeInit == Init => WholeInv
  BY LedgerAssumption DEF Init, WholeInv, Idle

\* However many drivers read an order, however their calls overlap, and
\* through failing statements and restarts: an order that the broker executes
\* in one piece never moves the position by more than was executed.
THEOREM WholeOrdersBookedOnce ==
    ASSUME ~Partial PROVE Spec => []NoOverbook
  <1>1. Init => TypeOK /\ PendingIsNew /\ WholeInv
    BY TypeInit, WholeInit
  <1>2. TypeOK /\ PendingIsNew /\ WholeInv /\ [Next]_vars =>
            (TypeOK /\ PendingIsNew /\ WholeInv)'
    BY TypeStep, PendingStep, WholeStep
  <1>3. TypeOK /\ WholeInv => NoOverbook
    <2> SUFFICES ASSUME TypeOK, WholeInv, NEW o \in Orders
                 PROVE  booked[o] <= broker[o].filled
      BY DEF NoOverbook
    <2>1. broker[o].filled \in Nat
      BY DEF TypeOK
    <2>2. CASE booked[o] = 0
      BY <2>1, <2>2
    <2>3. ASSUME booked[o] = Qty, NEW f \in applied, f.order = o
          PROVE  booked[o] = broker[o].filled
      BY <2>3 DEF WholeInv, TypeOK
    <2> QED
      BY <2>1, <2>2, <2>3 DEF WholeInv
  <1> QED
    BY <1>1, <1>2, <1>3, PTL DEF Spec

-----------------------------------------------------------------------------
(***************************************************************************)
(* Orders that execute in one piece: Ledger implements FillBook            *)
(***************************************************************************)

\* A fill transaction is a booking of the abstract specification, or nothing.
LEMMA ApplyRefines ==
    ASSUME TypeOK, WholeInv, NEW f \in fills, ApplyTransaction(f), UNCHANGED broker
    PROVE  [Book!Next]_(Book!bookVars)
  <1>1. /\ f.order \in Orders
        /\ broker[f.order].filled = Qty
        /\ \/ UNCHANGED <<applied, booked>>
           \/ /\ booked[f.order] = 0
              /\ booked' = [booked EXCEPT ![f.order] = Qty]
    BY ApplyWhole
  <1>2. CASE UNCHANGED booked
    BY <1>2 DEF Book!bookVars
  <1>3. CASE booked[f.order] = 0 /\ booked' = [booked EXCEPT ![f.order] = Qty]
    <2>1. Qty \in booked[f.order] + 1 .. broker[f.order].filled
      BY <1>1, <1>3, LedgerAssumption
    <2>2. Book!Book(f.order)
      BY <1>1, <1>3, <2>1 DEF Book!Book
    <2> QED
      BY <1>1, <2>2 DEF Book!Next
  <1> QED
    BY <1>1, <1>2, <1>3

\* An execution at the broker is one of the abstract specification, or nothing.
LEMMA ExecuteRefines ==
    ASSUME ~Partial, TypeOK, WholeInv, NEW o \in Orders, Executes(o)
    PROVE  [Book!Next]_(Book!bookVars)
  <1>1. broker' = [broker EXCEPT ![o] = [broker[o] EXCEPT !.filled = Qty,
            !.status = IF Qty = Qty THEN "COMPLETE" ELSE broker[o].status]]
    BY DEF Executes
  <1>2. [p \in Orders |-> broker'[p].filled]
            = [[p \in Orders |-> broker[p].filled] EXCEPT ![o] = Qty]
    BY <1>1 DEF TypeOK
  <1>3. UNCHANGED booked
    BY DEF Executes, dbVars
  <1>4. CASE broker[o].filled = Qty
    <2>1. [p \in Orders |-> broker'[p].filled] = [p \in Orders |-> broker[p].filled]
      BY <1>2, <1>4
    <2> QED
      BY <1>3, <2>1 DEF Book!bookVars
  <1>5. CASE broker[o].filled = 0
    <2>1. Qty \in [p \in Orders |-> broker[p].filled][o] + 1 .. Qty
      BY <1>5, LedgerAssumption
    <2>2. Book!Execute(o)
      BY <1>2, <1>3, <2>1 DEF Book!Execute
    <2> QED
      BY <2>2 DEF Book!Next
  <1> QED
    BY <1>4, <1>5 DEF WholeInv

LEMMA StepRefines ==
    ASSUME ~Partial, TypeOK, WholeInv, [Next]_vars
    PROVE  [Book!Next]_(Book!bookVars)
  <1>1. ASSUME UNCHANGED <<broker, booked>> PROVE [Book!Next]_(Book!bookVars)
    BY <1>1 DEF Book!bookVars
  <1>2. ASSUME NEW o \in Orders, CancelRequested(o) \/ Ends(o) \/ BookClears(o)
        PROVE  [Book!Next]_(Book!bookVars)
    <2>1. UNCHANGED booked
      BY <1>2 DEF CancelRequested, Ends, BookClears, dbVars
    <2>2. PICK s, g : broker' = [broker EXCEPT ![o] =
                                    [broker[o] EXCEPT !.gone = g, !.status = s]]
      <3>1. CASE CancelRequested(o)
        <4>1. broker' = [broker EXCEPT ![o] =
                            [broker[o] EXCEPT !.status = "CANCEL PENDING"]]
          BY <3>1 DEF CancelRequested
        <4>2. [broker[o] EXCEPT !.status = "CANCEL PENDING"]
                = [broker[o] EXCEPT !.gone = broker[o].gone, !.status = "CANCEL PENDING"]
          BY DEF TypeOK
        <4> QED
          BY <4>1, <4>2
      <3>2. CASE Ends(o)
        <4>1. PICK s \in EndStatuses :
                broker' = [broker EXCEPT ![o] = [broker[o] EXCEPT !.status = s]]
          BY <3>2 DEF Ends
        <4>2. [broker[o] EXCEPT !.status = s]
                = [broker[o] EXCEPT !.gone = broker[o].gone, !.status = s]
          BY DEF TypeOK
        <4> QED
          BY <4>1, <4>2
      <3>3. CASE BookClears(o)
        BY <3>3 DEF BookClears
      <3> QED
        BY <1>2, <3>1, <3>2, <3>3
    <2>3. [p \in Orders |-> broker'[p].filled] = [p \in Orders |-> broker[p].filled]
      BY <2>2 DEF TypeOK
    <2> QED
      BY <2>1, <2>3 DEF Book!bookVars
  <1>3. ASSUME NEW w \in Writers, ApplyFill(w) PROVE [Book!Next]_(Book!bookVars)
    <2>1. PICK f \in Fingerprinted(w) : ApplyTransaction(f)
      BY <1>3 DEF ApplyFill
    <2> QED
      BY <1>3, <2>1, ApplyRefines DEF ApplyFill, Fingerprinted
  <1>4. ASSUME ApplyPending PROVE [Book!Next]_(Book!bookVars)
    <2>1. PICK f \in fills \ applied : ApplyTransaction(f)
      BY <1>4 DEF ApplyPending
    <2> QED
      BY <1>4, <2>1, ApplyRefines DEF ApplyPending
  <1>5. ASSUME NEW w \in Writers, SnapshotStep(w) \/ CloseWrite(w), ~ApplyFill(w)
        PROVE  UNCHANGED <<broker, booked>>
    BY <1>5 DEF SnapshotStep, CloseWrite, SnapRead, InsertFill, InsertFails,
                ApplyFails, WriteRow, WriteFails, dbVars
  <1>6. ASSUME NEW w \in Writers, NEW o \in Orders, Fetch(w, o) \/ CloseRead(w, o)
        PROVE  UNCHANGED <<broker, booked>>
    BY <1>6 DEF Fetch, CloseRead, dbVars
  <1>7. ASSUME Crash \/ UNCHANGED vars PROVE UNCHANGED <<broker, booked>>
    BY <1>7 DEF Crash, dbVars, vars
  <1> QED
    BY <1>1, <1>2, <1>3, <1>4, <1>5, <1>6, <1>7, ExecuteRefines DEF Next, BrokerStep

\* Ledger implements FillBook when orders execute in one piece: through
\* overlapping drivers, failing statements and restarts an execution is booked
\* in one step, once, and never before the broker executed it.
THEOREM WholeOrdersRefine ==
    ASSUME ~Partial PROVE Spec => ImplementsFillBook
  <1>1. Init => TypeOK /\ PendingIsNew /\ WholeInv
    BY TypeInit, WholeInit
  <1>2. TypeOK /\ PendingIsNew /\ WholeInv /\ [Next]_vars =>
            (TypeOK /\ PendingIsNew /\ WholeInv)'
    BY TypeStep, PendingStep, WholeStep
  <1>3. Init => Book!Init
    BY DEF Init, Book!Init
  <1>4. TypeOK /\ WholeInv /\ [Next]_vars => [Book!Next]_(Book!bookVars)
    BY StepRefines
  <1> QED
    BY <1>1, <1>2, <1>3, <1>4, PTL DEF Spec, ImplementsFillBook, Book!Spec

-----------------------------------------------------------------------------
(***************************************************************************)
(* What each step of a driver does                                         *)
(***************************************************************************)
Others(w) == \A v \in Writers \ {w} : writer'[v] = writer[v]

\* Fields of the driver after a step that keeps its order and its snapshot.
SameCall(w) == /\ writer'[w].order = writer[w].order
               /\ writer'[w].snap = writer[w].snap

LEMMA OthersStay ==
    ASSUME TypeOK, NEW w \in Writers, NEW local, Becomes(w, local)
    PROVE  Others(w) /\ writer'[w] = local
  BY BecomesAt DEF Others

LEMMA FetchFields ==
    ASSUME TypeOK, NEW w \in Writers, NEW o \in Orders, Fetch(w, o)
    PROVE  /\ Others(w)
           /\ writer'[w].pc = "read" /\ writer'[w].order = o
           /\ writer'[w].snap = [status |-> broker[o].status, filled |-> broker[o].filled]
           /\ writer'[w].row = writer[w].row
           /\ UNCHANGED <<broker, orders, fills, applied, booked, crashes>>
  <1>1. writer'[w] = [writer[w] EXCEPT !.pc = "read", !.order = o,
            !.snap = [status |-> broker[o].status, filled |-> broker[o].filled]]
    BY OthersStay DEF Fetch
  <1>2. writer[w] \in Local
    BY DEF TypeOK
  <1> QED
    BY <1>1, <1>2, OthersStay DEF Fetch, Local, dbVars

LEMMA CloseReadFields ==
    ASSUME TypeOK, NEW w \in Writers, NEW o \in Orders, CloseRead(w, o)
    PROVE  /\ Others(w)
           /\ broker[o].gone
           /\ orders[o].status \in OPEN_ORDER_STATUSES
           /\ writer'[w].pc = "close" /\ writer'[w].order = o
           /\ writer'[w].snap = writer[w].snap
           /\ writer'[w].row = orders[o]
           /\ UNCHANGED <<broker, orders, fills, applied, booked, crashes>>
  <1>1. writer'[w] = [writer[w] EXCEPT !.pc = "close", !.order = o, !.row = orders[o]]
    BY OthersStay DEF CloseRead
  <1>2. writer[w] \in Local
    BY DEF TypeOK
  <1> QED
    BY <1>1, <1>2, OthersStay DEF CloseRead, Local, dbVars

LEMMA SnapReadFields ==
    ASSUME TypeOK, NEW w \in Writers, SnapRead(w)
    PROVE  /\ Others(w) /\ SameCall(w)
           /\ writer[w].pc = "read"
           /\ Overlap \/ ~Between(writer[w].order)
           /\ writer'[w].pc \in {"insert", "write"}
           /\ writer'[w].row = orders[writer[w].order]
           /\ writer'[w].saved = (writer[w].snap.filled
                                      <= orders[writer[w].order].filledQty)
           /\ UNCHANGED <<broker, orders, fills, applied, booked, crashes>>
  <1> DEFINE row == orders[writer[w].order]
             pc == IF booksFill(writer[w].snap, row) THEN "insert" ELSE "write"
             saved == writer[w].snap.filled <= row.filledQty
  <1>1. writer'[w] = [writer[w] EXCEPT !.row = row, !.saved = saved, !.pc = pc]
    BY OthersStay DEF SnapRead
  <1>2. writer[w] \in Local
    BY DEF TypeOK
  <1>3. /\ writer'[w].row = row /\ writer'[w].saved = saved /\ writer'[w].pc = pc
        /\ SameCall(w)
    BY <1>1, <1>2 DEF Local, SameCall
  <1> QED
    BY <1>3, OthersStay DEF SnapRead, dbVars

\* The steps of a driver between the SELECT and the UPDATE of the row.
MidStep(w) == InsertFill(w) \/ InsertFails(w) \/ ApplyFill(w) \/ ApplyFails(w)

LEMMA MidFields ==
    ASSUME TypeOK, NEW w \in Writers, MidStep(w)
    PROVE  /\ Others(w) /\ SameCall(w)
           /\ writer[w].pc \in {"insert", "apply"}
           /\ writer'[w].pc \in {"apply", "write"}
           /\ writer'[w].row = writer[w].row
           /\ writer'[w].saved = IF InsertFill(w) THEN TRUE ELSE writer[w].saved
           /\ UNCHANGED <<broker, orders, crashes>>
  <1>1. writer[w] \in Local
    BY DEF TypeOK
  <1>2. CASE InsertFill(w)
    <2>1. writer'[w] = [writer[w] EXCEPT !.pc = "apply", !.saved = TRUE]
      BY <1>2, OthersStay DEF InsertFill
    <2> QED
      BY <1>1, <1>2, <2>1, OthersStay DEF InsertFill, Local, SameCall
  <1>3. CASE ~InsertFill(w) /\ MidStep(w)
    <2>1. writer'[w] = [writer[w] EXCEPT !.pc = "write"]
      BY <1>3, OthersStay DEF MidStep, InsertFails, ApplyFill, ApplyFails
    <2> QED
      BY <1>1, <1>3, <2>1, OthersStay
         DEF MidStep, InsertFails, ApplyFill, ApplyFails, Local, SameCall, dbVars
  <1> QED
    BY <1>2, <1>3

\* A driver that ends its work.
EndStep(w) == WriteRow(w) \/ WriteFails(w) \/ CloseWrite(w)

LEMMA EndFields ==
    ASSUME TypeOK, NEW w \in Writers, EndStep(w)
    PROVE  /\ Others(w) /\ writer'[w] = Idle
           /\ UNCHANGED <<broker, fills, applied, booked>>
  BY OthersStay DEF EndStep, WriteRow, WriteFails, CloseWrite, dbVars

LEMMA IdleFields ==
    /\ Idle.pc = "idle" /\ Idle.order \in Orders
    /\ Idle.snap = [status |-> "OPEN", filled |-> 0]
    /\ Idle.row = [status |-> "SUBMITTED", filledQty |-> 0]
  BY LedgerAssumption DEF Idle

\* The broker changes nothing but its own order.
LEMMA BrokerFields ==
    ASSUME NEW o \in Orders, BrokerStep(o)
    PROVE  UNCHANGED <<orders, fills, applied, booked, writer, crashes>>
  BY DEF BrokerStep, Executes, CancelRequested, Ends, BookClears, dbVars

\* A step of the whole system, sorted by what it touches.
LEMMA StepCases ==
    ASSUME [Next]_vars
    PROVE  \/ UNCHANGED vars
           \/ \E o \in Orders : BrokerStep(o)
           \/ \E w \in Writers, o \in Orders : Fetch(w, o) \/ CloseRead(w, o)
           \/ \E w \in Writers : SnapRead(w) \/ MidStep(w) \/ EndStep(w)
           \/ ApplyPending
           \/ Crash
  BY DEF Next, SnapshotStep, MidStep, EndStep

-----------------------------------------------------------------------------
(***************************************************************************)
(* Drivers that take turns: a row never goes back                          *)
(***************************************************************************)
InTurn(me) == me.pc \in {"insert", "apply", "write"}

\* An order the broker or a snapshot calls COMPLETE is executed in full.
Full(b) == b.filled <= Qty /\ (b.status = "COMPLETE" => b.filled = Qty)
FullRow(r) == r.filledQty <= Qty /\ (r.status = "FILLED" => r.filledQty = Qty)

\* One call at a time is between the SELECT and the UPDATE of an order.
OneTurn ==
    \A v, w \in Writers :
        InTurn(writer[v]) /\ InTurn(writer[w]) /\ writer[v].order = writer[w].order
            => v = w

\* What that call read is still what the row says.
Current(w) ==
    InTurn(writer[w]) =>
        /\ orders[writer[w].order].filledQty = writer[w].row.filledQty
        /\ orders[writer[w].order].status = "FILLED" => writer[w].row.status = "FILLED"

\* A call that closes an order has read a working row.
ReadOpen(me) == me.pc = "close" => me.row.status \in OPEN_ORDER_STATUSES

TurnInv ==
    /\ OneTurn
    /\ \A w \in Writers : /\ Current(w) /\ ReadOpen(writer[w])
                          /\ Full(writer[w].snap) /\ FullRow(writer[w].row)
    /\ \A o \in Orders : Full(broker[o]) /\ FullRow(orders[o])

\* A snapshot that maps to FILLED is an execution in full.
LEMMA MapFilled ==
    ASSUME NEW s \in KiteStatus, NEW f \in Nat, NEW q \in Nat, f <= q,
           s = "COMPLETE" => f = q, mapKiteOrderStatus(s, f, q) = "FILLED"
    PROVE  f = q
  <1>1. CASE s = "COMPLETE"
    BY <1>1
  <1>2. CASE s = "OPEN"
    <2>1. ~(f >= q /\ q > 0) => mapKiteOrderStatus(s, f, q) \in {"PARTIALLY_FILLED", "ACCEPTED"}
      BY <1>2 DEF mapKiteOrderStatus
    <2> QED
      BY <2>1
  <1>3. CASE s \notin {"COMPLETE", "OPEN"}
    BY <1>3 DEF mapKiteOrderStatus, KiteStatus
  <1> QED
    BY <1>1, <1>2, <1>3

\* The UPDATE neither lowers the quantity nor leaves FILLED.
LEMMA WrittenKeeps ==
    ASSUME TypeOK, TurnInv, NEW w \in Writers, InTurn(writer[w]),
           NEW r, r = Written(w, orders[writer[w].order])
    PROVE  /\ FullRow(r)
           /\ r.filledQty >= orders[writer[w].order].filledQty
           /\ orders[writer[w].order].status = "FILLED" => r.status = "FILLED"
  <1> DEFINE me == writer[w]
             now == orders[writer[w].order]
             next == NextStatus(me.snap)
             to == commitBrokerFillProgress(me.row.filledQty, me.snap.filled, me.saved,
                                            me.row.status, next)
  <1>0. /\ me.row.filledQty \in Nat /\ me.snap.filled \in Nat /\ now.filledQty \in Nat
        /\ Qty \in Nat /\ me.order \in Orders /\ me.snap.status \in KiteStatus
    BY LedgerAssumption DEF TypeOK, Local, Snapshot, OrderRow
  <1>1. /\ Full(me.snap) /\ FullRow(me.row) /\ FullRow(now)
        /\ now.filledQty = me.row.filledQty
        /\ now.status = "FILLED" => me.row.status = "FILLED"
    BY <1>0 DEF TurnInv, Current
  <1>2. next = "FILLED" => me.snap.filled = Qty
    BY <1>0, <1>1, MapFilled DEF NextStatus, Full
  <1>3. /\ r.filledQty = to.filledQty
        /\ r.status = IF to.status # me.row.status \/ to.status = "PARTIALLY_FILLED"
                      THEN to.status ELSE now.status
    BY DEF Written
  <1> HIDE DEF next, now, me
  <1>4. CASE me.snap.filled > me.row.filledQty /\ ~me.saved
    <2>1. /\ to.filledQty = me.row.filledQty
          /\ to.status = IF next \in {"FILLED", "PARTIALLY_FILLED"} THEN me.row.status
                         ELSE next
      BY <1>4 DEF commitBrokerFillProgress
    <2>2. me.row.status # "FILLED"
      BY <1>0, <1>1, <1>4 DEF FullRow, Full
    <2>3. r.status # "FILLED" /\ now.status # "FILLED"
      BY <1>1, <1>3, <2>1, <2>2
    <2> QED
      BY <1>0, <1>1, <1>3, <2>1, <2>3 DEF FullRow, now
  <1>5. CASE ~(me.snap.filled > me.row.filledQty /\ ~me.saved)
    <2>1. /\ to.filledQty = IF me.snap.filled > me.row.filledQty THEN me.snap.filled
                            ELSE me.row.filledQty
          /\ to.status = IF me.row.status = "FILLED" THEN "FILLED" ELSE next
      BY <1>5 DEF commitBrokerFillProgress
    <2>2. r.filledQty >= now.filledQty /\ r.filledQty <= Qty
      BY <1>0, <1>1, <1>3, <2>1 DEF Full, FullRow
    <2>3. now.status = "FILLED" => r.status = "FILLED"
      BY <1>1, <1>3, <2>1
    <2>4. ASSUME r.status = "FILLED" PROVE r.filledQty = Qty
      <3>1. CASE me.row.status = "FILLED" \/ now.status = "FILLED"
        <4>1. me.row.filledQty = Qty
          BY <1>1, <3>1 DEF FullRow
        <4>2. me.snap.filled <= Qty
          BY <1>1 DEF Full
        <4> QED
          BY <1>0, <1>3, <2>1, <4>1, <4>2
      <3>2. CASE me.row.status # "FILLED" /\ now.status # "FILLED"
        <4>1. next = "FILLED"
          BY <1>3, <2>1, <2>4, <3>2
        <4>2. me.row.filledQty <= Qty
          BY <1>1 DEF FullRow
        <4> QED
          BY <1>0, <1>2, <1>3, <2>1, <4>1, <4>2
      <3> QED
        BY <3>1, <3>2
    <2> QED
      BY <2>2, <2>3, <2>4 DEF FullRow, now
  <1> QED
    BY <1>4, <1>5

\* A step of one driver that leaves rows and broker alone.
LEMMA TurnMove ==
    ASSUME TypeOK, TurnInv, UNCHANGED <<broker, orders>>, NEW w \in Writers, Others(w),
           Full(writer'[w].snap), FullRow(writer'[w].row), ReadOpen(writer'[w]),
           InTurn(writer'[w]) =>
               \/ /\ InTurn(writer[w]) /\ writer'[w].order = writer[w].order
                  /\ writer'[w].row = writer[w].row
               \/ /\ ~Between(writer'[w].order)
                  /\ writer'[w].row = orders[writer'[w].order]
    PROVE  TurnInv'
  <1>1. OneTurn'
    <2> SUFFICES ASSUME NEW u \in Writers, NEW v \in Writers, InTurn(writer'[u]),
                        InTurn(writer'[v]), writer'[u].order = writer'[v].order
                 PROVE  u = v
      BY DEF OneTurn, InTurn
    <2> QED
      BY DEF TurnInv, OneTurn, Others, Between, InTurn
  <1>2. \A v \in Writers : Current(v)'
    BY DEF TurnInv, Current, Others
  <1>3. \A v \in Writers : /\ Full(writer'[v].snap) /\ FullRow(writer'[v].row)
                          /\ ReadOpen(writer'[v])
    BY DEF TurnInv, Others
  <1> QED
    BY <1>1, <1>2, <1>3 DEF TurnInv, Full, FullRow, ReadOpen

\* The row of an order is written by a driver that then rests.
LEMMA TurnWrite ==
    ASSUME TypeOK, TurnInv, UNCHANGED broker, NEW w \in Writers, Others(w),
           writer'[w] = Idle, NEW r, FullRow(r),
           orders' = [orders EXCEPT ![writer[w].order] = r],
           \A v \in Writers \ {w} :
               InTurn(writer[v]) /\ writer[v].order = writer[w].order =>
                   /\ r.filledQty = writer[v].row.filledQty
                   /\ r.status = "FILLED" => writer[v].row.status = "FILLED"
    PROVE  TurnInv'
  <1>0. ~InTurn(Idle) /\ Full(Idle.snap) /\ FullRow(Idle.row) /\ ReadOpen(Idle)
    BY IdleFields, LedgerAssumption DEF InTurn, Full, FullRow, ReadOpen
  <1>1. \A o \in Orders : orders'[o] = IF o = writer[w].order THEN r ELSE orders[o]
    BY DEF TypeOK
  <1>2. \A v \in Writers : writer[v].order \in Orders
    BY DEF TypeOK, Local
  <1>3. OneTurn'
    <2> SUFFICES ASSUME NEW u \in Writers, NEW v \in Writers, InTurn(writer'[u]),
                        InTurn(writer'[v]), writer'[u].order = writer'[v].order
                 PROVE  u = v
      BY DEF OneTurn, InTurn
    <2> QED
      BY <1>0 DEF TurnInv, OneTurn, Others
  <1>4. ASSUME NEW v \in Writers PROVE Current(v)'
    <2>1. CASE v = w
      BY <1>0, <2>1 DEF Current, InTurn
    <2>2. CASE v # w
      <3>1. writer'[v] = writer[v]
        BY <2>2 DEF Others
      <3> QED
        BY <1>1, <1>2, <2>2, <3>1 DEF Current, TurnInv
    <2> QED
      BY <2>1, <2>2
  <1>5. \A v \in Writers : /\ Full(writer'[v].snap) /\ FullRow(writer'[v].row)
                          /\ ReadOpen(writer'[v])
    BY <1>0 DEF TurnInv, Others
  <1>6. \A o \in Orders : FullRow(orders'[o])
    BY <1>1 DEF TurnInv
  <1> QED
    BY <1>3, <1>4, <1>5, <1>6 DEF TurnInv, Full, FullRow, ReadOpen

\* An order at the broker only ever executes more, up to its quantity.
LEMMA BrokerGrows ==
    ASSUME TypeOK, \A p \in Orders : Full(broker[p]), NEW o \in Orders, BrokerStep(o)
    PROVE  /\ \A p \in Orders : Full(broker'[p]) /\ broker[p].filled <= broker'[p].filled
           /\ broker' = [broker EXCEPT ![o] = broker'[o]]
           /\ Executes(o) \/ broker'[o].filled = broker[o].filled
  <1> USE LedgerAssumption
  <1>0. broker[o].filled \in Nat /\ \A p \in Orders : broker[p].filled \in Nat
    BY DEF TypeOK
  <1>1. CASE Executes(o)
    <2>1. PICK q \in (IF Partial THEN broker[o].filled + 1 .. Qty ELSE {Qty}) :
              broker' = [broker EXCEPT ![o] = [broker[o] EXCEPT !.filled = q,
                  !.status = IF q = Qty THEN "COMPLETE" ELSE broker[o].status]]
      BY <1>1 DEF Executes
    <2>2. broker'[o].filled = q /\ (broker'[o].status = "COMPLETE" => q = Qty)
      <3>1. broker[o].status # "COMPLETE"
        BY <1>1 DEF Executes
      <3> QED
        BY <2>1, <3>1 DEF TypeOK
    <2>3. q \in Nat /\ q <= Qty /\ broker[o].filled <= q
      BY <1>0, <2>1 DEF Full
    <2>4. \A p \in Orders \ {o} : broker'[p] = broker[p]
      BY <2>1 DEF TypeOK
    <2>5. broker' = [broker EXCEPT ![o] = broker'[o]]
      BY <2>1 DEF TypeOK
    <2>6. Full(broker'[o])
      BY <2>2, <2>3 DEF Full
    <2> QED
      BY <1>0, <1>1, <2>2, <2>3, <2>4, <2>5, <2>6
  <1>2. CASE CancelRequested(o) \/ Ends(o) \/ BookClears(o)
    <2>1. PICK b : /\ broker' = [broker EXCEPT ![o] = b]
                   /\ b.filled = broker[o].filled
                   /\ b.status = "COMPLETE" => broker[o].status = "COMPLETE"
      <3>1. CASE CancelRequested(o)
        <4> WITNESS [broker[o] EXCEPT !.status = "CANCEL PENDING"]
        <4> QED
          BY <3>1 DEF CancelRequested, TypeOK
      <3>2. CASE Ends(o)
        <4>1. PICK s \in EndStatuses :
                broker' = [broker EXCEPT ![o] = [broker[o] EXCEPT !.status = s]]
          BY <3>2 DEF Ends
        <4>2. s # "COMPLETE"
          OBVIOUS
        <4> WITNESS [broker[o] EXCEPT !.status = s]
        <4> QED
          BY <4>1, <4>2 DEF TypeOK
      <3>3. CASE BookClears(o)
        <4> DEFINE s == IF broker[o].status \in {"OPEN", "CANCEL PENDING"}
                        THEN "CANCELLED" ELSE broker[o].status
        <4>1. broker' = [broker EXCEPT ![o] =
                            [broker[o] EXCEPT !.gone = TRUE, !.status = s]]
          BY <3>3 DEF BookClears
        <4>2. s = "COMPLETE" => broker[o].status = "COMPLETE"
          OBVIOUS
        <4> HIDE DEF s
        <4> WITNESS [broker[o] EXCEPT !.gone = TRUE, !.status = s]
        <4> QED
          BY <4>1, <4>2 DEF TypeOK
      <3> QED
        BY <1>2, <3>1, <3>2, <3>3
    <2>2. broker'[o] = b /\ \A p \in Orders \ {o} : broker'[p] = broker[p]
      BY <2>1 DEF TypeOK
    <2>3. Full(b)
      BY <2>1 DEF Full
    <2>4. \A p \in Orders : Full(broker'[p]) /\ broker[p].filled <= broker'[p].filled
      <3> SUFFICES ASSUME NEW p \in Orders
                   PROVE  Full(broker'[p]) /\ broker[p].filled <= broker'[p].filled
        OBVIOUS
      <3>1. CASE p = o
        BY <1>0, <2>1, <2>2, <2>3, <3>1
      <3>2. CASE p # o
        BY <1>0, <2>2, <3>2
      <3> QED
        BY <3>1, <3>2
    <2>5. broker' = [broker EXCEPT ![o] = broker'[o]]
      BY <2>1, <2>2
    <2> QED
      BY <2>1, <2>2, <2>4, <2>5
  <1> QED
    BY <1>1, <1>2 DEF BrokerStep

LEMMA CloseWriteFields ==
    ASSUME TypeOK, NEW w \in Writers, CloseWrite(w)
    PROVE  \E r : /\ orders' = [orders EXCEPT ![writer[w].order] = r]
                  /\ r.filledQty = orders[writer[w].order].filledQty
                  /\ \/ r.status = orders[writer[w].order].status
                     \/ /\ r.status = "CANCELLED"
                        /\ orders[writer[w].order] = writer[w].row
  <1> DEFINE now == orders[writer[w].order]
             r == IF now = writer[w].row THEN [now EXCEPT !.status = "CANCELLED"] ELSE now
  <1>1. orders' = [orders EXCEPT ![writer[w].order] = r]
    BY DEF CloseWrite
  <1>2. now \in OrderRow
    BY DEF TypeOK, Local
  <1>3. r.filledQty = now.filledQty /\ (r.status = now.status \/
                                        (r.status = "CANCELLED" /\ now = writer[w].row))
    BY <1>2 DEF OrderRow
  <1> HIDE DEF r
  <1> QED
    BY <1>1, <1>3

LEMMA TurnInit == Init => TurnInv
  BY IdleFields, LedgerAssumption
     DEF Init, TurnInv, OneTurn, Current, Full, FullRow, InTurn, ReadOpen

LEMMA TurnStep ==
    ASSUME ~Overlap, TypeOK, TurnInv, [Next]_vars
    PROVE  TurnInv'
  <1>0. /\ \A w \in Writers : /\ Full(writer[w].snap) /\ FullRow(writer[w].row)
                              /\ writer[w].order \in Orders
        /\ \A o \in Orders : Full(broker[o]) /\ FullRow(orders[o])
    BY DEF TurnInv, TypeOK, Local
  <1>1. CASE UNCHANGED <<broker, orders, writer>>
    BY <1>1 DEF TurnInv, OneTurn, Current, Full, FullRow, InTurn, ReadOpen
  <1>2. ASSUME NEW o \in Orders, BrokerStep(o) PROVE TurnInv'
    <2>1. UNCHANGED <<orders, writer>>
      BY <1>2, BrokerFields
    <2>2. \A p \in Orders : Full(broker'[p])
      BY <1>0, <1>2, BrokerGrows
    <2> QED
      BY <2>1, <2>2 DEF TurnInv, OneTurn, Current, Full, FullRow, InTurn, ReadOpen
  <1>3. ASSUME NEW w \in Writers, NEW o \in Orders, Fetch(w, o) PROVE TurnInv'
    <2>1. /\ Others(w) /\ UNCHANGED <<broker, orders>> /\ writer'[w].pc = "read"
          /\ writer'[w].row = writer[w].row
          /\ writer'[w].snap = [status |-> broker[o].status, filled |-> broker[o].filled]
      BY <1>3, FetchFields
    <2>2. Full(writer'[w].snap)
      BY <1>0, <2>1 DEF Full
    <2> QED
      BY <1>0, <2>1, <2>2, TurnMove DEF InTurn, ReadOpen
  <1>4. ASSUME NEW w \in Writers, NEW o \in Orders, CloseRead(w, o) PROVE TurnInv'
    <2>1. /\ Others(w) /\ UNCHANGED <<broker, orders>> /\ writer'[w].pc = "close"
          /\ writer'[w].row = orders[o] /\ writer'[w].snap = writer[w].snap
          /\ orders[o].status \in OPEN_ORDER_STATUSES
      BY <1>4, CloseReadFields
    <2> QED
      BY <1>0, <2>1, TurnMove DEF InTurn, ReadOpen
  <1>5. ASSUME NEW w \in Writers, SnapRead(w) PROVE TurnInv'
    <2>1. /\ Others(w) /\ SameCall(w) /\ ~Between(writer[w].order)
          /\ writer'[w].pc # "close" /\ UNCHANGED <<broker, orders>> /\ writer'[w].row = orders[writer[w].order]
      BY <1>5, SnapReadFields
    <2> QED
      BY <1>0, <2>1, TurnMove DEF SameCall, ReadOpen
  <1>6. ASSUME NEW w \in Writers, MidStep(w) PROVE TurnInv'
    <2>1. /\ Others(w) /\ SameCall(w) /\ InTurn(writer[w])
          /\ writer'[w].pc # "close" /\ UNCHANGED <<broker, orders>> /\ writer'[w].row = writer[w].row
      BY <1>6, MidFields DEF InTurn
    <2> QED
      BY <1>0, <2>1, TurnMove DEF SameCall, ReadOpen
  <1>7. ASSUME NEW w \in Writers, WriteRow(w) PROVE TurnInv'
    <2> DEFINE r == Written(w, orders[writer[w].order])
    <2>1. /\ Others(w) /\ writer'[w] = Idle /\ UNCHANGED broker
          /\ orders' = [orders EXCEPT ![writer[w].order] = r]
      BY <1>7, EndFields DEF EndStep, WriteRow
    <2>2. InTurn(writer[w])
      BY <1>7 DEF WriteRow, InTurn
    <2>3. FullRow(r)
      BY <2>2, WrittenKeeps
    <2>4. \A v \in Writers \ {w} :
              ~(InTurn(writer[v]) /\ writer[v].order = writer[w].order)
      BY <2>2 DEF TurnInv, OneTurn
    <2> HIDE DEF r
    <2> QED
      BY <2>1, <2>3, <2>4, TurnWrite
  <1>8. ASSUME NEW w \in Writers, CloseWrite(w) PROVE TurnInv'
    <2>1. PICK r : /\ orders' = [orders EXCEPT ![writer[w].order] = r]
                   /\ r.filledQty = orders[writer[w].order].filledQty
                   /\ \/ r.status = orders[writer[w].order].status
                      \/ /\ r.status = "CANCELLED"
                         /\ orders[writer[w].order] = writer[w].row
      BY <1>8, CloseWriteFields
    <2>2. Others(w) /\ writer'[w] = Idle /\ UNCHANGED broker
      BY <1>8, EndFields DEF EndStep
    <2>3. FullRow(r)
      BY <1>0, <2>1 DEF FullRow
    <2>4. \A v \in Writers \ {w} :
               InTurn(writer[v]) /\ writer[v].order = writer[w].order =>
                   /\ r.filledQty = writer[v].row.filledQty
                   /\ r.status = "FILLED" => writer[v].row.status = "FILLED"
      BY <2>1 DEF TurnInv, Current
    <2> QED
      BY <2>1, <2>2, <2>3, <2>4, TurnWrite
  <1>9. ASSUME NEW w \in Writers, WriteFails(w) PROVE TurnInv'
    <2>1. Others(w) /\ writer'[w] = Idle /\ UNCHANGED <<broker, orders>>
      BY <1>9, EndFields DEF EndStep, WriteFails, dbVars
    <2> QED
      BY <2>1, IdleFields, LedgerAssumption, TurnMove DEF InTurn, Full, FullRow, ReadOpen
  <1>10. ASSUME Crash PROVE TurnInv'
    <2>1. \A w \in Writers : ~InTurn(writer'[w]) /\ Full(writer'[w].snap)
                             /\ FullRow(writer'[w].row) /\ ReadOpen(writer'[w])
      BY <1>10, IdleFields, LedgerAssumption DEF Crash, InTurn, Full, FullRow, ReadOpen
    <2>2. UNCHANGED <<broker, orders>>
      BY <1>10 DEF Crash, dbVars
    <2> QED
      BY <1>0, <2>1, <2>2 DEF TurnInv, OneTurn, Current, InTurn, Full, FullRow, ReadOpen
  <1>11. ASSUME ApplyPending PROVE TurnInv'
    BY <1>1, <1>11 DEF ApplyPending
  <1> QED
    BY <1>1, <1>2, <1>3, <1>4, <1>5, <1>6, <1>7, <1>8, <1>9, <1>10, <1>11, StepCases
       DEF EndStep, vars

\* What ProgressKept says of one order.
Keeps(o) == /\ orders[o].status = "FILLED" => orders'[o].status = "FILLED"
            /\ orders'[o].filledQty >= orders[o].filledQty

LEMMA KeepsSame ==
    ASSUME TypeOK, NEW o \in Orders, orders'[o] = orders[o]
    PROVE  Keeps(o)
  <1>1. orders[o].filledQty \in Nat
    BY DEF TypeOK, OrderRow
  <1> QED
    BY <1>1 DEF Keeps

\* Drivers that take turns on an order never take its row back: FILLED stays
\* FILLED and the quantity never shrinks, whatever older snapshots arrive and
\* through failing statements, restarts and the overnight close.
THEOREM ProgressKeptInTurns ==
    ASSUME ~Overlap PROVE Spec => ProgressKept
  <1>1. Init => TypeOK /\ PendingIsNew /\ TurnInv
    BY TypeInit, TurnInit
  <1>2. TypeOK /\ PendingIsNew /\ TurnInv /\ [Next]_vars =>
            (TypeOK /\ PendingIsNew /\ TurnInv)'
    BY TypeStep, PendingStep, TurnStep
  <1>3. TypeOK /\ TurnInv /\ [Next]_vars => [\A o \in Orders : Keeps(o)]_vars
    <2> SUFFICES ASSUME TypeOK, TurnInv, [Next]_vars, NEW o \in Orders PROVE Keeps(o)
      OBVIOUS
    <2>0. orders[o].filledQty \in Nat
      BY DEF TypeOK, OrderRow
    <2>1. CASE UNCHANGED orders
      BY <2>1, KeepsSame
    <2>2. ASSUME NEW w \in Writers, WriteRow(w) PROVE Keeps(o)
      <3> DEFINE r == Written(w, orders[writer[w].order])
      <3>1. orders' = [orders EXCEPT ![writer[w].order] = r]
        BY <2>2 DEF WriteRow
      <3>2. InTurn(writer[w]) /\ writer[w].order \in Orders
        BY <2>2 DEF WriteRow, InTurn, TypeOK, Local
      <3>3. /\ r.filledQty >= orders[writer[w].order].filledQty
            /\ orders[writer[w].order].status = "FILLED" => r.status = "FILLED"
        BY <3>2, WrittenKeeps
      <3> HIDE DEF r
      <3>4. CASE o = writer[w].order
        <4>1. orders'[o] = r
          BY <3>1, <3>4 DEF TypeOK
        <4> QED
          BY <3>3, <3>4, <4>1 DEF Keeps
      <3>5. CASE o # writer[w].order
        BY <3>1, <3>5, KeepsSame DEF TypeOK
      <3> QED
        BY <3>4, <3>5
    <2>3. ASSUME NEW w \in Writers, CloseWrite(w) PROVE Keeps(o)
      <3>1. PICK r : /\ orders' = [orders EXCEPT ![writer[w].order] = r]
                     /\ r.filledQty = orders[writer[w].order].filledQty
                     /\ \/ r.status = orders[writer[w].order].status
                        \/ /\ r.status = "CANCELLED"
                           /\ orders[writer[w].order] = writer[w].row
        BY <2>3, CloseWriteFields
      <3>2. writer[w].row.status # "FILLED" /\ writer[w].order \in Orders
        <4>1. writer[w].pc = "close"
          BY <2>3 DEF CloseWrite
        <4> QED
          BY <4>1 DEF TurnInv, ReadOpen, OPEN_ORDER_STATUSES, TypeOK, Local
      <3>3. CASE o = writer[w].order
        <4>1. orders'[o] = r
          BY <3>1, <3>3 DEF TypeOK
        <4> QED
          BY <2>0, <3>1, <3>2, <3>3, <4>1 DEF Keeps
      <3>4. CASE o # writer[w].order
        BY <3>1, <3>4, KeepsSame DEF TypeOK
      <3> QED
        BY <3>3, <3>4
    <2> QED
      BY <2>1, <2>2, <2>3, StepCases, BrokerFields, FetchFields, CloseReadFields,
         SnapReadFields, MidFields
         DEF EndStep, WriteFails, ApplyPending, Crash, dbVars, vars
  <1>4. (\A o \in Orders : Keeps(o)) =>
            \A o \in Orders :
                /\ orders[o].status = "FILLED" => orders'[o].status = "FILLED"
                /\ orders'[o].filledQty >= orders[o].filledQty
    BY DEF Keeps
  <1> QED
    BY <1>1, <1>2, <1>3, <1>4, PTL DEF Spec, ProgressKept

-----------------------------------------------------------------------------
(***************************************************************************)
(* Drivers that take turns: orders executed in parts are booked once       *)
(***************************************************************************)

\* The units of its order that a fill stands for, counted as executed.
Units(f) == f.upTo - f.qty + 1 .. f.upTo
UnitsOf(A, o) == UNION {Units(f) : f \in {g \in A : g.order = o}}

Apart(f, g) == f.upTo <= g.upTo - g.qty \/ g.upTo <= f.upTo - f.qty

\* A driver has saved this fill and has yet to write the quantity to the row.
Saving(me, f) ==
    /\ me.pc \in {"apply", "write"} /\ me.saved
    /\ me.order = f.order /\ me.snap.filled = f.upTo
    /\ me.row.filledQty < me.snap.filled

\* Fills stand for executed units, no two for the same one; a row's quantity
\* has caught up with its fills but for a driver under way; and the position was
\* moved by the number of units whose fill is applied.  A sum of quantities
\* becomes a number of units, which is what the prover can count.
Executed == \A f \in fills : f.qty <= f.upTo /\ f.upTo <= broker[f.order].filled
Disjoint == \A f, g \in fills : f.order = g.order /\ f # g => Apart(f, g)
CaughtUp == \A f \in fills : \/ f.upTo <= orders[f.order].filledQty
                             \/ \E w \in Writers : Saving(writer[w], f)
Seen(me, B) == me.pc \in {"read", "insert", "apply", "write"} =>
                   me.snap.filled <= B[me.order].filled
Counted == \A o \in Orders : booked[o] = Cardinality(UnitsOf(applied, o))

UnitInv ==
    /\ Executed /\ Disjoint /\ CaughtUp /\ Counted
    /\ \A w \in Writers : Seen(writer[w], broker)

LEMMA UnitsFinite ==
    ASSUME NEW A \in SUBSET Fill, NEW o, NEW n \in Nat,
           \A f \in A : f.order = o => f.qty <= f.upTo /\ f.upTo <= n
    PROVE  /\ UnitsOf(A, o) \subseteq 1 .. n
           /\ IsFiniteSet(UnitsOf(A, o))
           /\ Cardinality(UnitsOf(A, o)) \in Nat
           /\ Cardinality(UnitsOf(A, o)) <= n
  <1>1. ASSUME NEW f \in A, f.order = o PROVE Units(f) \subseteq 1 .. n
    <2>1. f.qty \in Nat /\ f.upTo \in Nat
      BY DEF Fill
    <2> QED
      BY <1>1, <2>1 DEF Units
  <1>2. UnitsOf(A, o) \subseteq 1 .. n
    BY <1>1 DEF UnitsOf
  <1>3. IsFiniteSet(1 .. n) /\ Cardinality(1 .. n) = n
    BY FS_Interval
  <1> QED
    BY <1>2, <1>3, FS_Subset, FS_CardinalityType

\* A fill whose units are new moves the count by its quantity.
LEMMA UnitsAdd ==
    ASSUME NEW A \in SUBSET Fill, NEW f \in Fill, f.qty <= f.upTo,
           IsFiniteSet(UnitsOf(A, f.order)),
           \A g \in A : g.order = f.order => Apart(f, g)
    PROVE  Cardinality(UnitsOf(A \cup {f}, f.order))
               = Cardinality(UnitsOf(A, f.order)) + f.qty
  <1>0. f.qty \in Nat /\ f.upTo \in Nat
    BY DEF Fill
  <1>1. UnitsOf(A \cup {f}, f.order) = UnitsOf(A, f.order) \cup Units(f)
    BY DEF UnitsOf
  <1>2. ASSUME NEW g \in A, g.order = f.order PROVE Units(g) \cap Units(f) = {}
    <2>1. g.qty \in Nat /\ g.upTo \in Nat
      BY DEF Fill
    <2>2. Apart(f, g)
      BY <1>2
    <2> QED
      BY <1>0, <2>1, <2>2 DEF Units, Apart
  <1>3. UnitsOf(A, f.order) \cap Units(f) = {}
    BY <1>2 DEF UnitsOf
  <1>4. IsFiniteSet(Units(f)) /\ Cardinality(Units(f)) = f.qty
    <2>1. /\ f.upTo - f.qty + 1 \in Int /\ f.upTo \in Int
      BY <1>0
    <2>2. /\ IsFiniteSet(f.upTo - f.qty + 1 .. f.upTo)
          /\ Cardinality(f.upTo - f.qty + 1 .. f.upTo)
                 = IF f.upTo - f.qty + 1 > f.upTo THEN 0
                   ELSE f.upTo - (f.upTo - f.qty + 1) + 1
      BY <2>1, FS_Interval
    <2> QED
      BY <1>0, <2>2 DEF Units
  <1>5. Cardinality(UnitsOf(A, f.order)) \in Nat /\ Cardinality({}) = 0
    BY FS_CardinalityType, FS_EmptySet
  <1>6. Cardinality(UnitsOf(A, f.order) \cup Units(f))
            = Cardinality(UnitsOf(A, f.order)) + Cardinality(Units(f)) - Cardinality({})
    BY <1>3, <1>4, FS_Union
  <1>7. Cardinality(UnitsOf(A \cup {f}, f.order))
            = Cardinality(UnitsOf(A, f.order)) + f.qty - 0
    BY <1>1, <1>4, <1>5, <1>6, Zenon
  <1> QED
    BY <1>0, <1>5, <1>7

LEMMA UnitsOther ==
    ASSUME NEW A, NEW f, NEW o, o # f.order
    PROVE  UnitsOf(A \cup {f}, o) = UnitsOf(A, o)
  BY DEF UnitsOf

LEMMA UnitsBound ==
    ASSUME TypeOK, Executed, NEW o \in Orders
    PROVE  /\ IsFiniteSet(UnitsOf(applied, o))
           /\ Cardinality(UnitsOf(applied, o)) \in Nat
           /\ Cardinality(UnitsOf(applied, o)) <= broker[o].filled
  <1>1. applied \in SUBSET Fill /\ applied \subseteq fills /\ broker[o].filled \in Nat
    BY DEF TypeOK
  <1>2. \A f \in applied : f.order = o => f.qty <= f.upTo /\ f.upTo <= broker[o].filled
    BY <1>1 DEF Executed
  <1> QED
    BY <1>1, <1>2, UnitsFinite

\* The transaction of applyFillById keeps the count.
LEMMA ApplyCounts ==
    ASSUME TypeOK, Executed, Disjoint, Counted, NEW f \in fills, ApplyTransaction(f)
    PROVE  /\ Counted'
           /\ \/ UNCHANGED booked
              \/ booked' = [booked EXCEPT ![f.order] = booked[f.order] + f.qty]
  <1>0. /\ f \in Fill /\ f.order \in Orders /\ applied \in SUBSET Fill
        /\ applied \subseteq fills
    BY DEF TypeOK, Fill
  <1>1. CASE f \in applied
    BY <1>1 DEF ApplyTransaction, Counted
  <1>2. CASE f \notin applied
    <2>1. /\ applied' = applied \cup {f}
          /\ booked' = [booked EXCEPT ![f.order] = booked[f.order] + f.qty]
      BY <1>2 DEF ApplyTransaction
    <2>2. \A g \in applied : g.order = f.order => Apart(f, g)
      BY <1>0, <1>2 DEF Disjoint
    <2>3. f.qty <= f.upTo
      BY DEF Executed
    <2>4. IsFiniteSet(UnitsOf(applied, f.order))
      BY <1>0, UnitsBound
    <2>5. Cardinality(UnitsOf(applied', f.order))
              = Cardinality(UnitsOf(applied, f.order)) + f.qty
      BY <1>0, <2>1, <2>2, <2>3, <2>4, UnitsAdd
    <2>6. ASSUME NEW o \in Orders PROVE booked'[o] = Cardinality(UnitsOf(applied', o))
      <3>1. CASE o = f.order
        BY <1>0, <2>1, <2>5, <3>1 DEF TypeOK, Counted
      <3>2. CASE o # f.order
        <4>1. UnitsOf(applied', o) = UnitsOf(applied, o)
          BY <2>1, <3>2, UnitsOther
        <4>2. booked'[o] = booked[o]
          BY <2>1, <3>2 DEF TypeOK
        <4> QED
          BY <4>1, <4>2 DEF Counted
      <3> QED
        BY <3>1, <3>2
    <2>7. Counted'
      BY <2>6 DEF Counted
    <2> QED
      BY <2>1, <2>7
  <1> QED
    BY <1>1, <1>2

\* A step of one driver that leaves fills, positions and quantities alone.
LEMMA UnitMove ==
    ASSUME TypeOK, UnitInv, UNCHANGED <<broker, orders, fills, applied, booked>>,
           NEW w \in Writers, Others(w), Seen(writer'[w], broker),
           \A f \in fills : Saving(writer[w], f) => Saving(writer'[w], f)
    PROVE  UnitInv'
  <1>1. CaughtUp'
    <2> SUFFICES ASSUME NEW f \in fills, ~(f.upTo <= orders[f.order].filledQty)
                 PROVE  \E v \in Writers : Saving(writer'[v], f)
      BY DEF CaughtUp, Saving
    <2>1. PICK v \in Writers : Saving(writer[v], f)
      BY DEF UnitInv, CaughtUp
    <2> QED
      BY <2>1 DEF Others
  <1>2. \A v \in Writers : Seen(writer'[v], broker)
    BY DEF UnitInv, Others
  <1> QED
    BY <1>1, <1>2 DEF UnitInv, Executed, Disjoint, Apart, Counted, UnitsOf, Units, Seen

\* The quantity of a saved fill is written to the row.
LEMMA WrittenSaved ==
    ASSUME TypeOK, NEW w \in Writers, NEW current, NEW r, r = Written(w, current)
    PROVE  /\ r.filledQty >= writer[w].row.filledQty
           /\ writer[w].saved /\ writer[w].row.filledQty < writer[w].snap.filled
                  => r.filledQty = writer[w].snap.filled
  <1>1. /\ writer[w].row.filledQty \in Nat /\ writer[w].snap.filled \in Nat
        /\ writer[w].saved \in BOOLEAN
    BY DEF TypeOK, Local, OrderRow, Snapshot
  <1>2. r.filledQty = commitBrokerFillProgress(writer[w].row.filledQty,
                writer[w].snap.filled, writer[w].saved, writer[w].row.status,
                NextStatus(writer[w].snap)).filledQty
    BY DEF Written
  <1> QED
    BY <1>1, <1>2 DEF commitBrokerFillProgress

LEMMA UnitInit == Init => UnitInv
  <1> SUFFICES ASSUME Init PROVE UnitInv
    OBVIOUS
  <1>1. \A o \in Orders : UnitsOf(applied, o) = {}
    BY DEF Init, UnitsOf
  <1>2. Counted
    BY <1>1, FS_EmptySet DEF Init, Counted
  <1> QED
    BY <1>2, IdleFields DEF Init, UnitInv, Executed, Disjoint, CaughtUp, Seen

\* insertFill saves a fill of units that no fill stands for yet.
LEMMA InsertUnits ==
    ASSUME TypeOK, PendingIsNew, TurnInv, UnitInv, NEW w \in Writers, InsertFill(w)
    PROVE  UnitInv'
  <1> DEFINE o == writer[w].order
             new == [order |-> o, upTo |-> writer[w].snap.filled,
                     qty |-> writer[w].snap.filled - writer[w].row.filledQty]
  <1>0. /\ o \in Orders /\ writer[w].snap.filled \in Nat
        /\ writer[w].row.filledQty \in Nat /\ writer[w].pc = "insert"
        /\ writer[w].row.filledQty < writer[w].snap.filled
    BY DEF TypeOK, Local, Snapshot, OrderRow, InsertFill, PendingIsNew
  <1>1. /\ new \in Fill /\ new.order = o /\ new.upTo = writer[w].snap.filled
        /\ new.upTo - new.qty = writer[w].row.filledQty /\ new.qty <= new.upTo
    BY <1>0 DEF Fill
  <1>2. /\ orders[o].filledQty = writer[w].row.filledQty
        /\ \A v \in Writers : InTurn(writer[v]) /\ writer[v].order = o => v = w
    BY <1>0 DEF TurnInv, Current, OneTurn, InTurn
  <1>3. ASSUME NEW f \in fills, f.order = o PROVE f.upTo <= writer[w].row.filledQty
    <2>1. ASSUME NEW v \in Writers, Saving(writer[v], f) PROVE FALSE
      BY <1>0, <1>2, <1>3, <2>1 DEF Saving, InTurn
    <2> QED
      BY <1>2, <1>3, <2>1 DEF UnitInv, CaughtUp
  <1>4. Fingerprinted(w) = {}
    <2> SUFFICES ASSUME NEW f \in fills, f.order = o, f.upTo = writer[w].snap.filled
                 PROVE  FALSE
      BY DEF Fingerprinted
    <2> QED
      BY <1>0, <1>3
  <1>5. fills' = fills \cup {new} /\ UNCHANGED <<broker, orders, applied, booked>>
    BY <1>4 DEF InsertFill
  <1>6. /\ Others(w) /\ SameCall(w) /\ writer'[w].row = writer[w].row
        /\ writer'[w].pc = "apply" /\ writer'[w].saved
    <2>1. writer'[w] = [writer[w] EXCEPT !.pc = "apply", !.saved = TRUE]
      BY OthersStay DEF InsertFill
    <2> QED
      BY <2>1, OthersStay DEF InsertFill, TypeOK, Local, SameCall
  <1>7. Seen(writer[w], broker)
    BY DEF UnitInv
  <1>8. \A f \in fills : f \in Fill
    BY DEF TypeOK
  <1> HIDE DEF new, o
  <1>9. Executed'
    <2>1. new.upTo <= broker[new.order].filled
      BY <1>0, <1>1, <1>7 DEF Seen, o
    <2> QED
      BY <1>1, <1>5, <2>1 DEF UnitInv, Executed
  <1>10. Disjoint'
    <2>1. ASSUME NEW f \in fills, f.order = new.order PROVE Apart(f, new) /\ Apart(new, f)
      BY <1>1, <1>3, <2>1 DEF Apart
    <2> QED
      BY <1>5, <2>1 DEF UnitInv, Disjoint, Apart
  <1>11. CaughtUp'
    <2>1. Saving(writer'[w], new)
      BY <1>0, <1>1, <1>6 DEF Saving, SameCall, o
    <2>2. ASSUME NEW f \in fills, NEW v \in Writers, Saving(writer[v], f)
          PROVE  Saving(writer'[v], f)
      BY <1>0, <1>6, <2>2 DEF Saving, Others
    <2>3. \A f \in fills' : \/ f.upTo <= orders[f.order].filledQty
                            \/ \E v \in Writers : Saving(writer'[v], f)
      BY <1>5, <2>1, <2>2 DEF UnitInv, CaughtUp
    <2> QED
      BY <1>5, <2>3 DEF CaughtUp, Saving
  <1>12. \A v \in Writers : Seen(writer'[v], broker)
    BY <1>0, <1>6, <1>7 DEF UnitInv, Seen, Others, SameCall
  <1>13. Counted'
    BY <1>5 DEF UnitInv, Counted, UnitsOf, Units
  <1> QED
    BY <1>5, <1>9, <1>10, <1>11, <1>12, <1>13 DEF UnitInv, Seen

\* A driver writes the row: the quantity of its saved fill has arrived there.
LEMMA WriteUnits ==
    ASSUME TypeOK, TurnInv, UnitInv, NEW w \in Writers, WriteRow(w)
    PROVE  UnitInv'
  <1> DEFINE r == Written(w, orders[writer[w].order])
  <1>0. /\ writer[w].order \in Orders /\ writer[w].pc = "write"
        /\ orders' = [orders EXCEPT ![writer[w].order] = r]
        /\ \A o \in Orders : orders[o].filledQty \in Nat
        /\ writer[w].snap.filled \in Nat /\ writer[w].row.filledQty \in Nat
    BY DEF WriteRow, TypeOK, Local, OrderRow, Snapshot
  <1>1. Others(w) /\ writer'[w] = Idle /\ UNCHANGED <<broker, fills, applied, booked>>
    BY EndFields DEF EndStep
  <1>2. /\ r.filledQty >= orders[writer[w].order].filledQty
        /\ writer[w].saved /\ writer[w].row.filledQty < writer[w].snap.filled
               => r.filledQty = writer[w].snap.filled
    BY <1>0, WrittenKeeps, WrittenSaved DEF InTurn
  <1>3. r.filledQty \in Nat
    BY <1>0, WrittenType DEF OrderRow
  <1> HIDE DEF r
  <1>4. \A o \in Orders : orders'[o] = IF o = writer[w].order THEN r ELSE orders[o]
    BY <1>0 DEF TypeOK
  <1>5. CaughtUp'
    <2> SUFFICES ASSUME NEW f \in fills
                 PROVE  \/ f.upTo <= orders'[f.order].filledQty
                        \/ \E v \in Writers : Saving(writer'[v], f)
      BY <1>1 DEF CaughtUp, Saving
    <2>0. f.order \in Orders /\ f.upTo \in Nat
      BY DEF TypeOK, Fill
    <2>1. CASE f.upTo <= orders[f.order].filledQty
      BY <1>0, <1>2, <1>3, <1>4, <2>0, <2>1
    <2>2. CASE Saving(writer[w], f)
      <3>1. f.order = writer[w].order /\ r.filledQty = f.upTo
        BY <1>2, <2>2 DEF Saving
      <3> QED
        BY <1>4, <2>0, <3>1
    <2>3. ASSUME NEW v \in Writers, v # w, Saving(writer[v], f)
          PROVE  Saving(writer'[v], f)
      BY <1>1, <2>3 DEF Others
    <2> QED
      BY <2>1, <2>2, <2>3 DEF UnitInv, CaughtUp
  <1>6. \A v \in Writers : Seen(writer'[v], broker)
    BY <1>1, IdleFields DEF UnitInv, Seen, Others
  <1> QED
    BY <1>1, <1>5, <1>6
       DEF UnitInv, Executed, Disjoint, Apart, Counted, UnitsOf, Units, Seen

LEMMA UnitStep ==
    ASSUME TypeOK, PendingIsNew, TurnInv, UnitInv, [Next]_vars, crashes' = 0
    PROVE  UnitInv'
  <1>0. \A w \in Writers : Seen(writer[w], broker) /\ writer[w].order \in Orders
    BY DEF UnitInv, TypeOK, Local
  <1>1. CASE UNCHANGED vars
    BY <1>1 DEF vars, UnitInv, Executed, Disjoint, Apart, CaughtUp, Saving, Counted,
                UnitsOf, Units, Seen
  <1>2. ASSUME NEW o \in Orders, BrokerStep(o) PROVE UnitInv'
    <2>1. UNCHANGED <<orders, fills, applied, booked, writer>>
      BY <1>2, BrokerFields
    <2>2. \A p \in Orders : /\ broker[p].filled <= broker'[p].filled
                            /\ broker[p].filled \in Nat
      BY <1>2, BrokerGrows DEF TurnInv, TypeOK
    <2>3. broker' \in [Orders -> [status: KiteStatus, filled: Nat, gone: BOOLEAN]]
      BY TypeStep DEF TypeOK
    <2>4. Executed'
      <3> SUFFICES ASSUME NEW f \in fills PROVE f.upTo <= broker'[f.order].filled
        BY <2>1 DEF Executed, UnitInv
      <3>1. f.upTo <= broker[f.order].filled /\ f.order \in Orders /\ f.upTo \in Nat
        BY DEF UnitInv, Executed, TypeOK, Fill
      <3> QED
        BY <2>2, <2>3, <3>1
    <2>5. \A w \in Writers : Seen(writer[w], broker')
      <3> SUFFICES ASSUME NEW w \in Writers PROVE Seen(writer[w], broker')
        OBVIOUS
      <3>1. writer[w].snap.filled \in Nat
        BY DEF TypeOK, Local, Snapshot
      <3> QED
        BY <1>0, <2>2, <2>3, <3>1 DEF Seen
    <2> QED
      BY <2>1, <2>4, <2>5
         DEF UnitInv, Disjoint, Apart, CaughtUp, Saving, Counted, UnitsOf, Units, Seen
  <1>3. ASSUME NEW w \in Writers, NEW o \in Orders, Fetch(w, o) PROVE UnitInv'
    <2>1. /\ Others(w) /\ UNCHANGED <<broker, orders, fills, applied, booked>>
          /\ writer'[w].order = o
          /\ writer'[w].snap = [status |-> broker[o].status, filled |-> broker[o].filled]
      BY <1>3, FetchFields
    <2>2. broker[o].filled \in Nat /\ writer'[w].snap.filled = broker[o].filled
      BY <2>1 DEF TypeOK
    <2>3. writer[w].pc = "idle"
      BY <1>3 DEF Fetch
    <2> QED
      BY <2>1, <2>2, <2>3, UnitMove DEF Seen, Saving
  <1>4. ASSUME NEW w \in Writers, NEW o \in Orders, CloseRead(w, o) PROVE UnitInv'
    <2>1. /\ Others(w) /\ UNCHANGED <<broker, orders, fills, applied, booked>>
          /\ writer'[w].pc = "close"
      BY <1>4, CloseReadFields
    <2>2. writer[w].pc = "idle"
      BY <1>4 DEF CloseRead
    <2> QED
      BY <2>1, <2>2, UnitMove DEF Seen, Saving
  <1>5. ASSUME NEW w \in Writers, SnapRead(w) PROVE UnitInv'
    <2>1. /\ Others(w) /\ UNCHANGED <<broker, orders, fills, applied, booked>>
          /\ SameCall(w) /\ writer[w].pc = "read"
      BY <1>5, SnapReadFields
    <2> QED
      BY <1>0, <2>1, UnitMove DEF Seen, Saving, SameCall
  <1>6. ASSUME NEW w \in Writers, InsertFails(w) \/ ApplyFails(w) PROVE UnitInv'
    <2>1. /\ Others(w) /\ SameCall(w) /\ writer[w].pc \in {"insert", "apply"}
          /\ writer'[w].pc \in {"apply", "write"} /\ writer'[w].row = writer[w].row
          /\ writer'[w].saved = IF InsertFill(w) THEN TRUE ELSE writer[w].saved
      BY <1>6, MidFields DEF MidStep
    <2>2. UNCHANGED <<broker, orders, fills, applied, booked>>
      BY <1>6 DEF InsertFails, ApplyFails, dbVars
    <2> QED
      BY <1>0, <2>1, <2>2, UnitMove DEF Seen, Saving, SameCall
  \* The transaction, by whichever of its two callers.
  <1>7. ASSUME NEW f \in fills, ApplyTransaction(f), UNCHANGED <<broker, orders, fills>>,
               \A g \in fills, v \in Writers :
                   Saving(writer[v], g) => Saving(writer'[v], g),
               \A v \in Writers : Seen(writer'[v], broker)
        PROVE  UnitInv'
    <2>1. Counted'
      BY <1>7, ApplyCounts DEF UnitInv
    <2>2. CaughtUp'
      <3> SUFFICES ASSUME NEW g \in fills
                   PROVE  \/ g.upTo <= orders[g.order].filledQty
                          \/ \E v \in Writers : Saving(writer'[v], g)
        BY <1>7 DEF CaughtUp, Saving
      <3> QED
        BY <1>7 DEF UnitInv, CaughtUp
    <2> QED
      BY <1>7, <2>1, <2>2 DEF UnitInv, Executed, Disjoint, Apart, Seen
  <1>8. ASSUME NEW w \in Writers, ApplyFill(w) PROVE UnitInv'
    <2>1. /\ Others(w) /\ SameCall(w) /\ writer[w].pc = "apply"
          /\ writer'[w].pc \in {"apply", "write"} /\ writer'[w].row = writer[w].row
          /\ writer'[w].saved = IF InsertFill(w) THEN TRUE ELSE writer[w].saved
      BY <1>8, MidFields DEF MidStep, ApplyFill
    <2>2. PICK f \in Fingerprinted(w) : ApplyTransaction(f)
      BY <1>8 DEF ApplyFill
    <2>3. f \in fills /\ UNCHANGED <<broker, orders, fills>>
      BY <1>8 DEF ApplyFill, Fingerprinted
    <2>4. \A g \in fills, v \in Writers :
              Saving(writer[v], g) => Saving(writer'[v], g)
      BY <2>1 DEF Saving, SameCall, Others
    <2>5. \A v \in Writers : Seen(writer'[v], broker)
      BY <1>0, <2>1 DEF Seen, SameCall, Others
    <2> QED
      BY <1>7, <2>2, <2>3, <2>4, <2>5
  <1>9. ASSUME ApplyPending PROVE UnitInv'
    <2>1. PICK f \in fills \ applied : ApplyTransaction(f)
      BY <1>9 DEF ApplyPending
    <2>2. UNCHANGED <<broker, orders, fills, writer>>
      BY <1>9 DEF ApplyPending
    <2> QED
      BY <1>0, <1>7, <2>1, <2>2
  <1>10. ASSUME NEW w \in Writers, CloseWrite(w) PROVE UnitInv'
    <2>1. /\ Others(w) /\ writer'[w] = Idle
          /\ UNCHANGED <<broker, fills, applied, booked>>
      BY <1>10, EndFields DEF EndStep
    <2>2. \A o \in Orders : orders'[o].filledQty = orders[o].filledQty
      <3>1. PICK r : /\ orders' = [orders EXCEPT ![writer[w].order] = r]
                     /\ r.filledQty = orders[writer[w].order].filledQty
        BY <1>10, CloseWriteFields
      <3> QED
        BY <3>1 DEF TypeOK
    <2>3. writer[w].pc = "close"
      BY <1>10 DEF CloseWrite
    <2>4. CaughtUp'
      <3> SUFFICES ASSUME NEW f \in fills
                   PROVE  \/ f.upTo <= orders'[f.order].filledQty
                          \/ \E v \in Writers : Saving(writer'[v], f)
        BY <2>1 DEF CaughtUp, Saving
      <3>1. f.order \in Orders
        BY DEF TypeOK, Fill
      <3>2. \A v \in Writers : Saving(writer[v], f) => Saving(writer'[v], f)
        BY <2>1, <2>3 DEF Saving, Others
      <3> QED
        BY <2>2, <3>1, <3>2 DEF UnitInv, CaughtUp
    <2>5. \A v \in Writers : Seen(writer'[v], broker)
      BY <1>0, <2>1, IdleFields DEF Seen, Others
    <2> QED
      BY <2>1, <2>4, <2>5
         DEF UnitInv, Executed, Disjoint, Apart, Counted, UnitsOf, Units, Seen
  <1>11. ASSUME Crash \/ \E w \in Writers : WriteFails(w) PROVE FALSE
    BY <1>11 DEF Crash, WriteFails, TypeOK
  <1> QED
    BY <1>1, <1>2, <1>3, <1>4, <1>5, <1>6, <1>8, <1>9, <1>10, <1>11, StepCases,
       InsertUnits, WriteUnits DEF EndStep, MidStep

LEMMA CrashesGrow == TypeOK /\ [Next]_vars => crashes' = crashes \/ crashes' # 0
  <1> SUFFICES ASSUME TypeOK, [Next]_vars, crashes' # crashes PROVE crashes' # 0
    OBVIOUS
  <1>1. crashes' = crashes + 1
    BY DEF Next, vars, BrokerStep, Executes, CancelRequested, Ends, BookClears,
       SnapshotStep, SnapRead, InsertFill, InsertFails, ApplyFill, ApplyFails, WriteRow,
       WriteFails, CloseWrite, Fetch, CloseRead, ApplyPending, Crash
  <1> QED
    BY <1>1 DEF TypeOK

TurnsBook == TypeOK /\ PendingIsNew /\ TurnInv /\ (crashes = 0 => UnitInv)

LEMMA TurnsBookHolds ==
    ASSUME ~Overlap
    PROVE  (Init => TurnsBook) /\ (TurnsBook /\ [Next]_vars => TurnsBook')
  <1>1. Init => TurnsBook
    BY TypeInit, TurnInit, UnitInit DEF TurnsBook
  <1>2. ASSUME TurnsBook, [Next]_vars PROVE TurnsBook'
    <2>1. TypeOK' /\ PendingIsNew' /\ TurnInv'
      BY <1>2, TypeStep, PendingStep, TurnStep DEF TurnsBook
    <2>2. ASSUME crashes' = 0 PROVE UnitInv'
      BY <1>2, <2>2, CrashesGrow, UnitStep DEF TurnsBook
    <2> QED
      BY <2>1, <2>2 DEF TurnsBook
  <1> QED
    BY <1>1, <1>2

\* Drivers that take turns book an order executed in any number of parts at most
\* once, through failing inserts and transactions, as long as nothing restarts
\* and no row update fails: what the position moved by is the number of executed
\* units whose fill is applied.
THEOREM TurnsBookedOnce ==
    ASSUME ~Overlap PROVE Spec => [](crashes = 0 => NoOverbook)
  <1>1. TurnsBook => (crashes = 0 => NoOverbook)
    BY UnitsBound DEF TurnsBook, UnitInv, Counted, NoOverbook
  <1> QED
    BY <1>1, TurnsBookHolds, PTL DEF Spec

-----------------------------------------------------------------------------
(***************************************************************************)
(* Drivers that take turns: the overnight close spares executions          *)
(***************************************************************************)

\* CANCELLED in the hand of a driver is what the broker said.
Learnt(me, B) ==
    me.pc \in {"read", "insert", "apply", "write"} /\ me.snap.status = "CANCELLED"
        => B[me.order].status = "CANCELLED"

\* Between the SELECT and the UPDATE of a call only the close may write the row.
ClosedMeanwhile(me, R) ==
    InTurn(me) =>
        \/ R[me.order].status = me.row.status
        \/ /\ R[me.order].status = "CANCELLED"
           /\ me.row.status \in OPEN_ORDER_STATUSES

\* A close starts from a row without fills; the quantity of a snapshot is saved
\* only under a status that books it.
CloseCall(me) ==
    /\ me.pc = "close" => me.row.filledQty = 0
    /\ InTurn(me) /\ (me.pc = "insert" \/ me.saved) /\ me.snap.filled > me.row.filledQty =>
          NextStatus(me.snap) \in {"PARTIALLY_FILLED", "FILLED", "CANCELLED", "REJECTED"}

CloseInv ==
    /\ \A f \in fills : f.upTo > 0
    /\ \A o \in Orders : orders[o].status = "CANCELLED" /\ orders[o].filledQty > 0
                             => broker[o].status = "CANCELLED"
    /\ \A w \in Writers : /\ Learnt(writer[w], broker)
                          /\ ClosedMeanwhile(writer[w], orders)
                          /\ CloseCall(writer[w])

\* The UPDATE leaves a row CANCELLED with a filled quantity only when it was so,
\* or when the snapshot says so.
LEMMA WrittenCancelled ==
    ASSUME TypeOK, TurnInv, NEW w \in Writers, InTurn(writer[w]),
           ClosedMeanwhile(writer[w], orders), CloseCall(writer[w]),
           NEW r, r = Written(w, orders[writer[w].order]),
           r.status = "CANCELLED", writer[w].snap.status # "CANCELLED"
    PROVE  /\ orders[writer[w].order].status = "CANCELLED"
           /\ r.filledQty = orders[writer[w].order].filledQty
  <1> DEFINE me == writer[w]
             now == orders[writer[w].order]
             next == NextStatus(me.snap)
             to == commitBrokerFillProgress(me.row.filledQty, me.snap.filled, me.saved,
                                            me.row.status, next)
  <1>0. /\ me.row.filledQty \in Nat /\ me.snap.filled \in Nat /\ Qty \in Nat
        /\ me.snap.status \in KiteStatus
    BY LedgerAssumption DEF TypeOK, Local, Snapshot, OrderRow
  <1>1. next # "CANCELLED"
    BY <1>0 DEF NextStatus, mapKiteOrderStatus, KiteStatus
  <1>2. /\ now.filledQty = me.row.filledQty
        /\ me.snap.filled <= Qty
        /\ me.row.status = "FILLED" => me.row.filledQty = Qty
    BY DEF TurnInv, Current, Full, FullRow
  <1>3. /\ r.filledQty = to.filledQty
        /\ r.status = IF to.status # me.row.status \/ to.status = "PARTIALLY_FILLED"
                      THEN to.status ELSE now.status
    BY DEF Written
  <1>4. /\ now.status = me.row.status \/ me.row.status \in OPEN_ORDER_STATUSES
        /\ me.saved /\ me.snap.filled > me.row.filledQty =>
              next \in {"PARTIALLY_FILLED", "FILLED", "CANCELLED", "REJECTED"}
    BY DEF ClosedMeanwhile, CloseCall
  <1> HIDE DEF next, now, me
  <1>5. to.status \in {me.row.status, next, "FILLED"}
    BY DEF commitBrokerFillProgress
  <1>6. now.status = "CANCELLED" /\ to.status = me.row.status
                                 /\ to.status # "PARTIALLY_FILLED"
    BY <1>1, <1>3, <1>5, Zenon DEF now
  <1>7. ASSUME me.snap.filled > me.row.filledQty, me.saved PROVE FALSE
    <2>1. /\ next \in {"PARTIALLY_FILLED", "FILLED", "REJECTED"}
          /\ to.status = IF me.row.status = "FILLED" THEN "FILLED" ELSE next
      BY <1>1, <1>4, <1>7 DEF commitBrokerFillProgress
    <2>2. me.row.status # "FILLED"
      BY <1>0, <1>2, <1>7
    <2>3. me.row.status = "REJECTED"
      BY <1>6, <2>1, <2>2
    <2> QED
      BY <1>4, <1>6, <2>3 DEF OPEN_ORDER_STATUSES
  <1>8. to.filledQty = me.row.filledQty
    BY <1>0, <1>7 DEF commitBrokerFillProgress
  <1> QED
    BY <1>2, <1>3, <1>6, <1>8 DEF now

\* An order that is cancelled at the broker stays so.
LEMMA CancelledStays ==
    ASSUME TypeOK, NEW o \in Orders, BrokerStep(o), NEW p \in Orders,
           broker[p].status = "CANCELLED"
    PROVE  broker'[p].status = "CANCELLED"
  <1>1. CASE Executes(o) \/ CancelRequested(o) \/ Ends(o)
    <2>1. p # o
      BY <1>1 DEF Executes, CancelRequested, Ends
    <2>2. broker'[p] = broker[p]
      BY <1>1, <2>1, Zenon DEF Executes, CancelRequested, Ends, TypeOK
    <2> QED
      BY <2>2
  <1>2. CASE BookClears(o)
    BY <1>2 DEF BookClears, TypeOK
  <1> QED
    BY <1>1, <1>2 DEF BrokerStep

\* A step of one driver that leaves rows, fills and broker alone.
LEMMA CloseMove ==
    ASSUME CloseInv, UNCHANGED <<broker, orders, fills>>, NEW w \in Writers, Others(w),
           Learnt(writer'[w], broker), ClosedMeanwhile(writer'[w], orders),
           CloseCall(writer'[w])
    PROVE  CloseInv'
  BY DEF CloseInv, Others, Learnt, ClosedMeanwhile, CloseCall, InTurn, NextStatus

LEMMA CloseStep ==
    ASSUME TypeOK, PendingIsNew, TurnInv, CloseInv, [Next]_vars
    PROVE  CloseInv'
  <1>0. \A w \in Writers : /\ Learnt(writer[w], broker)
                           /\ ClosedMeanwhile(writer[w], orders)
                           /\ CloseCall(writer[w])
                           /\ writer[w].order \in Orders
    BY DEF CloseInv, TypeOK, Local
  <1>1. CASE UNCHANGED <<broker, orders, fills, writer>>
    BY <1>1 DEF CloseInv, Learnt, ClosedMeanwhile, CloseCall, InTurn, NextStatus
  <1>2. ASSUME NEW o \in Orders, BrokerStep(o) PROVE CloseInv'
    <2>1. UNCHANGED <<orders, fills, writer>>
      BY <1>2, BrokerFields
    <2>2. \A p \in Orders : broker[p].status = "CANCELLED" => broker'[p].status = "CANCELLED"
      BY <1>2, CancelledStays
    <2>3. \A w \in Writers : Learnt(writer[w], broker')
      BY <1>0, <2>2 DEF Learnt
    <2> QED
      BY <2>1, <2>2, <2>3
         DEF CloseInv, Learnt, ClosedMeanwhile, CloseCall, InTurn, NextStatus
  <1>3. ASSUME NEW w \in Writers, NEW o \in Orders, Fetch(w, o) PROVE CloseInv'
    <2>1. /\ Others(w) /\ UNCHANGED <<broker, orders, fills>> /\ writer'[w].pc = "read"
          /\ writer'[w].order = o
          /\ writer'[w].snap = [status |-> broker[o].status, filled |-> broker[o].filled]
      BY <1>3, FetchFields
    <2>2. writer'[w].snap.status = broker[o].status
      BY <2>1
    <2> QED
      BY <2>1, <2>2, CloseMove DEF Learnt, ClosedMeanwhile, CloseCall, InTurn
  <1>4. ASSUME NEW w \in Writers, NEW o \in Orders, CloseRead(w, o) PROVE CloseInv'
    <2>1. /\ Others(w) /\ UNCHANGED <<broker, orders, fills>> /\ writer'[w].pc = "close"
          /\ writer'[w].row = orders[o] /\ orders[o].filledQty = 0
      BY <1>4, CloseReadFields DEF CloseRead
    <2> QED
      BY <2>1, CloseMove DEF Learnt, ClosedMeanwhile, CloseCall, InTurn
  <1>5. ASSUME NEW w \in Writers, SnapRead(w) PROVE CloseInv'
    <2> DEFINE row == orders[writer[w].order]
    <2>1. /\ Others(w) /\ SameCall(w) /\ writer[w].pc = "read"
          /\ writer'[w].pc \in {"insert", "write"} /\ writer'[w].row = row
          /\ writer'[w].saved = (writer[w].snap.filled <= row.filledQty)
          /\ UNCHANGED <<broker, orders, fills>>
      BY <1>5, SnapReadFields
    <2>2. writer'[w].pc = "insert" => booksFill(writer[w].snap, row)
      <3>1. writer'[w] = [writer[w] EXCEPT !.row = row,
                !.saved = writer[w].snap.filled <= row.filledQty,
                !.pc = IF booksFill(writer[w].snap, row) THEN "insert" ELSE "write"]
        BY <1>5, OthersStay DEF SnapRead
      <3>2. writer'[w].pc = IF booksFill(writer[w].snap, row) THEN "insert" ELSE "write"
        BY <3>1 DEF TypeOK, Local
      <3> QED
        BY <3>2
    <2>3. writer[w].snap.filled \in Nat /\ row.filledQty \in Nat
      BY <1>0 DEF TypeOK, Local, Snapshot, OrderRow
    <2>4. Learnt(writer'[w], broker)
      BY <1>0, <2>1 DEF Learnt, SameCall
    <2>5. ClosedMeanwhile(writer'[w], orders)
      BY <2>1 DEF ClosedMeanwhile, SameCall
    <2>6. CloseCall(writer'[w])
      <3> SUFFICES ASSUME writer'[w].pc = "insert" \/ writer'[w].saved,
                          writer'[w].snap.filled > writer'[w].row.filledQty
                   PROVE  NextStatus(writer'[w].snap) \in
                              {"PARTIALLY_FILLED", "FILLED", "CANCELLED", "REJECTED"}
        BY <2>1 DEF CloseCall
      <3>1. writer'[w].snap = writer[w].snap /\ ~(writer[w].snap.filled <= row.filledQty)
        BY <2>1, <2>3 DEF SameCall
      <3>2. booksFill(writer[w].snap, row)
        BY <2>1, <2>2, <3>1, Zenon
      <3> QED
        BY <3>1, <3>2, Zenon DEF booksFill
    <2> QED
      BY <2>1, <2>4, <2>5, <2>6, CloseMove
  <1>6. ASSUME NEW w \in Writers, MidStep(w) PROVE CloseInv'
    <2>1. /\ Others(w) /\ SameCall(w) /\ writer[w].pc \in {"insert", "apply"}
          /\ writer'[w].pc \in {"apply", "write"} /\ writer'[w].row = writer[w].row
          /\ writer'[w].saved = IF InsertFill(w) THEN TRUE ELSE writer[w].saved
          /\ UNCHANGED <<broker, orders>>
      BY <1>6, MidFields
    <2>2. /\ Learnt(writer'[w], broker) /\ ClosedMeanwhile(writer'[w], orders)
      BY <1>0, <2>1 DEF Learnt, ClosedMeanwhile, SameCall, InTurn
    <2>3. CloseCall(writer'[w])
      <3>1. writer'[w].saved => writer[w].saved \/ writer[w].pc = "insert"
        BY <2>1 DEF InsertFill
      <3> QED
        BY <1>0, <2>1, <3>1 DEF CloseCall, SameCall, InTurn
    <2>4. \A f \in fills' : f.upTo > 0
      <3>1. CASE InsertFill(w)
        <4>1. writer[w].snap.filled > 0
          BY <3>1 DEF PendingIsNew, InsertFill, TypeOK, Local, Snapshot, OrderRow
        <4>2. \A f \in fills' : f \in fills \/ f.upTo = writer[w].snap.filled
          BY <3>1 DEF InsertFill
        <4> QED
          BY <4>1, <4>2 DEF CloseInv
      <3>2. CASE fills' = fills
        BY <3>2 DEF CloseInv
      <3> QED
        BY <1>6, <3>1, <3>2 DEF MidStep, InsertFails, ApplyFill, ApplyFails, dbVars
    <2> QED
      BY <2>1, <2>2, <2>3, <2>4
         DEF CloseInv, Others, Learnt, ClosedMeanwhile, CloseCall, InTurn, NextStatus
  \* The row of one order is written by a driver that then rests.
  <1>7. ASSUME NEW w \in Writers, Others(w), writer'[w] = Idle, UNCHANGED <<broker, fills>>,
               NEW r, orders' = [orders EXCEPT ![writer[w].order] = r],
               r.status = "CANCELLED" /\ r.filledQty > 0
                   => broker[writer[w].order].status = "CANCELLED",
               \A v \in Writers \ {w} :
                   InTurn(writer[v]) /\ writer[v].order = writer[w].order =>
                       \/ r.status = writer[v].row.status
                       \/ /\ r.status = "CANCELLED"
                          /\ writer[v].row.status \in OPEN_ORDER_STATUSES
        PROVE  CloseInv'
    <2>1. \A o \in Orders : orders'[o] = IF o = writer[w].order THEN r ELSE orders[o]
      BY <1>7 DEF TypeOK
    <2>2. \A o \in Orders : orders'[o].status = "CANCELLED" /\ orders'[o].filledQty > 0
                                => broker[o].status = "CANCELLED"
      BY <1>7, <2>1 DEF CloseInv
    <2>3. ASSUME NEW v \in Writers
          PROVE  /\ Learnt(writer'[v], broker) /\ ClosedMeanwhile(writer'[v], orders')
                 /\ CloseCall(writer'[v])
      <3>1. CASE v = w
        BY <1>7, <3>1, IdleFields DEF Learnt, ClosedMeanwhile, CloseCall, InTurn
      <3>2. CASE v # w
        <4>1. writer'[v] = writer[v]
          BY <1>7, <3>2 DEF Others
        <4>2. ClosedMeanwhile(writer[v], orders')
          <5>1. CASE writer[v].order = writer[w].order
            <6>1. orders'[writer[v].order] = r
              BY <1>0, <2>1, <5>1
            <6> QED
              BY <1>7, <3>2, <5>1, <6>1 DEF ClosedMeanwhile
          <5>2. CASE writer[v].order # writer[w].order
            <6>1. orders'[writer[v].order] = orders[writer[v].order]
              BY <1>0, <2>1, <5>2
            <6> QED
              BY <1>0, <6>1 DEF ClosedMeanwhile
          <5> QED
            BY <5>1, <5>2
        <4> QED
          BY <1>0, <4>1, <4>2
      <3> QED
        BY <3>1, <3>2
    <2> QED
      BY <1>7, <2>2, <2>3
         DEF CloseInv, Learnt, ClosedMeanwhile, CloseCall, InTurn, NextStatus
  <1>8. ASSUME NEW w \in Writers, WriteRow(w) PROVE CloseInv'
    <2> DEFINE r == Written(w, orders[writer[w].order])
    <2>1. /\ Others(w) /\ writer'[w] = Idle /\ UNCHANGED <<broker, fills>>
          /\ orders' = [orders EXCEPT ![writer[w].order] = r]
      BY <1>8, EndFields DEF EndStep, WriteRow
    <2>2. InTurn(writer[w]) /\ writer[w].pc = "write"
      BY <1>8 DEF WriteRow, InTurn
    <2>3. \A v \in Writers \ {w} :
              ~(InTurn(writer[v]) /\ writer[v].order = writer[w].order)
      BY <2>2 DEF TurnInv, OneTurn
    <2>4. ASSUME r.status = "CANCELLED", r.filledQty > 0
          PROVE  broker[writer[w].order].status = "CANCELLED"
      <3>1. CASE writer[w].snap.status = "CANCELLED"
        BY <1>0, <2>2, <3>1 DEF Learnt
      <3>2. CASE writer[w].snap.status # "CANCELLED"
        <4>1. /\ orders[writer[w].order].status = "CANCELLED"
              /\ r.filledQty = orders[writer[w].order].filledQty
          BY <1>0, <2>2, <2>4, <3>2, WrittenCancelled
        <4> QED
          BY <1>0, <2>4, <4>1 DEF CloseInv
      <3> QED
        BY <3>1, <3>2
    <2> HIDE DEF r
    <2> QED
      BY <1>7, <2>1, <2>3, <2>4
  <1>9. ASSUME NEW w \in Writers, CloseWrite(w) PROVE CloseInv'
    <2>1. PICK r : /\ orders' = [orders EXCEPT ![writer[w].order] = r]
                   /\ r.filledQty = orders[writer[w].order].filledQty
                   /\ \/ r.status = orders[writer[w].order].status
                      \/ /\ r.status = "CANCELLED"
                         /\ orders[writer[w].order] = writer[w].row
      BY <1>9, CloseWriteFields
    <2>2. Others(w) /\ writer'[w] = Idle /\ UNCHANGED <<broker, fills>>
      BY <1>9, EndFields DEF EndStep
    <2>3. /\ writer[w].pc = "close" /\ writer[w].row.filledQty = 0
          /\ writer[w].row.status \in OPEN_ORDER_STATUSES
      BY <1>0, <1>9 DEF CloseWrite, CloseCall, TurnInv, ReadOpen
    <2>4. r.status = "CANCELLED" /\ r.filledQty > 0
              => broker[writer[w].order].status = "CANCELLED"
      BY <1>0, <2>1, <2>3 DEF CloseInv
    <2>5. \A v \in Writers \ {w} :
              InTurn(writer[v]) /\ writer[v].order = writer[w].order =>
                  \/ r.status = writer[v].row.status
                  \/ /\ r.status = "CANCELLED"
                     /\ writer[v].row.status \in OPEN_ORDER_STATUSES
      <3> SUFFICES ASSUME NEW v \in Writers, InTurn(writer[v]),
                          writer[v].order = writer[w].order
                   PROVE  \/ r.status = writer[v].row.status
                          \/ /\ r.status = "CANCELLED"
                             /\ writer[v].row.status \in OPEN_ORDER_STATUSES
        OBVIOUS
      <3>1. \/ orders[writer[w].order].status = writer[v].row.status
            \/ /\ orders[writer[w].order].status = "CANCELLED"
               /\ writer[v].row.status \in OPEN_ORDER_STATUSES
        BY <1>0 DEF ClosedMeanwhile
      <3> QED
        BY <2>1, <2>3, <3>1
    <2> QED
      BY <1>7, <2>1, <2>2, <2>4, <2>5
  <1>10. ASSUME NEW w \in Writers, WriteFails(w) PROVE CloseInv'
    <2>1. Others(w) /\ writer'[w] = Idle /\ UNCHANGED <<broker, orders, fills>>
      BY <1>10, EndFields DEF EndStep, WriteFails, dbVars
    <2> QED
      BY <2>1, IdleFields, CloseMove DEF Learnt, ClosedMeanwhile, CloseCall, InTurn
  <1>11. ASSUME Crash PROVE CloseInv'
    <2>1. \A w \in Writers : writer'[w] = Idle
      BY <1>11 DEF Crash
    <2>2. UNCHANGED <<broker, orders, fills>>
      BY <1>11 DEF Crash, dbVars
    <2> QED
      BY <2>1, <2>2, IdleFields
         DEF CloseInv, Learnt, ClosedMeanwhile, CloseCall, InTurn
  <1>12. ASSUME ApplyPending PROVE CloseInv'
    BY <1>1, <1>12 DEF ApplyPending
  <1> QED
    BY <1>1, <1>2, <1>3, <1>4, <1>5, <1>6, <1>8, <1>9, <1>10, <1>11, <1>12, StepCases
       DEF EndStep, vars

\* With drivers that take turns and as long as nothing restarts and no row update
\* fails, reconcile's overnight close never cancels a row whose execution is
\* saved: whatever was read, saved or written between its SELECT and its UPDATE,
\* the row ends up with its fills, or the order was cancelled at the broker.
THEOREM CloseSparesFillsHolds ==
    ASSUME ~Overlap PROVE Spec => []CloseSparesFills
  <1>1. Init => TurnsBook /\ CloseInv
    <2>1. Init => CloseInv
      BY IdleFields DEF Init, CloseInv, Learnt, ClosedMeanwhile, CloseCall, InTurn
    <2> QED
      BY <2>1, TurnsBookHolds
  <1>2. TurnsBook /\ CloseInv /\ [Next]_vars => (TurnsBook /\ CloseInv)'
    BY TurnsBookHolds, CloseStep DEF TurnsBook
  <1>3. TurnsBook /\ CloseInv => CloseSparesFills
    <2> SUFFICES ASSUME TurnsBook, CloseInv, crashes = 0, NEW o \in Orders,
                        orders[o].status = "CANCELLED", ~Between(o),
                        NEW f \in fills, f.order = o
                 PROVE  broker[o].status # "COMPLETE" /\ orders[o].filledQty > 0
      BY DEF CloseSparesFills
    <2>1. f.upTo <= orders[o].filledQty
      <3>1. ASSUME NEW w \in Writers, Saving(writer[w], f) PROVE FALSE
        BY <3>1 DEF Saving, Between
      <3> QED
        BY <3>1 DEF TurnsBook, UnitInv, CaughtUp
    <2>2. f.upTo > 0 /\ f.upTo \in Nat /\ orders[o].filledQty \in Nat
      BY DEF CloseInv, TurnsBook, TypeOK, Fill, OrderRow
    <2>3. orders[o].filledQty > 0
      BY <2>1, <2>2
    <2> QED
      BY <2>3 DEF CloseInv
  <1> QED
    BY <1>1, <1>2, <1>3, PTL DEF Spec

-----------------------------------------------------------------------------
(***************************************************************************)
(* Drivers that take turns: Ledger implements FillBook                     *)
(***************************************************************************)
LEMMA TurnApplyRefines ==
    ASSUME TypeOK, UnitInv, UnitInv', TypeOK', NEW f \in fills, ApplyTransaction(f),
           UNCHANGED broker
    PROVE  [Book!Next]_(Book!bookVars)
  <1>0. f \in Fill /\ f.order \in Orders
    BY DEF TypeOK, Fill
  <1>1. CASE UNCHANGED booked
    BY <1>1 DEF Book!bookVars
  <1>2. CASE booked' = [booked EXCEPT ![f.order] = booked[f.order] + f.qty]
    <2>1. booked'[f.order] = booked[f.order] + f.qty
      BY <1>0, <1>2 DEF TypeOK
    <2>2. booked'[f.order] <= broker[f.order].filled
      <3>1. Executed' /\ Counted'
        BY DEF UnitInv
      <3>2. /\ applied' \in SUBSET Fill /\ applied' \subseteq fills'
            /\ broker'[f.order].filled \in Nat
        BY <1>0 DEF TypeOK
      <3>3. \A g \in applied' : g.order = f.order =>
                g.qty <= g.upTo /\ g.upTo <= broker'[f.order].filled
        BY <3>1, <3>2 DEF Executed
      <3>4. Cardinality(UnitsOf(applied', f.order)) <= broker'[f.order].filled
        BY <3>2, <3>3, UnitsFinite
      <3> QED
        BY <1>0, <3>1, <3>4 DEF Counted
    <2>3. booked[f.order] \in Nat /\ f.qty \in Nat /\ broker[f.order].filled \in Nat
      BY <1>0 DEF TypeOK, Fill
    <2>4. CASE f.qty = 0
      <3>1. booked' = booked
        BY <1>0, <1>2, <2>3, <2>4 DEF TypeOK
      <3> QED
        BY <1>1, <3>1
    <2>5. CASE f.qty # 0
      <3>1. booked[f.order] + f.qty \in booked[f.order] + 1 .. broker[f.order].filled
        BY <2>1, <2>2, <2>3, <2>5
      <3>2. Book!Book(f.order)
        BY <1>0, <1>2, <3>1 DEF Book!Book
      <3> QED
        BY <1>0, <3>2 DEF Book!Next
    <2> QED
      BY <2>4, <2>5
  <1> QED
    BY <1>1, <1>2, ApplyCounts DEF UnitInv

LEMMA TurnStepRefines ==
    ASSUME TypeOK, TurnInv, UnitInv, TypeOK', TurnInv', UnitInv', [Next]_vars
    PROVE  [Book!Next]_(Book!bookVars)
  <1>1. ASSUME UNCHANGED <<broker, booked>> PROVE [Book!Next]_(Book!bookVars)
    BY <1>1 DEF Book!bookVars
  <1>2. ASSUME NEW o \in Orders, BrokerStep(o) PROVE [Book!Next]_(Book!bookVars)
    <2>1. /\ UNCHANGED booked /\ broker' = [broker EXCEPT ![o] = broker'[o]]
          /\ broker[o].filled <= broker'[o].filled /\ Full(broker'[o])
      BY <1>2, BrokerFields, BrokerGrows DEF TurnInv
    <2>2. broker[o].filled \in Nat /\ broker'[o].filled \in Nat
      BY DEF TypeOK
    <2>3. [p \in Orders |-> broker'[p].filled]
              = [[p \in Orders |-> broker[p].filled] EXCEPT ![o] = broker'[o].filled]
      BY <2>1 DEF TypeOK
    <2>4. CASE broker'[o].filled = broker[o].filled
      <3>1. [p \in Orders |-> broker'[p].filled] = [p \in Orders |-> broker[p].filled]
        BY <2>3, <2>4
      <3> QED
        BY <2>1, <3>1 DEF Book!bookVars
    <2>5. CASE broker'[o].filled # broker[o].filled
      <3>1. broker'[o].filled \in [p \in Orders |-> broker[p].filled][o] + 1 .. Qty
        BY <2>1, <2>2, <2>5, LedgerAssumption DEF Full
      <3>2. Book!Execute(o)
        BY <2>1, <2>3, <3>1 DEF Book!Execute
      <3> QED
        BY <3>2 DEF Book!Next
    <2> QED
      BY <2>4, <2>5
  <1>3. ASSUME NEW w \in Writers, ApplyFill(w) PROVE [Book!Next]_(Book!bookVars)
    <2>1. PICK f \in Fingerprinted(w) : ApplyTransaction(f)
      BY <1>3 DEF ApplyFill
    <2> QED
      BY <1>3, <2>1, TurnApplyRefines DEF ApplyFill, Fingerprinted
  <1>4. ASSUME ApplyPending PROVE [Book!Next]_(Book!bookVars)
    <2>1. PICK f \in fills \ applied : ApplyTransaction(f)
      BY <1>4 DEF ApplyPending
    <2> QED
      BY <1>4, <2>1, TurnApplyRefines DEF ApplyPending
  <1>5. ASSUME NEW w \in Writers,
               SnapRead(w) \/ InsertFill(w) \/ InsertFails(w) \/ ApplyFails(w) \/ EndStep(w)
        PROVE  UNCHANGED <<broker, booked>>
    BY <1>5, EndFields DEF SnapRead, InsertFill, InsertFails, ApplyFails, dbVars
  <1>6. ASSUME NEW w \in Writers, NEW o \in Orders, Fetch(w, o) \/ CloseRead(w, o)
        PROVE  UNCHANGED <<broker, booked>>
    BY <1>6 DEF Fetch, CloseRead, dbVars
  <1>7. ASSUME Crash \/ UNCHANGED vars PROVE UNCHANGED <<broker, booked>>
    BY <1>7 DEF Crash, dbVars, vars
  <1> QED
    BY <1>1, <1>2, <1>3, <1>4, <1>5, <1>6, <1>7, StepCases DEF MidStep

\* Without restarts, drivers that take turns implement FillBook also for orders
\* executed in parts: each first transaction of a fill is one booking, which
\* never gets ahead of the broker, and nothing else moves the position.
THEOREM TurnsRefine ==
    ASSUME ~Overlap, MaxCrashes = 0 PROVE Spec => ImplementsFillBook
  <1> DEFINE Inv == TurnsBook /\ crashes = 0
  <1>1. Init => Inv
    BY TurnsBookHolds DEF Init
  <1>2. Inv /\ [Next]_vars => Inv'
    <2> SUFFICES ASSUME Inv, [Next]_vars, crashes' # 0 PROVE FALSE
      BY TurnsBookHolds
    <2>1. crashes < MaxCrashes
      BY DEF Next, vars, BrokerStep, Executes, CancelRequested, Ends, BookClears,
         SnapshotStep, SnapRead, InsertFill, InsertFails, ApplyFill, ApplyFails, WriteRow,
         WriteFails, CloseWrite, Fetch, CloseRead, ApplyPending, Crash
    <2> QED
      BY <2>1
  <1>3. Init => Book!Init
    BY DEF Init, Book!Init
  <1>4. Inv /\ Inv' /\ [Next]_vars => [Book!Next]_(Book!bookVars)
    BY TurnStepRefines DEF TurnsBook
  <1> QED
    BY <1>1, <1>2, <1>3, <1>4, PTL DEF Spec, ImplementsFillBook, Book!Spec

=============================================================================
