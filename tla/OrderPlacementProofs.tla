------------------------ MODULE OrderPlacementProofs ------------------------
(***************************************************************************)
(* Theorems about OrderPlacement, for every set of callers and intent keys *)
(* and any number of attempts, requests and restarts.                      *)
(***************************************************************************)
EXTENDS OrderPlacement, SequenceTheorems, TLAPS

-----------------------------------------------------------------------------
(***************************************************************************)
(* Sequences                                                               *)
(***************************************************************************)

\* Replacing an element keeps the others.
LEMMA PutSeq ==
    ASSUME NEW S, NEW s \in Seq(S), NEW i \in DOMAIN s, NEW e \in S,
           NEW t, t = [s EXCEPT ![i] = e]
    PROVE  /\ t \in Seq(S) /\ Len(t) = Len(s) /\ DOMAIN t = DOMAIN s
           /\ t[i] = e /\ \A k \in DOMAIN s \ {i} : t[k] = s[k]
  <1>1. i \in 1..Len(s) /\ DOMAIN s = 1..Len(s)
    BY LenProperties
  <1> QED
    BY <1>1, ExceptSeq, LenProperties

\* Appending an element keeps the others.
LEMMA AddSeq ==
    ASSUME NEW S, NEW s \in Seq(S), NEW e \in S, NEW t, t = Append(s, e)
    PROVE  /\ t \in Seq(S) /\ Len(t) = Len(s) + 1
           /\ DOMAIN t = DOMAIN s \cup {Len(s) + 1} /\ Len(s) + 1 \notin DOMAIN s
           /\ t[Len(s) + 1] = e /\ \A k \in DOMAIN s : t[k] = s[k]
  <1>1. Len(s) \in Nat /\ DOMAIN s = 1..Len(s)
    BY LenProperties
  <1>2. t \in Seq(S) /\ Len(t) = Len(s) + 1 /\ \A k \in 1..Len(s) : t[k] = s[k]
        /\ t[Len(s) + 1] = e
    BY <1>1, AppendProperties
  <1>3. DOMAIN t = 1..(Len(s) + 1)
    BY <1>2, LenProperties
  <1> QED
    BY <1>1, <1>2, <1>3

-----------------------------------------------------------------------------
(***************************************************************************)
(* The inductive invariant for every setting: what a call, a row and the   *)
(* sync know of an order was once seen in the book, with the attributes    *)
(* they look for                                                           *)
(***************************************************************************)

\* n is the id of a request the book shows, with the attributes of k.
Good(n, k) ==
    n \in ReqIds /\ reqs[n].fate \in BookStatus /\ AttrOf[ReqKey(n)] = AttrOf[k]

\* Inside these awaits a call holds a row, and inside the last two it marks it.
Marks == {"markRead", "markWrite"}
InCall == {"lookup", "call", "calling"} \cup Marks

Held(c) ==
    /\ caller[c].pc \in InCall =>
          /\ caller[c].row \in RowIds /\ rows[caller[c].row].key = env.keyOf[c]
          /\ rows[caller[c].row].kind # "broker"
    /\ caller[c].pc = "calling" =>
          caller[c].req \in ReqIds /\ reqs[caller[c].req].row = caller[c].row
    /\ caller[c].pc \in Marks =>
          /\ caller[c].mark = "SUBMITTED" => caller[c].id # 0
          /\ caller[c].id # 0 => Good(caller[c].id, env.keyOf[c])
    /\ caller[c].pc = "markWrite" /\ caller[c].curBid # 0 =>
          Good(caller[c].curBid, env.keyOf[c])
    /\ caller[c].pc = "ok" => Good(caller[c].id, env.keyOf[c])
    /\ caller[c].pc \notin Marks \cup {"ok"} => caller[c].id = 0

RowOk(r) ==
    /\ rows[r].bid # 0 => Good(rows[r].bid, rows[r].key)
    /\ rows[r].kind = "broker" =>
          Good(rows[r].of, rows[r].key) /\ rows[r].bid \in {0, rows[r].of}

\* The sync writes the id of a book order to a row it is good for.
SyncOk ==
    /\ sync.pc # "idle" => sync.id \in ReqIds /\ reqs[sync.id].fate \in BookStatus
    /\ sync.pc = "write" =>
          /\ sync.row \in RowIds /\ Good(sync.id, rows[sync.row].key)
          /\ rows[sync.row].kind = "broker" => rows[sync.row].of = sync.id

BookInv ==
    /\ \A n \in ReqIds : reqs[n].row \in RowIds
    /\ \A c \in Callers : Held(c)
    /\ \A r \in RowIds : RowOk(r)
    /\ SyncOk

\* The tables and the locals, spelled out for the provers.
LEMMA Shapes ==
    ASSUME TypeOK
    PROVE  /\ Len(rows) \in Nat /\ RowIds = 1..Len(rows) /\ \A r \in RowIds : rows[r] \in Row
           /\ Len(reqs) \in Nat /\ ReqIds = 1..Len(reqs) /\ \A n \in ReqIds : reqs[n] \in Req
           /\ \A c \in Callers : caller[c] \in Local /\ env.keyOf[c] \in Keys
           /\ sync \in Sync /\ env \in Setting
  <1>1. rows \in Seq(Row) /\ reqs \in Seq(Req) /\ caller \in [Callers -> Local] /\ sync \in Sync
        /\ env \in Setting
    BY PlacementAssumption DEF TypeOK
  <1>2. \A c \in Callers : env.keyOf[c] \in Keys
    BY <1>1 DEF Setting
  <1> QED
    BY <1>1, <1>2, LenProperties, ElementOfSeq DEF RowIds, ReqIds

\* What Becomes does to the locals.
LEMMA Put ==
    ASSUME TypeOK, NEW c \in Callers, NEW l, Becomes(c, l)
    PROVE  /\ caller'[c] = l /\ \A d \in Callers \ {c} : caller'[d] = caller[d]
           /\ l \in Local => caller' \in [Callers -> Local]
  BY DEF TypeOK, Becomes

LEMMA IdleType ==
    ASSUME NEW n \in Nat
    PROVE  IdleCaller(n) \in Local /\ IdleCaller(n).pc = "idle" /\ IdleCaller(n).attempts = n
           /\ ~IdleCaller(n).aged /\ IdleCaller(n).id = 0
  BY DEF IdleCaller, Local, PCs, OrderStatus

LEMMA EndedType ==
    ASSUME TypeOK, NEW c \in Callers, NEW pc \in {"ok", "thrown"}, NEW id \in Nat
    PROVE  Ended(c, pc, id) \in Local /\ Ended(c, pc, id).pc = pc /\ Ended(c, pc, id).id = id
           /\ ~Ended(c, pc, id).aged
  <1>1. caller[c].attempts \in Nat
    BY Shapes DEF Local
  <1> DEFINE i == IdleCaller(caller[c].attempts)
  <1>2. i \in Local /\ ~i.aged
    BY <1>1, IdleType
  <1>3. Ended(c, pc, id) = [i EXCEPT !.pc = pc, !.id = id]
    BY DEF Ended
  <1> HIDE DEF i
  <1> QED
    BY <1>2, <1>3 DEF Local, PCs

\* Rows and requests are never removed, their keys never change and what the
\* book has shown it keeps showing.
Grown ==
    /\ RowIds \subseteq RowIds' /\ ReqIds \subseteq ReqIds'
    /\ \A r \in RowIds : /\ rows'[r].key = rows[r].key /\ rows'[r].kind = rows[r].kind
                         /\ rows'[r].of = rows[r].of
    /\ \A n \in ReqIds : /\ reqs'[n].row = reqs[n].row
                         /\ reqs[n].fate \in BookStatus => reqs'[n].fate \in BookStatus

LEMMA GoodStays ==
    ASSUME BookInv, Grown, NEW n, NEW k, Good(n, k) PROVE Good(n, k)'
  BY DEF Good, Grown, BookInv, ReqKey

LEMMA HeldStays ==
    ASSUME BookInv, Grown, env' = env, NEW c \in Callers, caller'[c] = caller[c]
    PROVE  Held(c)'
  <1>1. Held(c)
    BY DEF BookInv
  <1>2. \A n, k : Good(n, k) => Good(n, k)'
    BY GoodStays
  <1>3. /\ RowIds \subseteq RowIds' /\ ReqIds \subseteq ReqIds'
        /\ \A r \in RowIds : rows'[r].key = rows[r].key /\ rows'[r].kind = rows[r].kind
        /\ \A n \in ReqIds : reqs'[n].row = reqs[n].row
    BY DEF Grown
  <1> QED
    BY <1>1, <1>2, <1>3 DEF Held, InCall

\* One activity moves: only what it changed is left to show.
LEMMA BookMove ==
    ASSUME BookInv, Grown, env' = env,
           \A n \in ReqIds' : n \in ReqIds \/ reqs'[n].row \in RowIds',
           \A c \in Callers : caller'[c] = caller[c] \/ Held(c)',
           \A r \in RowIds' : RowOk(r)' \/ (r \in RowIds /\ rows'[r].bid = rows[r].bid),
           SyncOk' \/ UNCHANGED sync
    PROVE  BookInv'
  <1>1. \A n, k : Good(n, k) => Good(n, k)'
    BY GoodStays
  <1>2. /\ RowIds \subseteq RowIds' /\ ReqIds \subseteq ReqIds'
        /\ \A r \in RowIds : /\ rows'[r].key = rows[r].key /\ rows'[r].kind = rows[r].kind
                             /\ rows'[r].of = rows[r].of
        /\ \A n \in ReqIds : /\ reqs'[n].row = reqs[n].row
                             /\ reqs[n].fate \in BookStatus => reqs'[n].fate \in BookStatus
    BY DEF Grown
  <1>3. \A n \in ReqIds' : reqs'[n].row \in RowIds'
    BY <1>2 DEF BookInv
  <1>4. \A c \in Callers : Held(c)'
    BY HeldStays
  <1>5. \A r \in RowIds' : RowOk(r)'
    <2> SUFFICES ASSUME NEW r \in RowIds, rows'[r].bid = rows[r].bid
                 PROVE  RowOk(r)'
      OBVIOUS
    <2>1. /\ RowOk(r) /\ rows'[r].key = rows[r].key /\ rows'[r].kind = rows[r].kind
          /\ rows'[r].of = rows[r].of
      BY <1>2 DEF BookInv
    <2> QED
      BY <1>1, <2>1 DEF RowOk
  <1>6. SyncOk'
    <2> SUFFICES ASSUME UNCHANGED sync PROVE SyncOk'
      OBVIOUS
    <2>1. SyncOk
      BY DEF BookInv
    <2> QED
      BY <1>1, <1>2, <2>1 DEF SyncOk
  <1> QED
    BY <1>3, <1>4, <1>5, <1>6 DEF BookInv

\* A call moves and the tables do not.
LEMMA LocalMove ==
    ASSUME TypeOK, BookInv, UNCHANGED <<rows, reqs, sync, crashes, env>>,
           NEW c \in Callers, NEW l \in Local, Becomes(c, l), Held(c)'
    PROVE  TypeOK' /\ BookInv'
  <1>1. RowIds' = RowIds /\ ReqIds' = ReqIds
    BY DEF RowIds, ReqIds
  <1>2. Grown
    BY <1>1 DEF Grown
  <1>3. caller' \in [Callers -> Local] /\ \A d \in Callers \ {c} : caller'[d] = caller[d]
    BY Put
  <1>4. TypeOK'
    BY <1>3 DEF TypeOK
  <1>5. BookInv'
    BY <1>1, <1>2, <1>3, BookMove
  <1> QED
    BY <1>4, <1>5

\* A row is added.
LEMMA RowAdd ==
    ASSUME TypeOK, NEW row \in Row, rows' = Append(rows, row)
    PROVE  \E a \in Nat : /\ a = Len(rows) + 1 /\ a \notin RowIds
                          /\ rows' \in Seq(Row) /\ RowIds' = RowIds \cup {a} /\ rows'[a] = row
                          /\ \A r \in RowIds : rows'[r] = rows[r]
  <1>1. rows \in Seq(Row) /\ Len(rows) + 1 \in Nat
    BY Shapes DEF TypeOK
  <1> QED
    BY <1>1, AddSeq DEF RowIds

\* A row is rewritten.
LEMMA RowPut ==
    ASSUME TypeOK, NEW r \in RowIds, NEW row \in Row, rows' = [rows EXCEPT ![r] = row]
    PROVE  /\ rows' \in Seq(Row) /\ RowIds' = RowIds /\ rows'[r] = row
           /\ \A q \in RowIds \ {r} : rows'[q] = rows[q]
  <1>1. rows \in Seq(Row)
    BY DEF TypeOK
  <1> QED
    BY <1>1, PutSeq DEF RowIds

LEMMA NewRowType ==
    ASSUME NEW k \in Keys, NEW kind \in {"intent", "retry", "broker"}, NEW of \in Nat
    PROVE  /\ NewRow(kind, k, of) \in Row /\ NewRow(kind, k, of).bid = 0
           /\ NewRow(kind, k, of).kind = kind /\ NewRow(kind, k, of).key = k
           /\ NewRow(kind, k, of).of = of /\ NewRow(kind, k, of).status = "PENDING"
           /\ ~NewRow(kind, k, of).aged
  BY DEF NewRow, Row, OrderStatus

\* A call adds a row for its key.
LEMMA AddMove ==
    ASSUME TypeOK, BookInv, UNCHANGED <<reqs, sync, crashes, env>>,
           NEW c \in Callers, NEW l \in Local, Becomes(c, l), Held(c)',
           NEW kind \in {"intent", "retry"},
           rows' = Append(rows, NewRow(kind, env.keyOf[c], 0))
    PROVE  TypeOK' /\ BookInv'
  <1>1. env.keyOf[c] \in Keys /\ kind \in {"intent", "retry", "broker"} /\ 0 \in Nat
    BY Shapes
  <1>2. PICK row \in Row : row.bid = 0 /\ row.kind # "broker" /\ rows' = Append(rows, row)
    BY <1>1, NewRowType
  <1>3. PICK a \in Nat : /\ a \notin RowIds /\ rows' \in Seq(Row) /\ RowIds' = RowIds \cup {a}
                        /\ rows'[a] = row /\ \A r \in RowIds : rows'[r] = rows[r]
    BY <1>2, RowAdd
  <1>4. ReqIds' = ReqIds
    BY DEF ReqIds
  <1>5. Grown
    BY <1>3, <1>4 DEF Grown
  <1>6. caller' \in [Callers -> Local] /\ \A d \in Callers \ {c} : caller'[d] = caller[d]
    BY Put
  <1>7. TypeOK'
    BY <1>3, <1>6 DEF TypeOK
  <1>8. RowOk(a)'
    BY <1>2, <1>3 DEF RowOk
  <1>9. BookInv'
    BY <1>3, <1>4, <1>5, <1>6, <1>8, BookMove
  <1> QED
    BY <1>7, <1>9

\* The UPDATE changes the row the call holds to the mark and the id it brings.
LEMMA UpdateCase ==
    ASSUME TypeOK, BookInv, NEW c \in Callers, caller[c].pc = "markWrite", MarkUpdate(c)
    PROVE  \E r \in RowIds : \E row \in Row :
              /\ r = caller[c].row /\ rows[r].key = env.keyOf[c] /\ rows[r].kind # "broker"
              /\ row.key = rows[r].key /\ row.kind = rows[r].kind /\ row.of = rows[r].of
              /\ row.aged = rows[r].aged /\ row.status = caller[c].mark /\ row.bid = MarkBid(c)
              /\ rows' \in Seq(Row) /\ RowIds' = RowIds /\ rows'[r] = row
              /\ \A q \in RowIds \ {r} : rows'[q] = rows[q]
              /\ row.bid # 0 => Good(row.bid, rows[r].key)
  <1>1. Held(c) /\ caller[c] \in Local
    BY Shapes DEF BookInv
  <1>2. PICK r \in RowIds : r = caller[c].row
    BY <1>1 DEF Held, InCall, Marks
  <1>3. rows[r].key = env.keyOf[c] /\ rows[r].kind # "broker" /\ rows[r] \in Row
    BY <1>1, <1>2, Shapes DEF Held, InCall, Marks
  <1>4. MarkBid(c) \in Nat /\ (MarkBid(c) # 0 => Good(MarkBid(c), rows[r].key))
    BY <1>1, <1>2, <1>3 DEF MarkBid, Held, Marks, Local
  <1>5. PICK row \in Row :
            /\ row = [rows[r] EXCEPT !.status = caller[c].mark, !.bid = MarkBid(c)]
            /\ row.key = rows[r].key /\ row.kind = rows[r].kind /\ row.of = rows[r].of
            /\ row.aged = rows[r].aged /\ row.status = caller[c].mark /\ row.bid = MarkBid(c)
    <2>1. PICK bid \in Nat : bid = MarkBid(c)
      BY <1>4
    <2>2. PICK mark \in OrderStatus : mark = caller[c].mark
      BY <1>1 DEF Local
    <2> DEFINE row == [rows[r] EXCEPT !.status = mark, !.bid = bid]
    <2>3. row \in Row
      BY <1>3 DEF Row
    <2>4. /\ row.key = rows[r].key /\ row.kind = rows[r].kind /\ row.of = rows[r].of
          /\ row.aged = rows[r].aged /\ row.status = mark /\ row.bid = bid
      BY <1>3 DEF Row
    <2> QED
      BY <2>1, <2>2, <2>3, <2>4
  <1>6. rows' = [rows EXCEPT ![r] = row]
    BY <1>2, <1>5 DEF MarkUpdate
  <1>7. /\ rows' \in Seq(Row) /\ RowIds' = RowIds /\ rows'[r] = row
        /\ \A q \in RowIds \ {r} : rows'[q] = rows[q]
    BY <1>6, RowPut
  <1> QED
    BY ZenonT(60), <1>2, <1>3, <1>4, <1>5, <1>7


\* The UPDATE of a call: the id it writes is good for the row it holds.
LEMMA WriteMove ==
    ASSUME TypeOK, BookInv, UNCHANGED <<reqs, sync, crashes, env>>,
           NEW c \in Callers, NEW l \in Local, Becomes(c, l), Grown => Held(c)',
           caller[c].pc = "markWrite", MarkUpdate(c)
    PROVE  TypeOK' /\ BookInv'
  <1>1. PICK r \in RowIds, row \in Row :
              /\ rows[r].kind # "broker"
              /\ row.key = rows[r].key /\ row.kind = rows[r].kind /\ row.of = rows[r].of
              /\ rows' \in Seq(Row) /\ RowIds' = RowIds /\ rows'[r] = row
              /\ \A q \in RowIds \ {r} : rows'[q] = rows[q]
              /\ row.bid # 0 => Good(row.bid, rows[r].key)
    BY UpdateCase
  <1>2. ReqIds' = ReqIds
    BY DEF ReqIds
  <1>3. Grown
    BY <1>1, <1>2 DEF Grown
  <1>4. caller' \in [Callers -> Local] /\ \A d \in Callers \ {c} : caller'[d] = caller[d]
    BY Put
  <1>5. TypeOK'
    BY <1>1, <1>4 DEF TypeOK
  <1>6. \A n, k : Good(n, k) => Good(n, k)'
    BY <1>3, GoodStays
  <1>7. RowOk(r)'
    BY <1>1, <1>6 DEF RowOk
  <1>8. BookInv'
    BY <1>1, <1>2, <1>3, <1>4, <1>7, BookMove
  <1> QED
    BY <1>5, <1>8

LEMMA InitHolds == Init => TypeOK /\ BookInv
  <1> SUFFICES ASSUME Init PROVE TypeOK /\ BookInv
    OBVIOUS
  <1>1. RowIds = {} /\ ReqIds = {} /\ rows \in Seq(Row) /\ reqs \in Seq(Req)
    BY EmptySeq DEF Init, RowIds, ReqIds
  <1>2. \A c \in Callers : caller[c].pc = "idle" /\ caller[c].id = 0
    BY DEF Init, IdleCaller
  <1>3. caller \in [Callers -> Local]
    BY IdleType DEF Init
  <1>4. sync \in Sync /\ sync.pc = "idle"
    BY DEF Init, IdleSync, Sync, OrderStatus
  <1>5. TypeOK
    BY <1>1, <1>3, <1>4 DEF TypeOK, Init
  <1>6. BookInv
    BY <1>1, <1>2, <1>4 DEF BookInv, Held, InCall, Marks, SyncOk
  <1> QED
    BY <1>5, <1>6

-----------------------------------------------------------------------------
(***************************************************************************)
(* What each step of a call does to its locals and to the rows             *)
(***************************************************************************)

LEMMA SameTables ==
    ASSUME UNCHANGED <<rows, reqs>>
    PROVE  RowIds' = RowIds /\ ReqIds' = ReqIds /\ \A n, k : Good(n, k)' <=> Good(n, k)
  BY DEF RowIds, ReqIds, Good, ReqKey

\* The three ways on from recordOrderIntent.
LEMMA ProceedCases ==
    ASSUME NEW c, NEW r, NEW created \in BOOLEAN, NEW row, Proceed(c, r, created, row)
    PROVE  \/ /\ ~created /\ row.status \notin RETRY_TERMINAL /\ row.bid # 0
              /\ Becomes(c, Ended(c, "ok", row.bid))
           \/ /\ created \/ row.status \in RETRY_TERMINAL
              /\ Becomes(c, [caller[c] EXCEPT !.pc = "call", !.row = r])
           \/ /\ ~created /\ row.status \notin RETRY_TERMINAL /\ row.bid = 0
              /\ Becomes(c, [caller[c] EXCEPT !.pc = "lookup", !.row = r, !.aged = row.aged])
  BY DEF Proceed, FirstDecision

\* A call that ended without a success holds nothing.
LEMMA RestMove ==
    ASSUME TypeOK, BookInv, UNCHANGED <<rows, reqs, sync, crashes, env>>,
           NEW c \in Callers, NEW l \in Local, Becomes(c, l),
           l.pc \notin InCall \cup {"ok"}, l.id = 0
    PROVE  TypeOK' /\ BookInv'
  <1>1. Held(c)'
    BY Put DEF Held, InCall, Marks
  <1> QED
    BY <1>1, LocalMove

LEMMA RiskCheckStep ==
    ASSUME TypeOK, BookInv, UNCHANGED env, NEW c \in Callers, RiskCheck(c)
    PROVE  TypeOK' /\ BookInv'
  <1>1. PICK pc \in {"rejected", "select"}, n \in Nat :
            Becomes(c, [caller[c] EXCEPT !.attempts = n, !.pc = pc])
    <2>1. caller[c].attempts + 1 \in Nat
      BY Shapes DEF Local
    <2> QED
      BY <2>1 DEF RiskCheck
  <1>2. [caller[c] EXCEPT !.attempts = n, !.pc = pc] \in Local
        /\ [caller[c] EXCEPT !.attempts = n, !.pc = pc].pc = pc
        /\ [caller[c] EXCEPT !.attempts = n, !.pc = pc].id = caller[c].id
    BY Shapes DEF Local, PCs
  <1>3. caller[c].id = 0
    BY DEF RiskCheck, BookInv, Held, Marks
  <1> QED
    BY <1>1, <1>2, <1>3, RestMove DEF RiskCheck, InCall, Marks

\* A saved row is reused, placed again or looked up.
LEMMA SavedStep ==
    ASSUME TypeOK, BookInv, UNCHANGED <<rows, reqs, sync, crashes, env>>,
           NEW c \in Callers, NEW r \in IntentRows(env.keyOf[c]), Proceed(c, r, FALSE, rows[r]),
           caller[c].id = 0
    PROVE  TypeOK' /\ BookInv'
  <1>1. /\ r \in RowIds /\ r \in Nat /\ rows[r] \in Row /\ rows[r].key = env.keyOf[c]
        /\ rows[r].kind # "broker"
    BY Shapes DEF IntentRows
  <1>2. rows[r].bid # 0 => Good(rows[r].bid, env.keyOf[c])
    BY <1>1 DEF BookInv, RowOk
  <1>3. CASE rows[r].bid # 0 /\ Becomes(c, Ended(c, "ok", rows[r].bid))
    <2>1. Ended(c, "ok", rows[r].bid) \in Local /\ Ended(c, "ok", rows[r].bid).pc = "ok"
          /\ Ended(c, "ok", rows[r].bid).id = rows[r].bid
      BY <1>1, EndedType DEF Row
    <2>2. Held(c)'
      BY <1>2, <1>3, <2>1, Put, SameTables DEF Held, InCall, Marks
    <2> QED
      BY <1>3, <2>1, <2>2, LocalMove
  <1>4. CASE Becomes(c, [caller[c] EXCEPT !.pc = "call", !.row = r])
    <2>1. /\ [caller[c] EXCEPT !.pc = "call", !.row = r] \in Local
          /\ [caller[c] EXCEPT !.pc = "call", !.row = r].pc = "call"
          /\ [caller[c] EXCEPT !.pc = "call", !.row = r].row = r
          /\ [caller[c] EXCEPT !.pc = "call", !.row = r].id = 0
      BY <1>1, Shapes DEF Local, PCs
    <2>2. Held(c)'
      BY <1>1, <1>4, <2>1, Put, SameTables DEF Held, InCall, Marks
    <2> QED
      BY <1>4, <2>1, <2>2, LocalMove
  <1>5. CASE Becomes(c, [caller[c] EXCEPT !.pc = "lookup", !.row = r, !.aged = rows[r].aged])
    <2> DEFINE l == [caller[c] EXCEPT !.pc = "lookup", !.row = r, !.aged = rows[r].aged]
    <2>1. l \in Local /\ l.pc = "lookup" /\ l.row = r /\ l.id = 0
      BY ZenonT(60), <1>1, Shapes DEF Local, PCs, Row
    <2>2. Becomes(c, l)
      BY <1>5
    <2> HIDE DEF l
    <2>3. Held(c)'
      BY <1>1, <2>1, <2>2, Put, SameTables DEF Held, InCall, Marks
    <2> QED
      BY <2>1, <2>2, <2>3, LocalMove
  <1> QED
    BY <1>3, <1>4, <1>5, ProceedCases

\* A row that was just added is placed.
LEMMA CreatedCase ==
    ASSUME NEW c, NEW r, NEW row, Proceed(c, r, TRUE, row)
    PROVE  Becomes(c, [caller[c] EXCEPT !.pc = "call", !.row = r])
  BY DEF Proceed, FirstDecision

LEMMA CreatedStep ==
    ASSUME TypeOK, BookInv, UNCHANGED <<reqs, sync, crashes, env>>,
           NEW c \in Callers, NEW kind \in {"intent", "retry"},
           rows' = Append(rows, NewRow(kind, env.keyOf[c], 0)),
           Becomes(c, [caller[c] EXCEPT !.pc = "call", !.row = Len(rows) + 1]),
           caller[c].id = 0
    PROVE  TypeOK' /\ BookInv'
  <1>1. env.keyOf[c] \in Keys /\ kind \in {"intent", "retry", "broker"} /\ 0 \in Nat
    BY Shapes
  <1>2. PICK row \in Row : /\ row = NewRow(kind, env.keyOf[c], 0)
                           /\ row.key = env.keyOf[c] /\ row.kind # "broker"
    BY <1>1, NewRowType
  <1>3. PICK a \in Nat : /\ a = Len(rows) + 1 /\ RowIds' = RowIds \cup {a} /\ rows'[a] = row
    BY <1>2, RowAdd
  <1> DEFINE l == [caller[c] EXCEPT !.pc = "call", !.row = a]
  <1>4. l \in Local /\ l.pc = "call" /\ l.row = a /\ l.id = 0
    BY Shapes DEF Local, PCs
  <1>5. Becomes(c, l)
    BY <1>3
  <1> HIDE DEF l
  <1>6. Held(c)'
    BY <1>2, <1>3, <1>4, <1>5, Put DEF Held, InCall, Marks
  <1> QED
    BY <1>4, <1>5, <1>6, AddMove

LEMMA IntentSelectStep ==
    ASSUME TypeOK, BookInv, UNCHANGED env, NEW c \in Callers, IntentSelect(c)
    PROVE  TypeOK' /\ BookInv'
  <1>1. caller[c].pc = "select" /\ caller[c].id = 0 /\ UNCHANGED <<reqs, sync, crashes, env>>
    BY DEF IntentSelect, BookInv, Held, Marks
  <1>2. CASE Becomes(c, [caller[c] EXCEPT !.pc = "insert"]) /\ UNCHANGED rows
    <2>1. /\ [caller[c] EXCEPT !.pc = "insert"] \in Local
          /\ [caller[c] EXCEPT !.pc = "insert"].pc = "insert"
          /\ [caller[c] EXCEPT !.pc = "insert"].id = caller[c].id
      BY Shapes DEF Local, PCs
    <2> QED
      BY <1>1, <1>2, <2>1, RestMove DEF InCall, Marks
  <1>3. CASE /\ rows' = Append(rows, NewRow("retry", env.keyOf[c], 0))
             /\ Proceed(c, Len(rows) + 1, TRUE, NewRow("retry", env.keyOf[c], 0))
    BY <1>1, <1>3, CreatedCase, CreatedStep
  <1>4. CASE UNCHANGED rows /\ \E r \in IntentRows(env.keyOf[c]) : Proceed(c, r, FALSE, rows[r])
    BY <1>1, <1>4, SavedStep
  <1> QED
    BY <1>2, <1>3, <1>4 DEF IntentSelect

LEMMA IntentInsertStep ==
    ASSUME TypeOK, BookInv, UNCHANGED env, NEW c \in Callers, IntentInsert(c)
    PROVE  TypeOK' /\ BookInv'
  <1>1. caller[c].pc = "insert" /\ caller[c].id = 0 /\ UNCHANGED <<reqs, sync, crashes, env>>
    BY DEF IntentInsert, BookInv, Held, Marks
  <1>2. CASE /\ rows' = Append(rows, NewRow("intent", env.keyOf[c], 0))
             /\ Proceed(c, Len(rows) + 1, TRUE, NewRow("intent", env.keyOf[c], 0))
    BY <1>1, <1>2, CreatedCase, CreatedStep
  <1>3. CASE UNCHANGED rows /\ \E r \in IntentRows(env.keyOf[c]) : Proceed(c, r, FALSE, rows[r])
    BY <1>1, <1>3, SavedStep
  <1> QED
    BY <1>2, <1>3 DEF IntentInsert

\* A call goes from one await of placeOrder to a mark: the id it marks is good.
LEMMA MarkMove ==
    ASSUME TypeOK, BookInv, UNCHANGED <<rows, reqs, sync, crashes, env>>,
           NEW c \in Callers, caller[c].pc \in InCall,
           NEW l \in Local, Becomes(c, l), l.pc = "markRead", l.row = caller[c].row,
           l.mark = "SUBMITTED" => l.id # 0,
           l.id # 0 => Good(l.id, env.keyOf[c])
    PROVE  TypeOK' /\ BookInv'
  <1>1. Held(c) /\ caller'[c] = l
    BY Put DEF BookInv
  <1>2. Held(c)'
    BY <1>1, SameTables DEF Held, InCall, Marks
  <1> QED
    BY <1>2, LocalMove

LEMMA ThrownStep ==
    ASSUME TypeOK, BookInv, UNCHANGED <<rows, reqs, sync, crashes, env>>,
           NEW c \in Callers, Becomes(c, Ended(c, "thrown", 0))
    PROVE  TypeOK' /\ BookInv'
  <1>1. Ended(c, "thrown", 0) \in Local /\ Ended(c, "thrown", 0).pc = "thrown"
        /\ Ended(c, "thrown", 0).id = 0
    BY EndedType
  <1> QED
    BY <1>1, RestMove DEF InCall, Marks

LEMMA LookupStep ==
    ASSUME TypeOK, BookInv, UNCHANGED env, NEW c \in Callers, Lookup(c) \/ LookupFails(c)
    PROVE  TypeOK' /\ BookInv'
  <1>1. /\ caller[c].pc = "lookup" /\ UNCHANGED <<rows, reqs, sync, crashes, env>>
        /\ caller[c] \in Local
    BY Shapes DEF Lookup, LookupFails
  <1>2. ASSUME NEW n \in BookMatches(env.keyOf[c]),
               Becomes(c, [caller[c] EXCEPT !.pc = "markRead", !.mark = "SUBMITTED",
                                            !.id = n, !.inTry = FALSE])
        PROVE  TypeOK' /\ BookInv'
    <2> DEFINE l == [caller[c] EXCEPT !.pc = "markRead", !.mark = "SUBMITTED",
                                      !.id = n, !.inTry = FALSE]
    <2>1. n \in Nat /\ n # 0 /\ Good(n, env.keyOf[c])
      BY Shapes DEF BookMatches, Good
    <2>2. l \in Local /\ l.pc = "markRead" /\ l.row = caller[c].row /\ l.id = n
      BY <1>1, <2>1 DEF Local, PCs, OrderStatus
    <2>3. Becomes(c, l)
      BY <1>2
    <2> HIDE DEF l
    <2> QED
      BY <1>1, <2>1, <2>2, <2>3, MarkMove DEF InCall
  <1>3. CASE Becomes(c, [caller[c] EXCEPT !.pc = "call"])
    <2>1. /\ [caller[c] EXCEPT !.pc = "call"] \in Local
          /\ [caller[c] EXCEPT !.pc = "call"].pc = "call"
          /\ [caller[c] EXCEPT !.pc = "call"].row = caller[c].row
          /\ [caller[c] EXCEPT !.pc = "call"].id = caller[c].id
      BY <1>1 DEF Local, PCs
    <2>2. Held(c)
      BY DEF BookInv
    <2>3. Held(c)'
      BY <1>1, <1>3, <2>1, <2>2, Put, SameTables DEF Held, InCall, Marks
    <2> QED
      BY <1>1, <1>3, <2>1, <2>3, LocalMove
  <1>4. \/ \E n \in BookMatches(env.keyOf[c]) :
             Becomes(c, [caller[c] EXCEPT !.pc = "markRead", !.mark = "SUBMITTED",
                                          !.id = n, !.inTry = FALSE])
        \/ Becomes(c, [caller[c] EXCEPT !.pc = "call"])
        \/ Becomes(c, Ended(c, "thrown", 0))
    BY DEF Lookup, LookupFails
  <1> QED
    BY <1>1, <1>2, <1>3, <1>4, ThrownStep

LEMMA AnswerStep ==
    ASSUME TypeOK, BookInv, UNCHANGED env, NEW c \in Callers,
           AckArrives(c) \/ RefusalArrives(c) \/ AckLost(c)
    PROVE  TypeOK' /\ BookInv'
  <1>1. /\ caller[c].pc = "calling" /\ UNCHANGED <<rows, reqs, sync, crashes, env>>
        /\ caller[c] \in Local /\ Held(c) /\ caller[c].id = 0
    BY Shapes DEF AckArrives, RefusalArrives, AckLost, BookInv, Held, Marks
  <1>2. CASE AckArrives(c)
    <2> DEFINE n == caller[c].req
               l == [caller[c] EXCEPT !.pc = "markRead", !.mark = "SUBMITTED",
                                      !.id = n, !.req = 0, !.inTry = TRUE]
    <2>1. /\ n \in ReqIds /\ n \in Nat /\ n # 0 /\ reqs[n].row = caller[c].row
          /\ rows[caller[c].row].key = env.keyOf[c]
      BY <1>1, Shapes DEF Held, InCall
    <2>2. Good(n, env.keyOf[c])
      BY <1>2, <2>1 DEF AckArrives, Good, ReqKey
    <2>3. l \in Local /\ l.pc = "markRead" /\ l.row = caller[c].row /\ l.id = n
      BY <1>1, <2>1 DEF Local, PCs, OrderStatus
    <2>4. Becomes(c, l)
      BY <1>2 DEF AckArrives
    <2> HIDE DEF l, n
    <2> QED
      BY <1>1, <2>1, <2>2, <2>3, <2>4, MarkMove DEF InCall
  <1>3. ASSUME NEW mark \in {"FAILED", "UNKNOWN"},
               Becomes(c, [caller[c] EXCEPT !.pc = "markRead", !.mark = mark, !.req = 0,
                                            !.inTry = FALSE])
        PROVE  TypeOK' /\ BookInv'
    <2> DEFINE l == [caller[c] EXCEPT !.pc = "markRead", !.mark = mark, !.req = 0,
                                      !.inTry = FALSE]
    <2>1. /\ l \in Local /\ l.pc = "markRead" /\ l.row = caller[c].row /\ l.id = caller[c].id
          /\ l.mark = mark
      BY <1>1 DEF Local, PCs, OrderStatus
    <2>2. Becomes(c, l)
      BY <1>3
    <2> HIDE DEF l
    <2> QED
      BY <1>1, <2>1, <2>2, MarkMove DEF InCall
  <1>4. CASE RefusalArrives(c) \/ AckLost(c)
    BY <1>3, <1>4 DEF RefusalArrives, AckLost
  <1> QED
    BY <1>2, <1>4

LEMMA MarkReadStep ==
    ASSUME TypeOK, BookInv, UNCHANGED env, NEW c \in Callers, MarkRead(c)
    PROVE  TypeOK' /\ BookInv'
  <1> DEFINE r == caller[c].row
             l == [caller[c] EXCEPT !.pc = "markWrite", !.cur = rows[r].status,
                                    !.curBid = rows[r].bid]
  <1>1. /\ caller[c].pc = "markRead" /\ UNCHANGED <<rows, reqs, sync, crashes, env>>
        /\ caller[c] \in Local /\ Held(c) /\ Becomes(c, l)
    BY Shapes DEF MarkRead, BookInv
  <1>2. r \in RowIds /\ rows[r] \in Row /\ rows[r].key = env.keyOf[c] /\ RowOk(r)
    BY <1>1, Shapes DEF Held, InCall, Marks, BookInv
  <1>3. /\ l \in Local /\ l.pc = "markWrite" /\ l.row = r /\ l.mark = caller[c].mark
        /\ l.id = caller[c].id /\ l.curBid = rows[r].bid
    BY <1>1, <1>2 DEF Local, PCs, Row
  <1> HIDE DEF l
  <1>4. caller'[c] = l
    BY <1>1, Put
  <1>5. Held(c)'
    BY <1>1, <1>2, <1>3, <1>4, SameTables DEF Held, InCall, Marks, RowOk
  <1> QED
    BY <1>1, <1>3, <1>5, LocalMove

\* The next state of a call whose markOrderSubmitted failed.
AfterError(c, mark) ==
    IF caller[c].inTry
    THEN [caller[c] EXCEPT !.pc = "markRead", !.mark = mark, !.id = 0, !.inTry = FALSE]
    ELSE Ended(c, "thrown", 0)

LEMMA ErrorCase ==
    ASSUME NEW c, NEW mark, MarkError(c, mark) PROVE Becomes(c, AfterError(c, mark))
  BY DEF MarkError, AfterError

\* A call at its UPDATE ends, or goes to the mark of its catch block.
LEMMA AfterWrite ==
    ASSUME TypeOK, BookInv, NEW c \in Callers, caller[c].pc \in Marks,
           NEW l, \/ l = Ended(c, "thrown", 0)
                  \/ l = Ended(c, "ok", caller[c].id) /\ caller[c].mark = "SUBMITTED"
                  \/ l = AfterError(c, "FAILED") \/ l = AfterError(c, "UNKNOWN")
    PROVE  /\ l \in Local /\ l.pc \in {"markRead", "ok", "thrown"}
           /\ l.pc = "markRead" => /\ l.row = caller[c].row /\ l.id = 0 /\ ~l.inTry
                                   /\ l.mark \in {"FAILED", "UNKNOWN"} /\ caller[c].inTry
           /\ l.pc = "ok" => l.id = caller[c].id /\ Good(l.id, env.keyOf[c])
           /\ l.pc = "thrown" => l.id = 0
  <1>1. caller[c] \in Local /\ Held(c) /\ caller[c].id \in Nat
    BY Shapes DEF BookInv, Local
  <1>2. \A pc \in {"ok", "thrown"}, id \in Nat :
           Ended(c, pc, id) \in Local /\ Ended(c, pc, id).pc = pc /\ Ended(c, pc, id).id = id
    BY EndedType
  <1>3. CASE l = Ended(c, "thrown", 0)
    BY <1>2, <1>3
  <1>4. CASE l = Ended(c, "ok", caller[c].id) /\ caller[c].mark = "SUBMITTED"
    BY <1>1, <1>2, <1>4 DEF Held
  <1>5. ASSUME NEW mark \in {"FAILED", "UNKNOWN"}, l = AfterError(c, mark), caller[c].inTry
        PROVE  /\ l \in Local /\ l.pc = "markRead" /\ l.row = caller[c].row /\ l.id = 0 /\ ~l.inTry
               /\ l.mark = mark
    BY <1>1, <1>5 DEF AfterError, Local, PCs, OrderStatus
  <1>6. ASSUME NEW mark, l = AfterError(c, mark), ~caller[c].inTry
        PROVE  l = Ended(c, "thrown", 0)
    BY <1>6 DEF AfterError
  <1> QED
    BY <1>1, <1>3, <1>4, <1>5, <1>6 DEF Local

LEMMA AfterWriteHeld ==
    ASSUME TypeOK, BookInv, Grown, env' = env, NEW c \in Callers, caller[c].pc \in Marks,
           NEW l, caller'[c] = l,
           \/ l = Ended(c, "thrown", 0)
           \/ l = Ended(c, "ok", caller[c].id) /\ caller[c].mark = "SUBMITTED"
           \/ l = AfterError(c, "FAILED") \/ l = AfterError(c, "UNKNOWN")
    PROVE  Held(c)'
  <1>1. /\ l.pc \in {"markRead", "ok", "thrown"}
        /\ l.pc = "markRead" => /\ l.row = caller[c].row /\ l.id = 0
                                /\ l.mark \in {"FAILED", "UNKNOWN"}
        /\ l.pc = "ok" => Good(l.id, env.keyOf[c])
        /\ l.pc = "thrown" => l.id = 0
    BY AfterWrite
  <1>2. /\ caller[c].row \in RowIds /\ rows[caller[c].row].key = env.keyOf[c]
        /\ rows[caller[c].row].kind # "broker"
    BY DEF BookInv, Held, InCall
  <1>3. \A n, k : Good(n, k) => Good(n, k)'
    BY GoodStays
  <1>4. /\ RowIds \subseteq RowIds'
        /\ \A r \in RowIds : rows'[r].key = rows[r].key /\ rows'[r].kind = rows[r].kind
    BY DEF Grown
  <1> QED
    BY <1>1, <1>2, <1>3, <1>4 DEF Held, InCall, Marks

LEMMA MarkWriteStep ==
    ASSUME TypeOK, BookInv, UNCHANGED env, NEW c \in Callers, MarkWrite(c)
    PROVE  TypeOK' /\ BookInv'
  <1>1. caller[c].pc = "markWrite" /\ UNCHANGED <<reqs, sync, crashes, env>>
    BY DEF MarkWrite
  <1>2. PICK l : /\ Becomes(c, l) /\ (MarkUpdate(c) \/ UNCHANGED rows)
                 /\ \/ l = Ended(c, "thrown", 0)
                    \/ l = Ended(c, "ok", caller[c].id) /\ caller[c].mark = "SUBMITTED"
                    \/ l = AfterError(c, "FAILED")
    BY ErrorCase DEF MarkWrite
  <1>3. l \in Local
    BY <1>1, <1>2, AfterWrite DEF Marks
  <1>4. caller'[c] = l
    BY <1>2, Put
  <1>5. Grown => Held(c)'
    BY <1>1, <1>2, <1>4, AfterWriteHeld DEF Marks
  <1>6. UNCHANGED rows => Grown
    BY <1>1, SameTables DEF Grown
  <1> QED
    BY <1>1, <1>2, <1>3, <1>5, <1>6, WriteMove, LocalMove

LEMMA DbFailsStep ==
    ASSUME TypeOK, BookInv, UNCHANGED env, NEW c \in Callers, DbFails(c)
    PROVE  TypeOK' /\ BookInv'
  <1>1. UNCHANGED <<reqs, sync, crashes, env>>
    BY DEF DbFails
  <1>2. CASE Becomes(c, Ended(c, "thrown", 0)) /\ UNCHANGED rows
    BY <1>1, <1>2, ThrownStep
  <1>3. ASSUME NEW kind \in {"intent", "retry"}, Becomes(c, Ended(c, "thrown", 0)),
               rows' = Append(rows, NewRow(kind, env.keyOf[c], 0))
        PROVE  TypeOK' /\ BookInv'
    <2>1. Ended(c, "thrown", 0) \in Local /\ Ended(c, "thrown", 0).pc = "thrown"
          /\ Ended(c, "thrown", 0).id = 0
      BY EndedType
    <2>2. Held(c)'
      BY <1>3, <2>1, Put DEF Held, InCall, Marks
    <2> QED
      BY <1>1, <1>3, <2>1, <2>2, AddMove
  <1>4. ASSUME caller[c].pc \in Marks, NEW mark \in {"FAILED", "UNKNOWN"}, MarkError(c, mark),
               UNCHANGED rows \/ (caller[c].pc = "markWrite" /\ MarkUpdate(c))
        PROVE  TypeOK' /\ BookInv'
    <2>1. PICK l : l = AfterError(c, mark) /\ Becomes(c, l)
      BY <1>4, ErrorCase
    <2>2. l \in Local
      BY <1>4, <2>1, AfterWrite
    <2>3. caller'[c] = l
      BY <2>1, Put
    <2>4. Grown => Held(c)'
      BY <1>1, <1>4, <2>1, <2>3, AfterWriteHeld
    <2>5. UNCHANGED rows => Grown
      BY <1>1, SameTables DEF Grown
    <2> QED
      BY <1>1, <1>4, <2>1, <2>2, <2>4, <2>5, WriteMove, LocalMove
  <1> QED
    BY <1>2, <1>3, <1>4 DEF DbFails, Marks

LEMMA RetryStep ==
    ASSUME TypeOK, BookInv, UNCHANGED env, NEW c \in Callers, Retry(c)
    PROVE  TypeOK' /\ BookInv'
  <1>1. caller[c].attempts \in Nat
    BY Shapes DEF Local
  <1> QED
    BY <1>1, IdleType, RestMove DEF Retry, InCall, Marks

-----------------------------------------------------------------------------
(***************************************************************************)
(* Requests, the broker, the clock, restarts and the sync                  *)
(***************************************************************************)

\* A request is added.
LEMMA ReqAdd ==
    ASSUME TypeOK, NEW req \in Req, reqs' = Append(reqs, req)
    PROVE  \E a \in Nat : /\ a = Len(reqs) + 1 /\ a \notin ReqIds /\ a # 0
                          /\ reqs' \in Seq(Req) /\ ReqIds' = ReqIds \cup {a} /\ reqs'[a] = req
                          /\ \A n \in ReqIds : reqs'[n] = reqs[n]
  <1>1. reqs \in Seq(Req) /\ Len(reqs) + 1 \in Nat /\ Len(reqs) + 1 # 0
    BY Shapes DEF TypeOK
  <1> QED
    BY <1>1, AddSeq DEF ReqIds

LEMMA CallBrokerCase ==
    ASSUME TypeOK, BookInv, UNCHANGED env, NEW c \in Callers, CallBroker(c)
    PROVE  \E a \in Nat, l \in Local, req \in Req :
              /\ a \notin ReqIds /\ a # 0 /\ reqs' \in Seq(Req) /\ ReqIds' = ReqIds \cup {a}
              /\ reqs'[a] = req /\ req.row = caller[c].row /\ req.fate = "wire"
              /\ \A n \in ReqIds : reqs'[n] = reqs[n]
              /\ Becomes(c, l) /\ l.pc = "calling" /\ l.req = a /\ l.row = caller[c].row
              /\ l.id = caller[c].id /\ l.aged = caller[c].aged
  <1>1. /\ caller[c].pc = "call" /\ caller[c] \in Local
        /\ reqs' = Append(reqs, [row |-> caller[c].row, fate |-> "wire", misread |-> FALSE])
        /\ Becomes(c, [caller[c] EXCEPT !.pc = "calling", !.req = Len(reqs) + 1])
    BY Shapes DEF CallBroker
  <1>2. PICK req \in Req : /\ req = [row |-> caller[c].row, fate |-> "wire", misread |-> FALSE]
                           /\ req.row = caller[c].row /\ req.fate = "wire"
    <2>1. caller[c].row \in Nat /\ "wire" \in Fates /\ FALSE \in BOOLEAN
      BY <1>1 DEF Fates, Local
    <2> DEFINE req == [row |-> caller[c].row, fate |-> "wire", misread |-> FALSE]
    <2>2. req \in Req
      BY <2>1 DEF Req
    <2>3. req.row = caller[c].row /\ req.fate = "wire"
      OBVIOUS
    <2> QED
      BY <2>2, <2>3
  <1>3. PICK a \in Nat : /\ a = Len(reqs) + 1 /\ a \notin ReqIds /\ a # 0
                         /\ reqs' \in Seq(Req) /\ ReqIds' = ReqIds \cup {a} /\ reqs'[a] = req
                         /\ \A n \in ReqIds : reqs'[n] = reqs[n]
    BY <1>1, <1>2, ReqAdd
  <1> DEFINE l == [caller[c] EXCEPT !.pc = "calling", !.req = a]
  <1>4. /\ l \in Local /\ l.pc = "calling" /\ l.req = a /\ l.row = caller[c].row
        /\ l.id = caller[c].id /\ l.aged = caller[c].aged
    BY <1>1 DEF Local, PCs
  <1>5. Becomes(c, l)
    BY <1>1, <1>3
  <1> HIDE DEF l
  <1> QED
    BY <1>2, <1>3, <1>4, <1>5

LEMMA CallBrokerStep ==
    ASSUME TypeOK, BookInv, UNCHANGED env, NEW c \in Callers, CallBroker(c)
    PROVE  TypeOK' /\ BookInv'
  <1>1. UNCHANGED <<rows, sync, crashes, env>> /\ caller[c].pc = "call"
    BY DEF CallBroker
  <1>2. PICK a \in Nat, l \in Local, req \in Req :
              /\ a \notin ReqIds /\ a # 0 /\ reqs' \in Seq(Req) /\ ReqIds' = ReqIds \cup {a}
              /\ reqs'[a] = req /\ req.row = caller[c].row /\ req.fate = "wire"
              /\ \A n \in ReqIds : reqs'[n] = reqs[n]
              /\ Becomes(c, l) /\ l.pc = "calling" /\ l.req = a /\ l.row = caller[c].row
              /\ l.id = caller[c].id
    BY CallBrokerCase
  <1>3. RowIds' = RowIds
    BY <1>1 DEF RowIds
  <1>4. Grown
    BY <1>1, <1>2, <1>3 DEF Grown
  <1>5. /\ caller' \in [Callers -> Local] /\ caller'[c] = l
        /\ \A d \in Callers \ {c} : caller'[d] = caller[d]
    BY <1>2, Put
  <1>6. TypeOK'
    BY <1>1, <1>2, <1>5 DEF TypeOK
  <1>7. Held(c)
    BY DEF BookInv
  <1>8. Held(c)'
    BY <1>1, <1>2, <1>3, <1>5, <1>7 DEF Held, InCall, Marks
  <1>9. reqs'[a].row \in RowIds'
    BY <1>1, <1>2, <1>3, <1>7 DEF Held, InCall
  <1>10. BookInv'
    BY <1>1, <1>2, <1>3, <1>4, <1>5, <1>8, <1>9, BookMove
  <1> QED
    BY <1>6, <1>10

\* A request gets another fate, and one that is in the book stays there.
LEMMA FateCase ==
    ASSUME TypeOK, NEW n \in ReqIds, BrokerStep(n)
    PROVE  /\ UNCHANGED <<rows, caller, sync, crashes>>
           /\ \E req \in Req :
                 /\ req.row = reqs[n].row /\ req.misread = reqs[n].misread
                 /\ \/ reqs[n].fate = "wire" /\ req.fate = "OPEN"
                    \/ reqs[n].fate = "wire" /\ req.fate = "dropped"
                    \/ reqs[n].fate = "wire" /\ req.fate = "refused" /\ env.refusals
                    \/ reqs[n].fate = "OPEN" /\ req.fate \in {"COMPLETE", "REJECTED", "CANCELLED"}
                 /\ reqs' \in Seq(Req) /\ ReqIds' = ReqIds /\ reqs'[n] = req
                 /\ \A m \in ReqIds \ {n} : reqs'[m] = reqs[m]
  <1>1. UNCHANGED <<rows, caller, sync, crashes>>
    BY DEF BrokerStep, BrokerLands, BrokerLoses, BrokerRefuses, BrokerEnds
  <1>2. PICK fate \in Fates :
            /\ reqs' = [reqs EXCEPT ![n] = [reqs[n] EXCEPT !.fate = fate]]
            /\ \/ reqs[n].fate = "wire" /\ fate = "OPEN"
               \/ reqs[n].fate = "wire" /\ fate = "dropped"
               \/ reqs[n].fate = "wire" /\ fate = "refused" /\ env.refusals
               \/ reqs[n].fate = "OPEN" /\ fate \in {"COMPLETE", "REJECTED", "CANCELLED"}
    BY DEF BrokerStep, BrokerLands, BrokerLoses, BrokerRefuses, BrokerEnds, SetFate, Fates,
           BookStatus
  <1> DEFINE req == [reqs[n] EXCEPT !.fate = fate]
  <1>3. req \in Req /\ req.row = reqs[n].row /\ req.fate = fate /\ req.misread = reqs[n].misread
    BY Shapes DEF Req
  <1>4. reqs' = [reqs EXCEPT ![n] = req] /\ reqs \in Seq(Req)
    BY <1>2 DEF TypeOK
  <1> HIDE DEF req
  <1>5. /\ reqs' \in Seq(Req) /\ ReqIds' = ReqIds /\ reqs'[n] = req
        /\ \A m \in ReqIds \ {n} : reqs'[m] = reqs[m]
    BY <1>3, <1>4, PutSeq DEF ReqIds
  <1> QED
    BY <1>1, <1>2, <1>3, <1>5

LEMMA FateStep ==
    ASSUME TypeOK, BookInv, UNCHANGED env, NEW n \in ReqIds, BrokerStep(n)
    PROVE  TypeOK' /\ BookInv'
  <1>1. UNCHANGED <<rows, caller, sync, crashes, env>>
    BY FateCase
  <1>2. PICK req \in Req :
                 /\ req.row = reqs[n].row
                 /\ reqs[n].fate = "wire" \/ (reqs[n].fate = "OPEN"
                       /\ req.fate \in {"COMPLETE", "REJECTED", "CANCELLED"})
                 /\ reqs' \in Seq(Req) /\ ReqIds' = ReqIds /\ reqs'[n] = req
                 /\ \A m \in ReqIds \ {n} : reqs'[m] = reqs[m]
    BY FateCase
  <1>3. RowIds' = RowIds
    BY <1>1 DEF RowIds
  <1>4. Grown
    BY <1>1, <1>2, <1>3 DEF Grown, BookStatus
  <1>5. TypeOK'
    BY <1>1, <1>2 DEF TypeOK
  <1>6. BookInv'
    BY <1>1, <1>2, <1>3, <1>4, BookMove
  <1> QED
    BY <1>5, <1>6

\* A lost answer taken for a reject leaves its trace on the request alone.
LEMMA MisreadCase ==
    ASSUME TypeOK, BookInv, NEW c \in Callers, AckMisread(c)
    PROVE  /\ UNCHANGED <<rows, sync, crashes>> /\ caller[c].pc = "calling" /\ env.misread
           /\ RowIds' = RowIds /\ ReqIds' = ReqIds /\ reqs' \in Seq(Req)
           /\ caller[c].req \in ReqIds /\ reqs'[caller[c].req].misread
           /\ \A n \in ReqIds : reqs'[n].row = reqs[n].row /\ reqs'[n].fate = reqs[n].fate
           /\ \A n \in ReqIds \ {caller[c].req} : reqs'[n].misread = reqs[n].misread
           /\ \E l \in Local :
                 /\ Becomes(c, l) /\ l.pc = "markRead" /\ l.row = caller[c].row
                 /\ l.aged = caller[c].aged /\ l.mark = "FAILED" /\ l.id = 0 /\ ~l.inTry
  <1>1. /\ UNCHANGED <<rows, sync, crashes>> /\ caller[c].pc = "calling" /\ env.misread
        /\ caller[c] \in Local /\ caller[c].id = 0 /\ caller[c].req \in ReqIds
    BY Shapes DEF AckMisread, BookInv, Held, Marks
  <1> DEFINE n == caller[c].req
             req == [reqs[n] EXCEPT !.misread = TRUE]
             l == [caller[c] EXCEPT !.pc = "markRead", !.mark = "FAILED", !.req = 0,
                                    !.inTry = FALSE]
  <1>2. req \in Req /\ req.row = reqs[n].row /\ req.fate = reqs[n].fate /\ req.misread
    BY <1>1, Shapes DEF Req
  <1>3. /\ l \in Local /\ l.pc = "markRead" /\ l.row = caller[c].row
        /\ l.aged = caller[c].aged /\ l.mark = "FAILED" /\ l.id = 0 /\ ~l.inTry
    BY <1>1 DEF Local, PCs, OrderStatus
  <1>4. reqs' = [reqs EXCEPT ![n] = req] /\ Becomes(c, l) /\ reqs \in Seq(Req)
    BY DEF AckMisread, TypeOK
  <1> HIDE DEF n, req, l
  <1>5. n \in DOMAIN reqs
    BY <1>1 DEF n, ReqIds
  <1>6. /\ reqs' \in Seq(Req) /\ ReqIds' = ReqIds /\ reqs'[n] = req
        /\ \A m \in ReqIds \ {n} : reqs'[m] = reqs[m]
    BY <1>2, <1>4, <1>5, PutSeq DEF ReqIds
  <1>7. \A m \in ReqIds : reqs'[m].row = reqs[m].row /\ reqs'[m].fate = reqs[m].fate
    BY <1>2, <1>6
  <1> QED
    BY <1>1, <1>2, <1>3, <1>4, <1>6, <1>7 DEF n, RowIds

LEMMA MisreadStep ==
    ASSUME TypeOK, BookInv, UNCHANGED env, NEW c \in Callers, AckMisread(c)
    PROVE  TypeOK' /\ BookInv'
  <1>1. /\ UNCHANGED <<rows, sync, crashes, env>> /\ caller[c].pc = "calling"
        /\ RowIds' = RowIds /\ ReqIds' = ReqIds /\ reqs' \in Seq(Req)
        /\ \A n \in ReqIds : reqs'[n].row = reqs[n].row /\ reqs'[n].fate = reqs[n].fate
    BY MisreadCase
  <1>2. PICK l \in Local : /\ Becomes(c, l) /\ l.pc = "markRead" /\ l.row = caller[c].row
                           /\ l.mark = "FAILED" /\ l.id = 0
    BY MisreadCase
  <1>3. /\ caller' \in [Callers -> Local] /\ caller'[c] = l
        /\ \A d \in Callers \ {c} : caller'[d] = caller[d]
    BY <1>2, Put
  <1>4. TypeOK'
    BY <1>1, <1>3 DEF TypeOK
  <1>5. Grown
    BY <1>1 DEF Grown
  <1>6. Held(c)'
    BY <1>1, <1>2, <1>3 DEF BookInv, Held, InCall, Marks
  <1>7. BookInv'
    BY <1>1, <1>3, <1>5, <1>6, BookMove
  <1> QED
    BY <1>4, <1>7

LEMMA WindowCase ==
    ASSUME TypeOK, NEW r \in RowIds, WindowCloses(r)
    PROVE  /\ UNCHANGED <<reqs, caller, sync, crashes>>
           /\ \E row \in Row :
                 /\ row.key = rows[r].key /\ row.kind = rows[r].kind /\ row.of = rows[r].of
                 /\ row.status = rows[r].status /\ row.bid = rows[r].bid
                 /\ rows' \in Seq(Row) /\ RowIds' = RowIds /\ rows'[r] = row
                 /\ \A q \in RowIds \ {r} : rows'[q] = rows[q]
  <1> DEFINE row == [rows[r] EXCEPT !.aged = TRUE]
  <1>1. /\ row \in Row /\ row.key = rows[r].key /\ row.kind = rows[r].kind /\ row.of = rows[r].of
        /\ row.status = rows[r].status /\ row.bid = rows[r].bid
    BY Shapes DEF Row
  <1>2. rows' = [rows EXCEPT ![r] = row] /\ UNCHANGED <<reqs, caller, sync, crashes>>
    BY DEF WindowCloses
  <1> HIDE DEF row
  <1> QED
    BY <1>1, <1>2, RowPut

LEMMA WindowStep ==
    ASSUME TypeOK, BookInv, UNCHANGED env, NEW r \in RowIds, WindowCloses(r)
    PROVE  TypeOK' /\ BookInv'
  <1>1. UNCHANGED <<reqs, caller, sync, crashes, env>>
    BY WindowCase
  <1>2. PICK row \in Row :
                 /\ row.key = rows[r].key /\ row.kind = rows[r].kind /\ row.of = rows[r].of
                 /\ row.status = rows[r].status /\ row.bid = rows[r].bid
                 /\ rows' \in Seq(Row) /\ RowIds' = RowIds /\ rows'[r] = row
                 /\ \A q \in RowIds \ {r} : rows'[q] = rows[q]
    BY WindowCase
  <1>3. ReqIds' = ReqIds
    BY <1>1 DEF ReqIds
  <1>4. Grown
    BY <1>1, <1>2, <1>3 DEF Grown
  <1>5. TypeOK'
    BY <1>1, <1>2 DEF TypeOK
  <1>6. BookInv'
    BY <1>1, <1>2, <1>3, <1>4, BookMove
  <1> QED
    BY <1>5, <1>6

LEMMA CrashStep ==
    ASSUME TypeOK, BookInv, UNCHANGED env, Crash
    PROVE  TypeOK' /\ BookInv'
  <1>1. UNCHANGED <<rows, reqs, env>> /\ crashes' \in Nat /\ sync' = IdleSync
    BY DEF Crash, TypeOK
  <1>2. RowIds' = RowIds /\ ReqIds' = ReqIds /\ Grown
    BY <1>1, SameTables DEF Grown
  <1>3. \A c \in Callers : caller[c].attempts \in Nat /\ caller'[c] = IdleCaller(caller[c].attempts)
    BY Shapes DEF Crash, Local
  <1>4. \A c \in Callers : /\ caller'[c] \in Local /\ caller'[c].pc = "idle" /\ caller'[c].id = 0
    BY <1>3, IdleType
  <1>5. caller' \in [Callers -> Local]
    BY <1>4 DEF Crash
  <1>6. sync' \in Sync /\ sync'.pc = "idle"
    BY <1>1 DEF IdleSync, Sync, OrderStatus
  <1>7. TypeOK'
    BY <1>1, <1>5, <1>6 DEF TypeOK
  <1>8. \A c \in Callers : Held(c)'
    BY <1>4 DEF Held, InCall, Marks
  <1>9. SyncOk'
    BY <1>6 DEF SyncOk
  <1>10. BookInv'
    BY <1>1, <1>2, <1>8, <1>9, BookMove
  <1> QED
    BY <1>7, <1>10

LEMMA MapType ==
    ASSUME NEW s \in BookStatus, NEW filled \in {0, 1}
    PROVE  mapKiteOrderStatus(s, filled, 1) \in OrderStatus
  BY DEF mapKiteOrderStatus, BookStatus, OrderStatus

LEMMA SyncReadStep ==
    ASSUME TypeOK, BookInv, UNCHANGED env, NEW n \in ReqIds, SyncRead(n)
    PROVE  TypeOK' /\ BookInv'
  <1>1. UNCHANGED <<rows, reqs, caller, crashes, env>> /\ reqs[n].fate \in BookStatus /\ n \in Nat
    BY Shapes DEF SyncRead
  <1>2. PICK next \in OrderStatus :
            \/ \E r \in BrokerRows(n) :
                  sync' = [pc |-> "write", id |-> n, row |-> r, from |-> rows[r].status,
                           next |-> next]
            \/ sync' = [IdleSync EXCEPT !.pc = "create", !.id = n, !.next = next]
    <2> DEFINE filled == IF reqs[n].fate = "COMPLETE" THEN 1 ELSE 0
    <2>1. mapKiteOrderStatus(reqs[n].fate, filled, 1) \in OrderStatus
      BY <1>1, MapType
    <2> QED
      BY <2>1 DEF SyncRead
  <1>3. CASE \E r \in BrokerRows(n) :
                sync' = [pc |-> "write", id |-> n, row |-> r, from |-> rows[r].status,
                         next |-> next]
    <2>1. PICK r \in BrokerRows(n) :
                sync' = [pc |-> "write", id |-> n, row |-> r, from |-> rows[r].status,
                         next |-> next]
      BY <1>3
    <2>2. r \in RowIds /\ r \in Nat /\ rows[r] \in Row /\ rows[r].bid = n
      BY Shapes DEF BrokerRows
    <2>3. sync' \in Sync /\ sync'.pc = "write" /\ sync'.id = n /\ sync'.row = r
      BY <1>1, <2>1, <2>2 DEF Sync, Row
    <2>4. Good(n, rows[r].key) /\ (rows[r].kind = "broker" => rows[r].of = n)
      BY <1>1, <2>2, Shapes DEF BookInv, RowOk
    <2>5. SyncOk'
      BY <1>1, <2>2, <2>3, <2>4, SameTables DEF SyncOk
    <2>6. Grown
      BY <1>1, SameTables DEF Grown
    <2>7. BookInv'
      BY <1>1, <2>5, <2>6, SameTables, BookMove
    <2> QED
      BY <1>1, <2>3, <2>7 DEF TypeOK
  <1>4. CASE sync' = [IdleSync EXCEPT !.pc = "create", !.id = n, !.next = next]
    <2>1. sync' \in Sync /\ sync'.pc = "create" /\ sync'.id = n
      BY <1>1, <1>4 DEF Sync, IdleSync, OrderStatus
    <2>2. SyncOk'
      BY <1>1, <2>1, SameTables DEF SyncOk
    <2>3. Grown
      BY <1>1, SameTables DEF Grown
    <2>4. BookInv'
      BY <1>1, <2>2, <2>3, SameTables, BookMove
    <2> QED
      BY <1>1, <2>1, <2>4 DEF TypeOK
  <1> QED
    BY <1>2, <1>3, <1>4

LEMMA SyncCreateStep ==
    ASSUME TypeOK, BookInv, UNCHANGED env, SyncCreate
    PROVE  TypeOK' /\ BookInv'
  <1>1. UNCHANGED <<reqs, caller, crashes, env>> /\ sync.pc = "create" /\ sync \in Sync
    BY Shapes DEF SyncCreate
  <1>2. /\ sync.id \in ReqIds /\ reqs[sync.id].fate \in BookStatus /\ sync.id # 0
        /\ reqs[sync.id].row \in RowIds
    BY <1>1, Shapes DEF BookInv, SyncOk
  <1>3. CASE /\ rows' = Append(rows, NewRow("broker", ReqKey(sync.id), sync.id))
             /\ sync' = [sync EXCEPT !.pc = "write", !.row = Len(rows) + 1, !.from = "PENDING"]
    <2>1. ReqKey(sync.id) \in Keys /\ sync.id \in Nat
      BY <1>1, <1>2, Shapes DEF ReqKey, Row, Sync
    <2>2. PICK row \in Row : /\ row = NewRow("broker", ReqKey(sync.id), sync.id)
                             /\ row.key = ReqKey(sync.id) /\ row.bid = 0 /\ row.of = sync.id
      BY <2>1, NewRowType
    <2>3. PICK a \in Nat : /\ a = Len(rows) + 1 /\ a \notin RowIds
                           /\ rows' \in Seq(Row) /\ RowIds' = RowIds \cup {a} /\ rows'[a] = row
                           /\ \A r \in RowIds : rows'[r] = rows[r]
      BY <1>3, <2>2, RowAdd
    <2>4. ReqIds' = ReqIds
      BY <1>1 DEF ReqIds
    <2>5. Grown
      BY <1>1, <2>3, <2>4 DEF Grown
    <2>6. sync' \in Sync /\ sync'.pc = "write" /\ sync'.id = sync.id /\ sync'.row = a
      BY <1>1, <1>3, <2>3 DEF Sync, OrderStatus
    <2>7. Good(sync.id, row.key)
      BY <1>2, <2>2 DEF Good
    <2>8. \A n, k : Good(n, k) => Good(n, k)'
      BY <2>5, GoodStays
    <2>9. RowOk(a)' /\ SyncOk'
      BY <1>1, <1>2, <2>2, <2>3, <2>4, <2>6, <2>7, <2>8 DEF RowOk, SyncOk
    <2>10. BookInv'
      BY <1>1, <2>3, <2>4, <2>5, <2>9, BookMove
    <2> QED
      BY <1>1, <2>3, <2>6, <2>10 DEF TypeOK
  <1>4. ASSUME NEW r \in RowIds, rows[r].kind = "broker", rows[r].of = sync.id, UNCHANGED rows,
               sync' = [sync EXCEPT !.pc = "write", !.row = r, !.from = rows[r].status]
        PROVE  TypeOK' /\ BookInv'
    <2>1. r \in Nat /\ rows[r] \in Row
      BY Shapes
    <2>2. sync' \in Sync /\ sync'.pc = "write" /\ sync'.id = sync.id /\ sync'.row = r
      BY <1>1, <1>4, <2>1 DEF Sync, Row
    <2>3. Good(sync.id, rows[r].key)
      BY <1>4 DEF BookInv, RowOk
    <2>4. SyncOk'
      BY <1>1, <1>2, <1>4, <2>2, <2>3, SameTables DEF SyncOk
    <2>5. Grown
      BY <1>1, <1>4, SameTables DEF Grown
    <2>6. BookInv'
      BY <1>1, <1>4, <2>4, <2>5, SameTables, BookMove
    <2> QED
      BY <1>1, <1>4, <2>2, <2>6 DEF TypeOK
  <1> QED
    BY <1>3, <1>4 DEF SyncCreate

\* The final UPDATE of the sync writes the id it read to the row it holds.
LEMMA SyncWriteCase ==
    ASSUME TypeOK, BookInv, SyncWrite
    PROVE  /\ UNCHANGED <<reqs, caller, crashes>> /\ sync.pc = "write" /\ sync' = IdleSync
           /\ \/ UNCHANGED rows
              \/ \E r \in RowIds : \E row \in Row :
                    /\ r = sync.row /\ row.bid = sync.id /\ row.key = rows[r].key
                    /\ row.kind = rows[r].kind /\ row.of = rows[r].of /\ row.aged = rows[r].aged
                    /\ rows' \in Seq(Row) /\ RowIds' = RowIds /\ rows'[r] = row
                    /\ \A q \in RowIds \ {r} : rows'[q] = rows[q]
  <1>1. UNCHANGED <<reqs, caller, crashes>> /\ sync.pc = "write" /\ sync' = IdleSync
    BY DEF SyncWrite
  <1> SUFFICES ASSUME rows' # rows
               PROVE  \E r \in RowIds : \E row \in Row :
                    /\ r = sync.row /\ row.bid = sync.id /\ row.key = rows[r].key
                    /\ row.kind = rows[r].kind /\ row.of = rows[r].of /\ row.aged = rows[r].aged
                    /\ rows' \in Seq(Row) /\ RowIds' = RowIds /\ rows'[r] = row
                    /\ \A q \in RowIds \ {r} : rows'[q] = rows[q]
    BY <1>1
  <1>2. PICK r \in RowIds : r = sync.row
    BY <1>1 DEF BookInv, SyncOk
  <1> DEFINE to == commitBrokerFillProgress(0, 0, TRUE, sync.from, sync.next).status
  <1>3. to \in OrderStatus /\ sync.id \in Nat /\ rows[r] \in Row
    BY Shapes DEF commitBrokerFillProgress, Sync, OrderStatus
  <1>4. PICK status \in OrderStatus :
            status = IF sync.from = to THEN rows[sync.row].status ELSE to
    BY <1>2, <1>3 DEF Row
  <1>5. rows' = [rows EXCEPT ![sync.row] =
                    [rows[sync.row] EXCEPT !.bid = sync.id, !.status = status]]
    BY <1>4 DEF SyncWrite
  <1> DEFINE row == [rows[r] EXCEPT !.bid = sync.id, !.status = status]
  <1>6. /\ row \in Row /\ row.bid = sync.id /\ row.key = rows[r].key
        /\ row.kind = rows[r].kind /\ row.of = rows[r].of /\ row.aged = rows[r].aged
    BY <1>3 DEF Row
  <1>7. rows' = [rows EXCEPT ![r] = row]
    BY <1>2, <1>5
  <1> HIDE DEF row
  <1>8. /\ rows' \in Seq(Row) /\ RowIds' = RowIds /\ rows'[r] = row
        /\ \A q \in RowIds \ {r} : rows'[q] = rows[q]
    BY <1>6, <1>7, RowPut
  <1> QED
    BY <1>2, <1>6, <1>8

LEMMA SyncWriteStep ==
    ASSUME TypeOK, BookInv, UNCHANGED env, SyncWrite
    PROVE  TypeOK' /\ BookInv'
  <1>1. /\ UNCHANGED <<reqs, caller, crashes, env>> /\ sync.pc = "write" /\ sync' = IdleSync
        /\ ReqIds' = ReqIds
    BY SyncWriteCase DEF ReqIds
  <1>2. sync' \in Sync /\ SyncOk'
    BY <1>1 DEF IdleSync, Sync, OrderStatus, SyncOk
  <1>3. CASE UNCHANGED rows
    <2>1. Grown
      BY <1>1, <1>3, SameTables DEF Grown
    <2>2. BookInv'
      BY <1>1, <1>2, <1>3, <2>1, SameTables, BookMove
    <2> QED
      BY <1>1, <1>2, <1>3, <2>2 DEF TypeOK
  <1>4. ASSUME NEW r \in RowIds, NEW row \in Row,
               r = sync.row, row.bid = sync.id, row.key = rows[r].key,
               row.kind = rows[r].kind, row.of = rows[r].of,
               rows' \in Seq(Row), RowIds' = RowIds, rows'[r] = row,
               \A q \in RowIds \ {r} : rows'[q] = rows[q]
        PROVE  TypeOK' /\ BookInv'
    <2>1. Grown
      BY <1>1, <1>4 DEF Grown
    <2>2. /\ Good(sync.id, rows[r].key) /\ RowOk(r)
          /\ rows[r].kind = "broker" => rows[r].of = sync.id
      BY <1>1, <1>4 DEF BookInv, SyncOk
    <2>3. \A n, k : Good(n, k) => Good(n, k)'
      BY <2>1, GoodStays
    <2>4. RowOk(r)'
      BY <1>4, <2>2, <2>3 DEF RowOk
    <2>5. BookInv'
      BY <1>1, <1>2, <1>4, <2>1, <2>4, BookMove
    <2> QED
      BY <1>1, <1>2, <1>4, <2>5 DEF TypeOK
  <1> QED
    BY <1>3, <1>4, SyncWriteCase

LEMMA BookNext == TypeOK /\ BookInv /\ [Next]_vars => TypeOK' /\ BookInv'
  <1> SUFFICES ASSUME TypeOK, BookInv, [Next]_vars PROVE TypeOK' /\ BookInv'
    OBVIOUS
  <1>1. CASE UNCHANGED vars
    <2>1. UNCHANGED <<rows, reqs, caller, sync, crashes, env>>
      BY <1>1 DEF vars
    <2>2. Grown
      BY <2>1, SameTables DEF Grown
    <2>3. BookInv'
      BY <2>1, <2>2, SameTables, BookMove
    <2> QED
      BY <2>1, <2>3 DEF TypeOK
  <1>2. ASSUME NEW c \in Callers, CallerStep(c), UNCHANGED env PROVE TypeOK' /\ BookInv'
    BY <1>2, RiskCheckStep, IntentSelectStep, IntentInsertStep, LookupStep, CallBrokerStep,
       AnswerStep, MisreadStep, MarkReadStep, MarkWriteStep, DbFailsStep, RetryStep
    DEF CallerStep
  <1> QED
    BY <1>1, <1>2, FateStep, WindowStep, CrashStep, SyncReadStep, SyncCreateStep, SyncWriteStep
    DEF Next, SyncStep

LEMMA BookHolds == Spec => [](TypeOK /\ BookInv)
  BY InitHolds, BookNext, PTL DEF Spec

-----------------------------------------------------------------------------
(***************************************************************************)
(* When one caller at a time places an intent: between its decision and    *)
(* its UPDATE the row of a call knows no order, or the call brings none    *)
(***************************************************************************)
Keep(c) ==
    /\ caller[c].pc = "insert" => IntentRows(env.keyOf[c]) = {}
    /\ caller[c].pc \in {"lookup", "call", "calling"} => rows[caller[c].row].bid = 0
    /\ caller[c].pc \in Marks => caller[c].id = 0 \/ rows[caller[c].row].bid = 0
    /\ caller[c].pc = "markWrite" => caller[c].curBid = rows[caller[c].row].bid

\* The sync holds the row that has its id, or the one made for it.
SyncKeeps ==
    sync.pc = "write" => rows[sync.row].bid = sync.id \/ rows[sync.row].kind = "broker"

Keeping == (\A c \in Callers : Keep(c)) /\ SyncKeeps

KeepInv == OneCallerPerIntent => Keeping

\* No row forgets its order or moves on to another.
BidsStay == \A r \in RowIds : rows[r].bid # 0 => rows'[r].bid = rows[r].bid

\* One activity moves: of the rows of another caller's intent none is added and
\* none gets an order.
LEMMA KeepMove ==
    ASSUME TypeOK, BookInv, Keeping, UNCHANGED env, Grown, BidsStay,
           \A d \in Callers :
              \/ Keep(d)'
              \/ /\ caller'[d] = caller[d]
                 /\ \A r \in RowIds' \ RowIds : rows'[r].kind # "intent" \/ rows'[r].key # env.keyOf[d]
                 /\ \A r \in RowIds : rows[r].key = env.keyOf[d] /\ rows[r].kind # "broker" =>
                       rows'[r].bid = rows[r].bid,
           SyncKeeps' \/ UNCHANGED sync
    PROVE  Keeping'
  <1>1. /\ RowIds \subseteq RowIds'
        /\ \A r \in RowIds : /\ rows'[r].key = rows[r].key /\ rows'[r].kind = rows[r].kind
                             /\ rows[r].bid # 0 => rows'[r].bid = rows[r].bid
    BY DEF Grown, BidsStay
  <1>2. ASSUME NEW d \in Callers, caller'[d] = caller[d],
               \A r \in RowIds' \ RowIds : rows'[r].kind # "intent" \/ rows'[r].key # env.keyOf[d],
               \A r \in RowIds : rows[r].key = env.keyOf[d] /\ rows[r].kind # "broker" =>
                  rows'[r].bid = rows[r].bid
        PROVE  Keep(d)'
    <2>1. Keep(d) /\ Held(d)
      BY DEF Keeping, BookInv
    <2>2. caller[d].pc = "insert" => IntentRows(env.keyOf[d])' = {}
      BY <1>1, <1>2, <2>1 DEF Keep, IntentRows
    <2>3. caller[d].pc \in InCall => rows'[caller[d].row].bid = rows[caller[d].row].bid
      BY <1>2, <2>1 DEF Held
    <2> QED
      BY <1>2, <2>1, <2>2, <2>3 DEF Keep, InCall, Marks
  <1>3. ASSUME UNCHANGED sync PROVE SyncKeeps'
    <2>1. sync.pc = "write" => sync.id \in ReqIds /\ sync.id # 0 /\ sync.row \in RowIds
      BY Shapes DEF BookInv, SyncOk
    <2> QED
      BY <1>1, <1>3, <2>1 DEF SyncKeeps, Keeping
  <1> QED
    BY <1>2, <1>3 DEF Keeping

LEMMA KeepLocal ==
    ASSUME TypeOK, BookInv, Keeping, UNCHANGED <<rows, reqs, sync, env>>,
           NEW c \in Callers, NEW l, Becomes(c, l), Keep(c)'
    PROVE  Keeping' /\ BidsStay
  <1>1. Grown /\ BidsStay /\ RowIds' = RowIds
    BY SameTables DEF Grown, BidsStay
  <1>2. \A d \in Callers \ {c} : caller'[d] = caller[d]
    BY Put
  <1> QED
    BY <1>1, <1>2, KeepMove

\* A call that holds no row has nothing to keep.
LEMMA KeepRest ==
    ASSUME NEW c, caller'[c].pc \notin InCall \cup {"insert"}
    PROVE  Keep(c)'
  BY DEF Keep, InCall, Marks

LEMMA KeepAdd ==
    ASSUME TypeOK, BookInv, Keeping, OneCallerPerIntent, UNCHANGED <<reqs, sync, env>>,
           NEW c \in Callers, NEW l, Becomes(c, l), NEW kind \in {"intent", "retry"},
           rows' = Append(rows, NewRow(kind, env.keyOf[c], 0)),
           \/ l.pc \notin InCall \cup {"insert"}
           \/ l.pc = "call" /\ l.row = Len(rows) + 1
    PROVE  Keeping' /\ BidsStay
  <1>1. env.keyOf[c] \in Keys /\ kind \in {"intent", "retry", "broker"} /\ 0 \in Nat
    BY Shapes
  <1>2. PICK row \in Row : /\ row.bid = 0 /\ row.key = env.keyOf[c]
                           /\ rows' = Append(rows, row)
    BY <1>1, NewRowType
  <1>3. PICK a \in Nat : /\ a = Len(rows) + 1 /\ a \notin RowIds /\ RowIds' = RowIds \cup {a}
                         /\ rows'[a] = row /\ \A r \in RowIds : rows'[r] = rows[r]
    BY <1>2, RowAdd
  <1>4. Grown /\ BidsStay
    BY <1>3 DEF Grown, BidsStay, ReqIds
  <1>5. caller'[c] = l /\ \A d \in Callers \ {c} : caller'[d] = caller[d]
    BY Put
  <1>6. \A d \in Callers \ {c} : env.keyOf[d] # env.keyOf[c]
    BY DEF OneCallerPerIntent
  <1>7. Keep(c)'
    BY <1>2, <1>3, <1>5 DEF Keep, InCall, Marks
  <1>8. \A d \in Callers \ {c} :
           /\ caller'[d] = caller[d]
           /\ \A r \in RowIds' \ RowIds : rows'[r].key # env.keyOf[d]
           /\ \A r \in RowIds : rows'[r].bid = rows[r].bid
    BY ZenonT(60), <1>2, <1>3, <1>5, <1>6
  <1> QED
    BY <1>4, <1>7, <1>8, KeepMove

LEMMA KeepSaved ==
    ASSUME TypeOK, BookInv, Keeping, UNCHANGED <<rows, reqs, sync, env>>,
           NEW c \in Callers, NEW r \in IntentRows(env.keyOf[c]), Proceed(c, r, FALSE, rows[r]),
           rows[r].status \notin RETRY_TERMINAL
    PROVE  Keeping' /\ BidsStay
  <1>1. rows[r] \in Row /\ caller[c] \in Local /\ r \in Nat
    BY Shapes DEF IntentRows
  <1>2. CASE rows[r].bid # 0 /\ Becomes(c, Ended(c, "ok", rows[r].bid))
    <2>1. Ended(c, "ok", rows[r].bid).pc = "ok"
      BY <1>1, EndedType DEF Row
    <2>2. Keep(c)'
      BY <1>2, <2>1, Put, KeepRest DEF InCall, Marks
    <2> QED
      BY <1>2, <2>2, KeepLocal
  <1>3. CASE /\ rows[r].bid = 0
             /\ Becomes(c, [caller[c] EXCEPT !.pc = "lookup", !.row = r, !.aged = rows[r].aged])
    <2> DEFINE l == [caller[c] EXCEPT !.pc = "lookup", !.row = r, !.aged = rows[r].aged]
    <2>1. l.pc = "lookup" /\ l.row = r
      BY <1>1 DEF Local
    <2>2. Becomes(c, l)
      BY <1>3
    <2> HIDE DEF l
    <2>3. Keep(c)'
      BY <1>3, <2>1, <2>2, Put DEF Keep, Marks
    <2> QED
      BY <2>2, <2>3, KeepLocal
  <1> QED
    BY <1>2, <1>3, ProceedCases

LEMMA KeepPlace ==
    ASSUME TypeOK, BookInv, Keeping, OneCallerPerIntent, UNCHANGED env, NEW c \in Callers,
           IntentSelect(c) \/ IntentInsert(c)
    PROVE  Keeping' /\ BidsStay
  <1>1. UNCHANGED <<reqs, sync, env>> /\ Keep(c) /\ caller[c] \in Local
    BY Shapes DEF IntentSelect, IntentInsert, Keeping
  <1>2. ASSUME NEW kind \in {"intent", "retry"},
               rows' = Append(rows, NewRow(kind, env.keyOf[c], 0)),
               Proceed(c, Len(rows) + 1, TRUE, NewRow(kind, env.keyOf[c], 0))
        PROVE  Keeping' /\ BidsStay
    <2> DEFINE l == [caller[c] EXCEPT !.pc = "call", !.row = Len(rows) + 1]
    <2>1. Becomes(c, l)
      BY <1>2, CreatedCase
    <2>2. l.pc = "call" /\ l.row = Len(rows) + 1
      BY <1>1 DEF Local
    <2> HIDE DEF l
    <2> QED
      BY <1>1, <1>2, <2>1, <2>2, KeepAdd
  <1>3. CASE /\ IntentRows(env.keyOf[c]) = {} /\ UNCHANGED rows
             /\ Becomes(c, [caller[c] EXCEPT !.pc = "insert"])
    <2>1. [caller[c] EXCEPT !.pc = "insert"].pc = "insert"
      BY <1>1 DEF Local
    <2>2. Keep(c)'
      BY ZenonT(60), <1>1, <1>3, <2>1, Put DEF Keep, Marks, IntentRows, RowIds
    <2> QED
      BY <1>1, <1>3, <2>2, KeepLocal
  <1>4. CASE IntentSelect(c)
    BY <1>1, <1>2, <1>3, <1>4, KeepSaved DEF IntentSelect
  <1>5. CASE IntentInsert(c)
    <2>1. IntentRows(env.keyOf[c]) = {}
      BY <1>1, <1>5 DEF IntentInsert, Keep
    <2> QED
      BY <1>2, <1>5, <2>1 DEF IntentInsert
  <1> QED
    BY <1>4, <1>5

LEMMA KeepLookup ==
    ASSUME TypeOK, BookInv, Keeping, UNCHANGED env, NEW c \in Callers,
           Lookup(c) \/ LookupFails(c)
    PROVE  Keeping' /\ BidsStay
  <1>1. /\ caller[c].pc = "lookup" /\ UNCHANGED <<rows, reqs, sync, crashes, env>>
        /\ caller[c] \in Local /\ Keep(c)
    BY Shapes DEF Lookup, LookupFails, Keeping
  <1>2. ASSUME NEW n \in BookMatches(env.keyOf[c]),
               Becomes(c, [caller[c] EXCEPT !.pc = "markRead", !.mark = "SUBMITTED",
                                            !.id = n, !.inTry = FALSE])
        PROVE  Keeping' /\ BidsStay
    <2> DEFINE l == [caller[c] EXCEPT !.pc = "markRead", !.mark = "SUBMITTED",
                                      !.id = n, !.inTry = FALSE]
    <2>1. l.pc = "markRead" /\ l.row = caller[c].row
      BY <1>1 DEF Local
    <2>2. Becomes(c, l)
      BY <1>2
    <2> HIDE DEF l
    <2>3. Keep(c)'
      BY <1>1, <2>1, <2>2, Put DEF Keep, Marks
    <2> QED
      BY <1>1, <2>2, <2>3, KeepLocal
  <1>3. CASE Becomes(c, [caller[c] EXCEPT !.pc = "call"])
    <2>1. /\ [caller[c] EXCEPT !.pc = "call"].pc = "call"
          /\ [caller[c] EXCEPT !.pc = "call"].row = caller[c].row
      BY <1>1 DEF Local
    <2>2. Keep(c)'
      BY <1>1, <1>3, <2>1, Put DEF Keep, Marks
    <2> QED
      BY <1>1, <1>3, <2>2, KeepLocal
  <1>4. CASE Becomes(c, Ended(c, "thrown", 0))
    <2>1. Ended(c, "thrown", 0).pc = "thrown"
      BY EndedType
    <2>2. Keep(c)'
      BY <1>4, <2>1, Put, KeepRest DEF InCall, Marks
    <2> QED
      BY <1>1, <1>4, <2>2, KeepLocal
  <1>5. \/ \E n \in BookMatches(env.keyOf[c]) :
             Becomes(c, [caller[c] EXCEPT !.pc = "markRead", !.mark = "SUBMITTED",
                                          !.id = n, !.inTry = FALSE])
        \/ Becomes(c, [caller[c] EXCEPT !.pc = "call"])
        \/ Becomes(c, Ended(c, "thrown", 0))
    BY DEF Lookup, LookupFails
  <1> QED
    BY <1>2, <1>3, <1>4, <1>5

\* What an answer of the broker, or the loss of it, does to a call.
LEMMA AnswerCase ==
    ASSUME TypeOK, BookInv, NEW c \in Callers,
           AckArrives(c) \/ RefusalArrives(c) \/ AckLost(c)
    PROVE  /\ UNCHANGED <<rows, reqs, sync, crashes>> /\ caller[c].pc = "calling"
           /\ \E l \in Local :
                 /\ Becomes(c, l) /\ l.pc = "markRead" /\ l.row = caller[c].row
                 /\ l.aged = caller[c].aged
                 /\ \/ /\ l.mark = "SUBMITTED" /\ l.id = caller[c].req /\ l.inTry
                       /\ reqs[caller[c].req].fate \in BookStatus
                    \/ /\ l.mark = "FAILED" /\ l.id = 0 /\ ~l.inTry
                       /\ reqs[caller[c].req].fate = "refused"
                    \/ l.mark = "UNKNOWN" /\ l.id = 0 /\ ~l.inTry
  <1>1. /\ caller[c].pc = "calling" /\ UNCHANGED <<rows, reqs, sync, crashes>>
        /\ caller[c] \in Local /\ caller[c].id = 0 /\ caller[c].req \in Nat
    BY Shapes DEF AckArrives, RefusalArrives, AckLost, BookInv, Held, Marks, Local
  <1>2. CASE AckArrives(c)
    <2> DEFINE l == [caller[c] EXCEPT !.pc = "markRead", !.mark = "SUBMITTED",
                                      !.id = caller[c].req, !.req = 0, !.inTry = TRUE]
    <2>1. /\ l \in Local /\ l.pc = "markRead" /\ l.row = caller[c].row
          /\ l.aged = caller[c].aged /\ l.mark = "SUBMITTED" /\ l.id = caller[c].req /\ l.inTry
      BY <1>1 DEF Local, PCs, OrderStatus
    <2>2. Becomes(c, l) /\ reqs[caller[c].req].fate \in BookStatus
      BY <1>2 DEF AckArrives
    <2> HIDE DEF l
    <2> QED
      BY <1>1, <2>1, <2>2
  <1>3. ASSUME NEW mark \in {"FAILED", "UNKNOWN"},
               Becomes(c, [caller[c] EXCEPT !.pc = "markRead", !.mark = mark, !.req = 0,
                                            !.inTry = FALSE])
        PROVE  \E l \in Local :
                 /\ Becomes(c, l) /\ l.pc = "markRead" /\ l.row = caller[c].row
                 /\ l.aged = caller[c].aged
                 /\ l.mark = mark /\ l.id = 0 /\ ~l.inTry
    <2> DEFINE l == [caller[c] EXCEPT !.pc = "markRead", !.mark = mark, !.req = 0,
                                      !.inTry = FALSE]
    <2>1. /\ l \in Local /\ l.pc = "markRead" /\ l.row = caller[c].row
          /\ l.aged = caller[c].aged /\ l.mark = mark /\ l.id = 0 /\ ~l.inTry
      BY <1>1 DEF Local, PCs, OrderStatus
    <2>2. Becomes(c, l)
      BY <1>3
    <2> HIDE DEF l
    <2> QED
      BY <2>1, <2>2
  <1>4. CASE RefusalArrives(c)
    BY <1>1, <1>3, <1>4 DEF RefusalArrives
  <1>5. CASE AckLost(c)
    BY <1>1, <1>3, <1>5 DEF AckLost
  <1> QED
    BY <1>2, <1>4, <1>5

LEMMA KeepAnswer ==
    ASSUME TypeOK, BookInv, Keeping, UNCHANGED env, NEW c \in Callers,
           AckArrives(c) \/ RefusalArrives(c) \/ AckLost(c)
    PROVE  Keeping' /\ BidsStay
  <1>1. UNCHANGED <<rows, reqs, sync, env>> /\ caller[c].pc = "calling" /\ Keep(c)
    BY AnswerCase DEF Keeping
  <1>2. PICK l \in Local : Becomes(c, l) /\ l.pc = "markRead" /\ l.row = caller[c].row
    BY AnswerCase
  <1>3. Keep(c)'
    BY <1>1, <1>2, Put DEF Keep, Marks
  <1> QED
    BY <1>1, <1>2, <1>3, KeepLocal

LEMMA KeepMisread ==
    ASSUME TypeOK, BookInv, Keeping, UNCHANGED env, NEW c \in Callers, AckMisread(c)
    PROVE  Keeping' /\ BidsStay
  <1>1. /\ UNCHANGED <<rows, sync, env>> /\ caller[c].pc = "calling"
        /\ RowIds' = RowIds /\ ReqIds' = ReqIds
        /\ \A n \in ReqIds : reqs'[n].row = reqs[n].row /\ reqs'[n].fate = reqs[n].fate
    BY MisreadCase
  <1>2. PICK l \in Local : Becomes(c, l) /\ l.pc = "markRead" /\ l.id = 0
    BY MisreadCase
  <1>3. caller'[c] = l /\ \A d \in Callers \ {c} : caller'[d] = caller[d]
    BY <1>2, Put
  <1>4. Grown /\ BidsStay
    BY <1>1 DEF Grown, BidsStay
  <1>5. Keep(c)'
    BY <1>1, <1>2, <1>3 DEF Keep, Marks
  <1> QED
    BY <1>1, <1>3, <1>4, <1>5, KeepMove

LEMMA MarkReadCase ==
    ASSUME TypeOK, BookInv, NEW c \in Callers, MarkRead(c)
    PROVE  /\ UNCHANGED <<rows, reqs, sync, crashes>> /\ caller[c].pc = "markRead"
           /\ \E l \in Local :
                 /\ Becomes(c, l) /\ l.pc = "markWrite" /\ l.row = caller[c].row
                 /\ l.aged = caller[c].aged /\ l.mark = caller[c].mark
                 /\ l.id = caller[c].id /\ l.inTry = caller[c].inTry
                 /\ l.curBid = rows[caller[c].row].bid
  <1> DEFINE r == caller[c].row
             l == [caller[c] EXCEPT !.pc = "markWrite", !.cur = rows[r].status,
                                    !.curBid = rows[r].bid]
  <1>1. /\ caller[c].pc = "markRead" /\ UNCHANGED <<rows, reqs, sync, crashes>>
        /\ caller[c] \in Local /\ Held(c) /\ Becomes(c, l)
    BY Shapes DEF MarkRead, BookInv
  <1>2. rows[r] \in Row
    BY <1>1, Shapes DEF Held, InCall, Marks
  <1>3. /\ l \in Local /\ l.pc = "markWrite" /\ l.row = r /\ l.mark = caller[c].mark
        /\ l.id = caller[c].id /\ l.curBid = rows[r].bid
        /\ l.aged = caller[c].aged /\ l.inTry = caller[c].inTry
    BY <1>1, <1>2 DEF Local, PCs, Row
  <1> HIDE DEF l
  <1> QED
    BY <1>1, <1>3

LEMMA KeepMarkRead ==
    ASSUME TypeOK, BookInv, Keeping, UNCHANGED env, NEW c \in Callers, MarkRead(c)
    PROVE  Keeping' /\ BidsStay
  <1>1. UNCHANGED <<rows, reqs, sync, env>> /\ caller[c].pc = "markRead" /\ Keep(c)
    BY MarkReadCase DEF Keeping
  <1>2. PICK l \in Local : /\ Becomes(c, l) /\ l.pc = "markWrite" /\ l.row = caller[c].row
                           /\ l.id = caller[c].id /\ l.curBid = rows[caller[c].row].bid
    BY MarkReadCase
  <1>3. Keep(c)'
    BY <1>1, <1>2, Put DEF Keep, Marks
  <1> QED
    BY <1>1, <1>2, <1>3, KeepLocal

\* The UPDATE and what follows it: a row that knows an order keeps it, because
\* the call then brings no id and the one it read is still there.
LEMMA KeepWrite ==
    ASSUME TypeOK, BookInv, Keeping, OneCallerPerIntent, UNCHANGED <<reqs, sync, env>>,
           NEW c \in Callers, caller[c].pc \in Marks, NEW l, Becomes(c, l),
           \/ l.pc \notin InCall \cup {"insert"}
           \/ l.pc = "markRead" /\ l.id = 0,
           UNCHANGED rows \/ (caller[c].pc = "markWrite" /\ MarkUpdate(c))
    PROVE  Keeping' /\ BidsStay
  <1>1. caller'[c] = l /\ \A d \in Callers \ {c} : caller'[d] = caller[d]
    BY Put
  <1>2. Keep(c)'
    BY <1>1 DEF Keep, InCall, Marks
  <1>3. CASE UNCHANGED rows
    BY <1>2, <1>3, KeepLocal
  <1>4. CASE caller[c].pc = "markWrite" /\ MarkUpdate(c)
    <2>1. PICK r \in RowIds, row \in Row :
              /\ r = caller[c].row /\ rows[r].key = env.keyOf[c]
              /\ row.key = rows[r].key /\ row.kind = rows[r].kind /\ row.of = rows[r].of
              /\ row.bid = MarkBid(c)
              /\ RowIds' = RowIds /\ rows'[r] = row
              /\ \A q \in RowIds \ {r} : rows'[q] = rows[q]
      BY <1>4, UpdateCase
    <2>2. rows[r].bid # 0 => row.bid = rows[r].bid
      BY <1>4, <2>1 DEF Keeping, Keep, MarkBid, Marks
    <2>3. Grown /\ BidsStay
      BY <2>1, <2>2 DEF Grown, BidsStay, ReqIds
    <2>4. \A d \in Callers \ {c} : env.keyOf[d] # env.keyOf[c]
      BY DEF OneCallerPerIntent
    <2>5. \A d \in Callers \ {c} :
             /\ caller'[d] = caller[d]
             /\ \A q \in RowIds : rows[q].key = env.keyOf[d] => rows'[q].bid = rows[q].bid
      BY <1>1, <2>1, <2>4
    <2> QED
      BY <1>2, <2>1, <2>3, <2>5, KeepMove
  <1> QED
    BY <1>3, <1>4

LEMMA KeepMarkWrite ==
    ASSUME TypeOK, BookInv, Keeping, OneCallerPerIntent, UNCHANGED env, NEW c \in Callers,
           MarkWrite(c)
    PROVE  Keeping' /\ BidsStay
  <1>1. caller[c].pc = "markWrite" /\ UNCHANGED <<reqs, sync, crashes, env>>
    BY DEF MarkWrite
  <1>2. PICK l : /\ Becomes(c, l) /\ (MarkUpdate(c) \/ UNCHANGED rows)
                 /\ \/ l = Ended(c, "thrown", 0)
                    \/ l = Ended(c, "ok", caller[c].id) /\ caller[c].mark = "SUBMITTED"
                    \/ l = AfterError(c, "FAILED")
    BY ErrorCase DEF MarkWrite
  <1>3. l.pc \in {"markRead", "ok", "thrown"} /\ (l.pc = "markRead" => l.id = 0)
    BY <1>1, <1>2, AfterWrite DEF Marks
  <1> QED
    BY <1>1, <1>2, <1>3, KeepWrite DEF InCall, Marks

LEMMA KeepDbFails ==
    ASSUME TypeOK, BookInv, Keeping, OneCallerPerIntent, UNCHANGED env, NEW c \in Callers,
           DbFails(c)
    PROVE  Keeping' /\ BidsStay
  <1>1. UNCHANGED <<reqs, sync, crashes, env>>
    BY DEF DbFails
  <1>2. Ended(c, "thrown", 0).pc = "thrown"
    BY EndedType
  <1>3. CASE Becomes(c, Ended(c, "thrown", 0)) /\ UNCHANGED rows
    <2>1. Keep(c)'
      BY <1>2, <1>3, Put, KeepRest DEF InCall, Marks
    <2> QED
      BY <1>1, <1>3, <2>1, KeepLocal
  <1>4. ASSUME NEW kind \in {"intent", "retry"}, Becomes(c, Ended(c, "thrown", 0)),
               rows' = Append(rows, NewRow(kind, env.keyOf[c], 0))
        PROVE  Keeping' /\ BidsStay
    <2> DEFINE l == Ended(c, "thrown", 0)
    <2>1. l.pc \notin InCall \cup {"insert"} /\ Becomes(c, l)
      BY <1>2, <1>4 DEF InCall, Marks
    <2> HIDE DEF l
    <2> QED
      BY <1>1, <1>4, <2>1, KeepAdd
  <1>5. ASSUME caller[c].pc \in Marks, NEW mark \in {"FAILED", "UNKNOWN"}, MarkError(c, mark),
               UNCHANGED rows \/ (caller[c].pc = "markWrite" /\ MarkUpdate(c))
        PROVE  Keeping' /\ BidsStay
    <2>1. PICK l : l = AfterError(c, mark) /\ Becomes(c, l)
      BY <1>5, ErrorCase
    <2>2. /\ l.pc \in {"markRead", "ok", "thrown"}
          /\ l.pc = "markRead" => l.id = 0
      BY <1>5, <2>1, AfterWrite
    <2> QED
      BY <1>1, <1>5, <2>1, <2>2, KeepWrite DEF InCall, Marks
  <1> QED
    BY <1>3, <1>4, <1>5 DEF DbFails, Marks

LEMMA KeepRiskCheck ==
    ASSUME TypeOK, BookInv, Keeping, UNCHANGED env, NEW c \in Callers, RiskCheck(c)
    PROVE  Keeping' /\ BidsStay
  <1>1. PICK pc \in {"rejected", "select"} : \E n :
            Becomes(c, [caller[c] EXCEPT !.attempts = n, !.pc = pc])
    BY DEF RiskCheck
  <1>2. PICK n : Becomes(c, [caller[c] EXCEPT !.attempts = n, !.pc = pc])
    BY <1>1
  <1>3. [caller[c] EXCEPT !.attempts = n, !.pc = pc].pc = pc
    BY Shapes DEF Local
  <1>4. Keep(c)'
    BY <1>2, <1>3, Put, KeepRest DEF InCall, Marks
  <1> QED
    BY <1>2, <1>4, KeepLocal DEF RiskCheck

LEMMA KeepRetry ==
    ASSUME TypeOK, BookInv, Keeping, UNCHANGED env, NEW c \in Callers, Retry(c)
    PROVE  Keeping' /\ BidsStay
  <1>1. IdleCaller(caller[c].attempts).pc = "idle"
    BY DEF IdleCaller
  <1>2. Keep(c)'
    BY <1>1, Put, KeepRest DEF Retry, InCall, Marks
  <1> QED
    BY <1>2, KeepLocal DEF Retry

LEMMA KeepCallBroker ==
    ASSUME TypeOK, BookInv, Keeping, UNCHANGED env, NEW c \in Callers, CallBroker(c)
    PROVE  Keeping' /\ BidsStay
  <1>1. UNCHANGED <<rows, sync, env>> /\ caller[c].pc = "call" /\ RowIds' = RowIds
    BY DEF CallBroker, RowIds
  <1>2. PICK a, l : /\ ReqIds' = ReqIds \cup {a} /\ \A n \in ReqIds : reqs'[n] = reqs[n]
                    /\ Becomes(c, l) /\ l.pc = "calling" /\ l.row = caller[c].row
    BY CallBrokerCase
  <1>3. Grown /\ BidsStay
    BY <1>1, <1>2 DEF Grown, BidsStay
  <1>4. caller'[c] = l /\ \A d \in Callers \ {c} : caller'[d] = caller[d]
    BY <1>2, Put
  <1>5. Keep(c)
    BY DEF Keeping
  <1>6. Keep(c)'
    BY <1>1, <1>2, <1>4, <1>5 DEF Keep, Marks
  <1> QED
    BY <1>1, <1>3, <1>4, <1>6, KeepMove

\* Steps that touch neither the ids nor the locals.
LEMMA KeepOther ==
    ASSUME TypeOK, BookInv, Keeping, UNCHANGED <<caller, sync, env>>, RowIds' = RowIds, Grown,
           \A r \in RowIds : rows'[r].bid = rows[r].bid
    PROVE  Keeping' /\ BidsStay
  <1>1. BidsStay
    BY DEF BidsStay
  <1> QED
    BY <1>1, KeepMove

LEMMA KeepFate ==
    ASSUME TypeOK, BookInv, Keeping, UNCHANGED env, NEW n \in ReqIds, BrokerStep(n)
    PROVE  Keeping' /\ BidsStay
  <1>1. UNCHANGED <<rows, caller, sync, env>> /\ RowIds' = RowIds
    BY FateCase DEF RowIds
  <1>2. PICK req \in Req :
                 /\ req.row = reqs[n].row
                 /\ reqs[n].fate = "wire" \/ (reqs[n].fate = "OPEN"
                       /\ req.fate \in {"COMPLETE", "REJECTED", "CANCELLED"})
                 /\ ReqIds' = ReqIds /\ reqs'[n] = req
                 /\ \A m \in ReqIds \ {n} : reqs'[m] = reqs[m]
    BY FateCase
  <1>3. Grown
    BY <1>1, <1>2 DEF Grown, BookStatus
  <1> QED
    BY <1>1, <1>3, KeepOther

LEMMA KeepWindow ==
    ASSUME TypeOK, BookInv, Keeping, UNCHANGED env, NEW r \in RowIds, WindowCloses(r)
    PROVE  Keeping' /\ BidsStay
  <1>1. UNCHANGED <<reqs, caller, sync, env>> /\ ReqIds' = ReqIds
    BY WindowCase DEF ReqIds
  <1>2. PICK row \in Row :
                 /\ row.key = rows[r].key /\ row.kind = rows[r].kind /\ row.of = rows[r].of
                 /\ row.bid = rows[r].bid
                 /\ RowIds' = RowIds /\ rows'[r] = row
                 /\ \A q \in RowIds \ {r} : rows'[q] = rows[q]
    BY WindowCase
  <1>3. Grown
    BY <1>1, <1>2 DEF Grown
  <1> QED
    BY <1>1, <1>2, <1>3, KeepOther

LEMMA KeepCrash ==
    ASSUME TypeOK, BookInv, Keeping, UNCHANGED env, Crash
    PROVE  Keeping' /\ BidsStay
  <1>1. Grown /\ BidsStay /\ RowIds' = RowIds
    BY SameTables DEF Crash, Grown, BidsStay
  <1>2. \A c \in Callers : caller'[c].pc = "idle"
    BY DEF Crash, IdleCaller
  <1>3. \A c \in Callers : Keep(c)'
    BY <1>2, KeepRest DEF InCall, Marks
  <1>4. SyncKeeps'
    BY DEF SyncKeeps, Crash, IdleSync
  <1> QED
    BY <1>1, <1>3, <1>4, KeepMove

LEMMA KeepSync ==
    ASSUME TypeOK, BookInv, Keeping, UNCHANGED env, SyncStep
    PROVE  Keeping' /\ BidsStay
  <1>1. CASE \E n \in ReqIds : SyncRead(n)
    <2>1. PICK n \in ReqIds : SyncRead(n)
      BY <1>1
    <2>2. UNCHANGED <<rows, reqs, caller, crashes>>
      BY <2>1 DEF SyncRead
    <2>3. Grown /\ BidsStay /\ RowIds' = RowIds
      BY <2>2, SameTables DEF Grown, BidsStay
    <2>4. PICK next : \/ \E r \in BrokerRows(n) :
                             sync' = [pc |-> "write", id |-> n, row |-> r,
                                      from |-> rows[r].status, next |-> next]
                      \/ sync' = [IdleSync EXCEPT !.pc = "create", !.id = n, !.next = next]
      BY <2>1 DEF SyncRead
    <2>5. SyncKeeps'
      <3>1. ASSUME NEW r \in BrokerRows(n),
                   sync' = [pc |-> "write", id |-> n, row |-> r, from |-> rows[r].status,
                            next |-> next]
            PROVE  SyncKeeps'
        <4>1. sync'.row = r /\ sync'.id = n /\ rows'[r].bid = n
          BY <2>2, <3>1 DEF BrokerRows
        <4> QED
          BY <4>1 DEF SyncKeeps
      <3>2. CASE sync' = [IdleSync EXCEPT !.pc = "create", !.id = n, !.next = next]
        <4>1. sync'.pc = "create"
          BY <3>2 DEF IdleSync
        <4> QED
          BY <4>1 DEF SyncKeeps
      <3> QED
        BY <2>4, <3>1, <3>2
    <2> QED
      BY <2>2, <2>3, <2>5, KeepMove
  <1>2. CASE SyncCreate
    <2>1. UNCHANGED <<reqs, caller, crashes>> /\ sync.pc = "create" /\ sync \in Sync
          /\ ReqIds' = ReqIds
      BY <1>2, Shapes DEF SyncCreate, ReqIds
    <2>2. CASE /\ rows' = Append(rows, NewRow("broker", ReqKey(sync.id), sync.id))
               /\ sync' = [sync EXCEPT !.pc = "write", !.row = Len(rows) + 1, !.from = "PENDING"]
      <3>1. /\ sync.id \in ReqIds /\ reqs[sync.id].row \in RowIds /\ sync.id \in Nat
            /\ ReqKey(sync.id) \in Keys
        BY <2>1, Shapes DEF BookInv, SyncOk, ReqKey, Row, Sync
      <3>2. PICK row \in Row : /\ row = NewRow("broker", ReqKey(sync.id), sync.id)
                               /\ row.kind = "broker"
        BY <3>1, NewRowType
      <3>3. PICK a \in Nat : /\ a = Len(rows) + 1 /\ a \notin RowIds
                             /\ RowIds' = RowIds \cup {a} /\ rows'[a] = row
                             /\ \A r \in RowIds : rows'[r] = rows[r]
        BY <2>2, <3>2, RowAdd
      <3>4. Grown /\ BidsStay
        BY <2>1, <3>3 DEF Grown, BidsStay
      <3>5. sync'.row = a
        BY <2>1, <2>2, <3>3 DEF Sync
      <3>6. SyncKeeps'
        BY <3>2, <3>3, <3>5 DEF SyncKeeps
      <3> QED
        BY <2>1, <3>2, <3>3, <3>4, <3>6, KeepMove
    <2>3. ASSUME NEW r \in RowIds, rows[r].kind = "broker", UNCHANGED rows,
                 sync' = [sync EXCEPT !.pc = "write", !.row = r, !.from = rows[r].status]
          PROVE  Keeping' /\ BidsStay
      <3>1. Grown /\ BidsStay /\ RowIds' = RowIds
        BY <2>1, <2>3, SameTables DEF Grown, BidsStay
      <3>2. SyncKeeps'
        BY <2>1, <2>3 DEF SyncKeeps, Sync
      <3> QED
        BY <2>1, <2>3, <3>1, <3>2, KeepMove
    <2> QED
      BY <1>2, <2>2, <2>3 DEF SyncCreate
  <1>3. CASE SyncWrite
    <2>1. UNCHANGED <<reqs, caller, crashes>> /\ sync.pc = "write" /\ sync' = IdleSync
          /\ ReqIds' = ReqIds
      BY <1>3, SyncWriteCase DEF ReqIds
    <2>2. SyncKeeps'
      BY <2>1 DEF SyncKeeps, IdleSync
    <2>3. CASE UNCHANGED rows
      <3>1. Grown /\ BidsStay /\ RowIds' = RowIds
        BY <2>1, <2>3, SameTables DEF Grown, BidsStay
      <3> QED
        BY <2>1, <2>2, <2>3, <3>1, KeepMove
    <2>4. ASSUME NEW r \in RowIds, NEW row \in Row,
                 r = sync.row, row.bid = sync.id, row.key = rows[r].key,
                 row.kind = rows[r].kind, row.of = rows[r].of, RowIds' = RowIds, rows'[r] = row,
                 \A q \in RowIds \ {r} : rows'[q] = rows[q]
          PROVE  Keeping' /\ BidsStay
      <3>1. Grown
        BY <2>1, <2>4 DEF Grown
      <3>2. rows[r].bid = sync.id \/ rows[r].kind = "broker"
        BY <2>1, <2>4 DEF Keeping, SyncKeeps
      <3>3. rows[r].bid # 0 => rows[r].bid = sync.id
        BY <2>1, <2>4, <3>2 DEF BookInv, SyncOk, RowOk
      <3>4. BidsStay
        BY <2>4, <3>3 DEF BidsStay
      <3>5. \A q \in RowIds : rows[q].kind # "broker" => rows'[q].bid = rows[q].bid
        BY <2>4, <3>2
      <3> QED
        BY <2>1, <2>2, <2>4, <3>1, <3>4, <3>5, KeepMove
    <2> QED
      BY <1>3, <2>3, <2>4, SyncWriteCase
  <1> QED
    BY <1>1, <1>2, <1>3 DEF SyncStep

LEMMA KeepNext ==
    ASSUME TypeOK, BookInv, KeepInv, [Next]_vars
    PROVE  KeepInv' /\ (OneCallerPerIntent => BidsStay)
  <1>1. UNCHANGED env
    BY DEF Next, vars
  <1>2. OneCallerPerIntent' <=> OneCallerPerIntent
    BY <1>1 DEF OneCallerPerIntent
  <1> SUFFICES ASSUME OneCallerPerIntent PROVE Keeping' /\ BidsStay
    BY <1>2 DEF KeepInv
  <1>3. Keeping
    BY DEF KeepInv
  <1>4. CASE UNCHANGED vars
    <2>1. UNCHANGED <<rows, reqs, caller, sync, env>>
      BY <1>4 DEF vars
    <2>2. Grown /\ RowIds' = RowIds
      BY <2>1, SameTables DEF Grown
    <2> QED
      BY <1>3, <2>1, <2>2, KeepOther
  <1>5. ASSUME NEW c \in Callers, CallerStep(c) PROVE Keeping' /\ BidsStay
    BY <1>1, <1>3, <1>5, KeepRiskCheck, KeepPlace, KeepLookup, KeepCallBroker, KeepAnswer,
       KeepMisread, KeepMarkRead, KeepMarkWrite, KeepDbFails, KeepRetry DEF CallerStep
  <1> QED
    BY <1>1, <1>3, <1>4, <1>5, KeepFate, KeepWindow, KeepCrash, KeepSync DEF Next

LEMMA KeepInit == Init => KeepInv
  <1> SUFFICES ASSUME Init PROVE KeepInv
    OBVIOUS
  <1>1. \A c \in Callers : caller[c].pc = "idle"
    BY DEF Init, IdleCaller
  <1> QED
    BY <1>1 DEF Init, IdleSync, KeepInv, Keeping, Keep, SyncKeeps, Marks

-----------------------------------------------------------------------------
\* The tables and what each activity holds across an await stay well formed,
\* in every setting.
THEOREM TypeCorrect == Spec => []TypeOK
  BY InitHolds, BookNext, PTL DEF Spec

LEMMA OkFromBook == BookInv => OkIsInBook
  BY DEF BookInv, Held, Good, OkIsInBook

\* A caller told that its order is placed was told an order of the broker's
\* book with the attributes it asked for, whatever acknowledgements, database
\* calls, restarts and sync passes came in between.
THEOREM OkIsInBookHolds == Spec => []OkIsInBook
  BY InitHolds, BookNext, OkFromBook, PTL DEF Spec

\* What matchingBrokerOrderId compares tells two intents apart.
AttrsTellKeys == \A k, l \in Keys : AttrOf[k] = AttrOf[l] => k = l

LEMMA OwnFromBook == TypeOK /\ BookInv /\ AttrsTellKeys => OwnOrder
  <1> SUFFICES ASSUME TypeOK, BookInv, AttrsTellKeys, NEW r \in RowIds, rows[r].bid # 0
               PROVE  ReqKey(rows[r].bid) = rows[r].key
    BY DEF OwnOrder
  <1>1. Good(rows[r].bid, rows[r].key)
    BY DEF BookInv, RowOk
  <1>2. reqs[rows[r].bid].row \in RowIds
    BY <1>1 DEF BookInv, Good
  <1>3. ReqKey(rows[r].bid) \in Keys /\ rows[r].key \in Keys
    BY <1>2, Shapes DEF ReqKey, Row
  <1> QED
    BY <1>1, <1>3 DEF Good, AttrsTellKeys

\* A ledger row carries the id of an order sent for its own intent, in every
\* setting, as long as no two intents look alike to the book lookup.
THEOREM OwnOrderHolds == Spec => [](AttrsTellKeys => OwnOrder)
  BY InitHolds, BookNext, OwnFromBook, PTL DEF Spec

\* A row that one caller at a time places never forgets the order it knows or
\* moves on to another, whatever fails, restarts or syncs meanwhile.
THEOREM KeepsOrderHolds == Spec => KeepsOrder
  <1>1. TypeOK /\ BookInv /\ KeepInv /\ [Next]_vars =>
           [OneCallerPerIntent =>
               \A r \in RowIds : rows[r].bid # 0 => rows'[r].bid = rows[r].bid]_vars
    BY KeepNext DEF BidsStay
  <1>2. TypeOK /\ BookInv /\ KeepInv /\ [Next]_vars => TypeOK' /\ BookInv' /\ KeepInv'
    BY BookNext, KeepNext
  <1>3. Init => TypeOK /\ BookInv /\ KeepInv
    BY InitHolds, KeepInit
  <1> QED
    BY <1>1, <1>2, <1>3, PTL DEF Spec, KeepsOrder

-----------------------------------------------------------------------------
(***************************************************************************)
(* The desk without database errors and without the sync: the ways a call  *)
(* can go on, from its locals to the next ones l                           *)
(***************************************************************************)
Undisturbed == ~env.sync /\ ~env.dbErrors /\ AttrsTellKeys

\* It ends, begins again or goes to the INSERT.
Rests(c, l) ==
    /\ l.pc \in {"idle", "select", "insert", "ok", "thrown", "rejected"}
    /\ l.aged => caller[c].aged

\* It looks for the order of a row of its intent.
Saved(c, l) ==
    /\ l.pc = "lookup" /\ l.row \in IntentRows(env.keyOf[c])
    /\ rows[l.row].status \notin RETRY_TERMINAL /\ l.aged = rows[l.row].aged

\* It lost the race of the INSERT to a call that has already failed.
Replaces(c, l) ==
    /\ caller[c].pc = "insert" /\ l.pc = "call" /\ l.row \in IntentRows(env.keyOf[c])
    /\ rows[l.row].status \in RETRY_TERMINAL /\ l.aged = caller[c].aged

\* The book has no order of its intent and the row is older than the window.
Missed(c, l) ==
    /\ caller[c].pc = "lookup" /\ l.pc = "call" /\ l.row = caller[c].row
    /\ caller[c].aged /\ l.aged /\ BookMatches(env.keyOf[c]) = {}
    /\ env.slow \/ \A n \in ReqIds : reqs[n].fate # "wire"

Found(c, l) ==
    /\ caller[c].pc = "lookup" /\ l.pc = "markRead" /\ l.row = caller[c].row
    /\ l.mark = "SUBMITTED" /\ ~l.inTry /\ l.aged = caller[c].aged

Answered(c, l) ==
    /\ caller[c].pc = "calling" /\ l.pc = "markRead" /\ l.row = caller[c].row
    /\ l.aged = caller[c].aged
    /\ \/ l.mark = "SUBMITTED" /\ l.id = caller[c].req /\ l.inTry
       \/ l.mark = "FAILED" /\ ~l.inTry /\ reqs[caller[c].req].fate = "refused"
       \/ l.mark = "UNKNOWN" /\ ~l.inTry

Reads(c, l) ==
    /\ caller[c].pc = "markRead" /\ l.pc = "markWrite" /\ l.row = caller[c].row
    /\ l.mark = caller[c].mark /\ l.id = caller[c].id /\ l.inTry = caller[c].inTry
    /\ l.aged = caller[c].aged

\* Another row has the id, and the catch block marks FAILED.
Collides(c, l) ==
    /\ caller[c].pc = "markWrite" /\ l.pc = "markRead" /\ l.row = caller[c].row
    /\ TakenByOther(caller[c].row, MarkBid(c)) /\ caller[c].inTry /\ ~l.inTry
    /\ l.aged = caller[c].aged

Turns(c, l) ==
    /\ UNCHANGED <<rows, reqs>>
    /\ \/ Rests(c, l) \/ Saved(c, l) \/ Replaces(c, l) \/ Missed(c, l) \/ Found(c, l)
       \/ Answered(c, l) \/ Reads(c, l) \/ Collides(c, l)

\* It adds the row of its intent, or one for another try.
Adds(c, l) ==
    /\ UNCHANGED reqs /\ l.pc = "call" /\ l.row = Len(rows) + 1 /\ l.aged = caller[c].aged
    /\ \E kind \in {"intent", "retry"} :
          /\ rows' = Append(rows, NewRow(kind, env.keyOf[c], 0))
          /\ \/ kind = "intent" /\ IntentRows(env.keyOf[c]) = {}
             \/ \E r \in IntentRows(env.keyOf[c]) : rows[r].status \in RETRY_TERMINAL

Writes(c, l) ==
    /\ UNCHANGED reqs /\ caller[c].pc = "markWrite" /\ MarkUpdate(c)
    /\ l.pc \in {"ok", "thrown"} /\ ~l.aged

LEMMA RestTurn ==
    ASSUME TypeOK, BookInv, NEW c \in Callers, RiskCheck(c) \/ Retry(c) \/ LookupFails(c)
    PROVE  \E l \in Local : Becomes(c, l) /\ Turns(c, l)
  <1>1. caller[c] \in Local /\ caller[c].attempts \in Nat
    BY Shapes DEF Local
  <1>2. UNCHANGED <<rows, reqs>>
    BY DEF RiskCheck, Retry, LookupFails
  <1>3. CASE RiskCheck(c)
    <2>1. PICK pc \in {"rejected", "select"}, n \in Nat :
              Becomes(c, [caller[c] EXCEPT !.attempts = n, !.pc = pc])
      <3>1. caller[c].attempts + 1 \in Nat
        BY <1>1
      <3> QED
        BY <1>3, <3>1 DEF RiskCheck
    <2> DEFINE l == [caller[c] EXCEPT !.attempts = n, !.pc = pc]
    <2>2. l \in Local /\ l.pc = pc /\ l.aged = caller[c].aged
      BY <1>1 DEF Local, PCs
    <2>3. Becomes(c, l)
      BY <2>1
    <2> HIDE DEF l
    <2> QED
      BY <1>2, <2>2, <2>3 DEF Turns, Rests
  <1>4. CASE Retry(c)
    <2> DEFINE l == IdleCaller(caller[c].attempts)
    <2>1. l \in Local /\ l.pc = "idle" /\ ~l.aged /\ Becomes(c, l)
      BY <1>1, <1>4, IdleType DEF Retry
    <2> HIDE DEF l
    <2> QED
      BY <1>2, <2>1 DEF Turns, Rests
  <1>5. CASE LookupFails(c)
    <2> DEFINE l == Ended(c, "thrown", 0)
    <2>1. l \in Local /\ l.pc = "thrown" /\ ~l.aged /\ Becomes(c, l)
      BY <1>5, EndedType DEF LookupFails
    <2> HIDE DEF l
    <2> QED
      BY <1>2, <2>1 DEF Turns, Rests
  <1> QED
    BY <1>3, <1>4, <1>5

LEMMA SavedTurn ==
    ASSUME TypeOK, BookInv, NEW c \in Callers, UNCHANGED <<rows, reqs>>,
           NEW r \in IntentRows(env.keyOf[c]), Proceed(c, r, FALSE, rows[r]),
           rows[r].status \in RETRY_TERMINAL => caller[c].pc = "insert"
    PROVE  \E l \in Local : Becomes(c, l) /\ Turns(c, l)
  <1>1. caller[c] \in Local /\ rows[r] \in Row /\ r \in Nat
    BY Shapes DEF IntentRows
  <1>2. CASE Becomes(c, Ended(c, "ok", rows[r].bid))
    <2> DEFINE l == Ended(c, "ok", rows[r].bid)
    <2>1. l \in Local /\ l.pc = "ok" /\ ~l.aged /\ Becomes(c, l)
      BY <1>1, <1>2, EndedType DEF Row
    <2> HIDE DEF l
    <2> QED
      BY <2>1 DEF Turns, Rests
  <1>3. CASE /\ rows[r].status \in RETRY_TERMINAL
             /\ Becomes(c, [caller[c] EXCEPT !.pc = "call", !.row = r])
    <2> DEFINE l == [caller[c] EXCEPT !.pc = "call", !.row = r]
    <2>1. l \in Local /\ l.pc = "call" /\ l.row = r /\ l.aged = caller[c].aged
      BY <1>1 DEF Local, PCs
    <2>2. Becomes(c, l)
      BY <1>3
    <2> HIDE DEF l
    <2> QED
      BY <1>3, <2>1, <2>2 DEF Turns, Replaces
  <1>4. CASE /\ rows[r].status \notin RETRY_TERMINAL
             /\ Becomes(c, [caller[c] EXCEPT !.pc = "lookup", !.row = r, !.aged = rows[r].aged])
    <2> DEFINE l == [caller[c] EXCEPT !.pc = "lookup", !.row = r, !.aged = rows[r].aged]
    <2>1. l \in Local /\ l.pc = "lookup" /\ l.row = r /\ l.aged = rows[r].aged
      BY <1>1 DEF Local, PCs, Row
    <2>2. Becomes(c, l)
      BY <1>4
    <2> HIDE DEF l
    <2> QED
      BY <1>4, <2>1, <2>2 DEF Turns, Saved
  <1> QED
    BY <1>2, <1>3, <1>4, ProceedCases

LEMMA PlaceTurn ==
    ASSUME TypeOK, BookInv, NEW c \in Callers, IntentSelect(c) \/ IntentInsert(c)
    PROVE  \E l \in Local : Becomes(c, l) /\ (Turns(c, l) \/ Adds(c, l))
  <1>1. UNCHANGED reqs /\ caller[c] \in Local
    BY Shapes DEF IntentSelect, IntentInsert
  <1>2. ASSUME NEW kind \in {"intent", "retry"},
               rows' = Append(rows, NewRow(kind, env.keyOf[c], 0)),
               Proceed(c, Len(rows) + 1, TRUE, NewRow(kind, env.keyOf[c], 0)),
               \/ kind = "intent" /\ IntentRows(env.keyOf[c]) = {}
               \/ \E r \in IntentRows(env.keyOf[c]) : rows[r].status \in RETRY_TERMINAL
        PROVE  \E l \in Local : Becomes(c, l) /\ Adds(c, l)
    <2> DEFINE l == [caller[c] EXCEPT !.pc = "call", !.row = Len(rows) + 1]
    <2>1. Becomes(c, l)
      BY <1>2, CreatedCase
    <2>2. Len(rows) + 1 \in Nat
      BY Shapes
    <2>3. l \in Local /\ l.pc = "call" /\ l.row = Len(rows) + 1 /\ l.aged = caller[c].aged
      BY <1>1, <2>2 DEF Local, PCs
    <2> HIDE DEF l
    <2>4. Adds(c, l)
      BY <1>1, <1>2, <2>3 DEF Adds
    <2> QED
      BY <2>1, <2>3, <2>4
  <1>3. CASE IntentSelect(c)
    <2>1. CASE Becomes(c, [caller[c] EXCEPT !.pc = "insert"]) /\ UNCHANGED rows
      <3> DEFINE l == [caller[c] EXCEPT !.pc = "insert"]
      <3>1. l \in Local /\ l.pc = "insert" /\ l.aged = caller[c].aged
        BY <1>1 DEF Local, PCs
      <3>2. Becomes(c, l)
        BY <2>1
      <3> HIDE DEF l
      <3> QED
        BY <1>1, <2>1, <3>1, <3>2 DEF Turns, Rests
    <2> QED
      BY <1>1, <1>2, <1>3, <2>1, SavedTurn DEF IntentSelect
  <1>4. CASE IntentInsert(c)
    BY <1>1, <1>2, <1>4, SavedTurn DEF IntentInsert
  <1> QED
    BY <1>3, <1>4

LEMMA LookupTurn ==
    ASSUME TypeOK, BookInv, NEW c \in Callers, Lookup(c)
    PROVE  \E l \in Local : Becomes(c, l) /\ Turns(c, l)
  <1>1. /\ caller[c].pc = "lookup" /\ UNCHANGED <<rows, reqs>> /\ caller[c] \in Local
        /\ env.slow \/ \A n \in ReqIds : reqs[n].fate # "wire"
    BY Shapes DEF Lookup
  <1>2. ASSUME NEW n \in BookMatches(env.keyOf[c]),
               Becomes(c, [caller[c] EXCEPT !.pc = "markRead", !.mark = "SUBMITTED",
                                            !.id = n, !.inTry = FALSE])
        PROVE  \E l \in Local : Becomes(c, l) /\ Turns(c, l)
    <2> DEFINE l == [caller[c] EXCEPT !.pc = "markRead", !.mark = "SUBMITTED",
                                      !.id = n, !.inTry = FALSE]
    <2>1. n \in Nat
      BY Shapes DEF BookMatches
    <2>2. /\ l \in Local /\ l.pc = "markRead" /\ l.row = caller[c].row /\ ~l.inTry
          /\ l.mark = "SUBMITTED" /\ l.aged = caller[c].aged
      BY <1>1, <2>1 DEF Local, PCs, OrderStatus
    <2>3. Becomes(c, l)
      BY <1>2
    <2> HIDE DEF l
    <2> QED
      BY <1>1, <2>2, <2>3 DEF Turns, Found
  <1>3. CASE /\ BookMatches(env.keyOf[c]) = {} /\ caller[c].aged
             /\ Becomes(c, [caller[c] EXCEPT !.pc = "call"])
    <2> DEFINE l == [caller[c] EXCEPT !.pc = "call"]
    <2>1. l \in Local /\ l.pc = "call" /\ l.row = caller[c].row /\ l.aged = caller[c].aged
      BY <1>1 DEF Local, PCs
    <2>2. Becomes(c, l)
      BY <1>3
    <2> HIDE DEF l
    <2> QED
      BY <1>1, <1>3, <2>1, <2>2 DEF Turns, Missed
  <1>4. CASE Becomes(c, Ended(c, "thrown", 0))
    <2> DEFINE l == Ended(c, "thrown", 0)
    <2>1. l \in Local /\ l.pc = "thrown" /\ ~l.aged /\ Becomes(c, l)
      BY <1>4, EndedType
    <2> HIDE DEF l
    <2> QED
      BY <1>1, <2>1 DEF Turns, Rests
  <1> QED
    BY <1>2, <1>3, <1>4 DEF Lookup

LEMMA MarkTurn ==
    ASSUME TypeOK, BookInv, NEW c \in Callers,
           AckArrives(c) \/ RefusalArrives(c) \/ AckLost(c) \/ MarkRead(c)
    PROVE  \E l \in Local : Becomes(c, l) /\ Turns(c, l)
  <1>1. CASE AckArrives(c) \/ RefusalArrives(c) \/ AckLost(c)
    BY <1>1, AnswerCase DEF Turns, Answered
  <1>2. CASE MarkRead(c)
    BY <1>2, MarkReadCase DEF Turns, Reads
  <1> QED
    BY <1>1, <1>2

LEMMA WriteTurn ==
    ASSUME TypeOK, BookInv, NEW c \in Callers, MarkWrite(c)
    PROVE  \E l \in Local : Becomes(c, l) /\ (Turns(c, l) \/ Writes(c, l))
  <1>1. caller[c].pc = "markWrite" /\ UNCHANGED reqs /\ caller[c] \in Local
    BY Shapes DEF MarkWrite
  <1>2. caller[c].id \in Nat
    BY <1>1 DEF Local
  <1>3. ASSUME MarkUpdate(c) \/ UNCHANGED rows, NEW l,
               l = Ended(c, "ok", caller[c].id) \/ l = Ended(c, "thrown", 0), Becomes(c, l)
        PROVE  \E m \in Local : Becomes(c, m) /\ (Turns(c, m) \/ Writes(c, m))
    <2>1. l \in Local /\ l.pc \in {"ok", "thrown"} /\ ~l.aged
      BY <1>2, <1>3, EndedType
    <2> QED
      BY <1>1, <1>3, <2>1 DEF Turns, Rests, Writes
  <1>4. ASSUME UNCHANGED rows, TakenByOther(caller[c].row, MarkBid(c)), caller[c].inTry,
               Becomes(c, AfterError(c, "FAILED"))
        PROVE  \E l \in Local : Becomes(c, l) /\ Turns(c, l)
    <2> DEFINE l == [caller[c] EXCEPT !.pc = "markRead", !.mark = "FAILED", !.id = 0,
                                      !.inTry = FALSE]
    <2>1. /\ l \in Local /\ l.pc = "markRead" /\ l.row = caller[c].row /\ ~l.inTry
          /\ l.aged = caller[c].aged
      BY <1>1 DEF Local, PCs, OrderStatus
    <2>2. Becomes(c, l)
      BY <1>4 DEF AfterError
    <2> HIDE DEF l
    <2> QED
      BY <1>1, <1>4, <2>1, <2>2 DEF Turns, Collides
  <1>5. CASE ~caller[c].inTry /\ Becomes(c, AfterError(c, "FAILED")) /\ UNCHANGED rows
    BY <1>3, <1>5 DEF AfterError
  <1> QED
    BY <1>3, <1>4, <1>5, ErrorCase DEF MarkWrite

LEMMA UndisturbedNext ==
    ASSUME TypeOK, BookInv, Undisturbed, sync.pc = "idle", [Next]_vars
    PROVE  /\ UNCHANGED env /\ sync'.pc = "idle"
           /\ \/ \E c \in Callers : \E l \in Local :
                    Becomes(c, l) /\ (Turns(c, l) \/ Adds(c, l) \/ Writes(c, l))
              \/ \E c \in Callers : CallBroker(c)
              \/ \E c \in Callers : AckMisread(c)
              \/ \E n \in ReqIds : BrokerStep(n)
              \/ \E r \in RowIds : WindowCloses(r)
              \/ Crash
              \/ UNCHANGED <<rows, reqs, caller>>
  <1>1. CASE UNCHANGED vars
    BY <1>1 DEF vars
  <1>2. ASSUME NEW c \in Callers, CallerStep(c)
        PROVE  /\ UNCHANGED sync
               /\ \/ \E l \in Local : Becomes(c, l) /\ (Turns(c, l) \/ Adds(c, l) \/ Writes(c, l))
                  \/ CallBroker(c) \/ AckMisread(c)
    <2>1. UNCHANGED sync
      BY <1>2 DEF CallerStep, RiskCheck, IntentSelect, IntentInsert, Lookup, LookupFails,
                  CallBroker, AckArrives, RefusalArrives, AckLost, AckMisread, MarkRead,
                  MarkWrite, DbFails, Retry
    <2> QED
      BY <1>2, <2>1, RestTurn, PlaceTurn, LookupTurn, MarkTurn, WriteTurn
      DEF CallerStep, DbFails, Undisturbed
  <1>3. ASSUME NEW n \in ReqIds, BrokerStep(n) PROVE UNCHANGED sync
    BY <1>3, FateCase
  <1>4. ASSUME NEW r \in RowIds, WindowCloses(r) PROVE UNCHANGED sync
    BY <1>4, WindowCase
  <1>5. Crash => sync'.pc = "idle"
    BY DEF Crash, IdleSync
  <1>6. ~SyncStep
    BY DEF SyncStep, SyncRead, SyncCreate, SyncWrite, Undisturbed
  <1> QED
    BY <1>1, <1>2, <1>3, <1>4, <1>5, <1>6 DEF Next

-----------------------------------------------------------------------------
(***************************************************************************)
(* Without rejects, clear or misread, no call ever fails for good: every   *)
(* intent keeps its one row                                                *)
(***************************************************************************)
NoRejects == Undisturbed /\ ~env.refusals /\ ~env.misread

Clear ==
    /\ sync.pc = "idle"
    /\ \A r \in RowIds : rows[r].kind = "intent" /\ rows[r].status \notin RETRY_TERMINAL
    /\ \A r, s \in RowIds : rows[r].key = rows[s].key => r = s
    /\ \A c \in Callers : caller[c].pc \in Marks => caller[c].mark \notin RETRY_TERMINAL
    /\ \A n \in ReqIds : reqs[n].fate # "refused"

ClearInv == NoRejects => Clear

\* The id a call brings was never booked on another row.
LEMMA NoCollision ==
    ASSUME TypeOK, BookInv, AttrsTellKeys, Clear, NEW c \in Callers, caller[c].pc = "markWrite"
    PROVE  ~TakenByOther(caller[c].row, MarkBid(c))
  <1> SUFFICES ASSUME MarkBid(c) # 0, NEW q \in RowIds \ {caller[c].row},
                      rows[q].bid = MarkBid(c)
               PROVE  FALSE
    BY DEF TakenByOther
  <1>1. /\ caller[c].row \in RowIds /\ rows[caller[c].row].key = env.keyOf[c]
        /\ Good(MarkBid(c), env.keyOf[c])
    BY DEF BookInv, Held, InCall, Marks, MarkBid
  <1>2. Good(MarkBid(c), rows[q].key)
    BY DEF BookInv, RowOk
  <1>3. rows[q].key \in Keys /\ env.keyOf[c] \in Keys
    BY Shapes DEF Row
  <1>4. rows[q].key = env.keyOf[c]
    BY <1>1, <1>2, <1>3 DEF Good, AttrsTellKeys
  <1> QED
    BY <1>1, <1>4 DEF Clear

LEMMA ClearTurn ==
    ASSUME TypeOK, BookInv, AttrsTellKeys, Clear, sync'.pc = "idle",
           NEW c \in Callers, NEW l, Becomes(c, l), Turns(c, l)
    PROVE  Clear'
  <1>1. caller'[c] = l /\ \A d \in Callers \ {c} : caller'[d] = caller[d]
    BY Put
  <1>2. UNCHANGED <<rows, reqs>> /\ RowIds' = RowIds /\ ReqIds' = ReqIds
    BY DEF Turns, RowIds, ReqIds
  <1>3. caller[c].pc = "calling" => caller[c].req \in ReqIds
    BY DEF BookInv, Held
  <1>4. ~Collides(c, l)
    BY NoCollision DEF Collides
  <1>5. l.pc \in Marks => l.mark \notin RETRY_TERMINAL
    <2> SUFFICES ASSUME l.pc \in Marks PROVE l.mark \notin RETRY_TERMINAL
      OBVIOUS
    <2>1. Found(c, l) \/ Answered(c, l) \/ Reads(c, l)
      BY <1>4 DEF Turns, Rests, Saved, Replaces, Missed, Marks
    <2> QED
      BY <1>3, <2>1 DEF Found, Answered, Reads, Clear, Marks, RETRY_TERMINAL
  <1> QED
    BY <1>1, <1>2, <1>5 DEF Clear

LEMMA ClearAdd ==
    ASSUME TypeOK, BookInv, Clear, sync'.pc = "idle",
           NEW c \in Callers, NEW l, Becomes(c, l), Adds(c, l)
    PROVE  Clear'
  <1>1. caller'[c] = l /\ \A d \in Callers \ {c} : caller'[d] = caller[d]
    BY Put
  <1>2. UNCHANGED reqs /\ ReqIds' = ReqIds /\ l.pc = "call"
    BY DEF Adds, ReqIds
  <1>3. \A r \in IntentRows(env.keyOf[c]) : rows[r].status \notin RETRY_TERMINAL
    BY DEF Clear, IntentRows
  <1>4. /\ rows' = Append(rows, NewRow("intent", env.keyOf[c], 0))
        /\ IntentRows(env.keyOf[c]) = {}
    BY <1>3 DEF Adds
  <1>5. PICK row \in Row : /\ row.kind = "intent" /\ row.key = env.keyOf[c]
                           /\ row.status = "PENDING" /\ rows' = Append(rows, row)
    BY <1>4, Shapes, NewRowType
  <1>6. PICK a \in Nat : /\ a \notin RowIds /\ RowIds' = RowIds \cup {a} /\ rows'[a] = row
                         /\ \A r \in RowIds : rows'[r] = rows[r]
    BY <1>5, RowAdd
  <1>7. \A r \in RowIds : rows[r].key # env.keyOf[c]
    BY <1>4 DEF Clear, IntentRows
  <1>8. \A r, s \in RowIds' : rows'[r].key = rows'[s].key => r = s
    <2>1. \A r, s \in RowIds : rows[r].key = rows[s].key => r = s
      BY DEF Clear
    <2>2. \A r \in RowIds : rows'[r].key = rows[r].key
      BY <1>6
    <2>3. rows'[a].key = env.keyOf[c]
      BY <1>5, <1>6
    <2> QED
      BY <1>6, <1>7, <2>1, <2>2, <2>3
  <1>9. \A r \in RowIds' : rows'[r].kind = "intent" /\ rows'[r].status \notin RETRY_TERMINAL
    BY <1>5, <1>6 DEF Clear, RETRY_TERMINAL
  <1>10. \A d \in Callers : caller'[d].pc \in Marks => caller'[d].mark \notin RETRY_TERMINAL
    BY <1>1, <1>2 DEF Clear, Marks
  <1> QED
    BY <1>2, <1>8, <1>9, <1>10 DEF Clear

LEMMA ClearWrite ==
    ASSUME TypeOK, BookInv, Clear, sync'.pc = "idle",
           NEW c \in Callers, NEW l, Becomes(c, l), Writes(c, l)
    PROVE  Clear'
  <1>1. caller'[c] = l /\ \A d \in Callers \ {c} : caller'[d] = caller[d]
    BY Put
  <1>2. UNCHANGED reqs /\ ReqIds' = ReqIds /\ l.pc \in {"ok", "thrown"}
        /\ caller[c].pc = "markWrite" /\ MarkUpdate(c)
    BY DEF Writes, ReqIds
  <1>3. PICK r \in RowIds, row \in Row :
              /\ row.key = rows[r].key /\ row.kind = rows[r].kind /\ row.status = caller[c].mark
              /\ RowIds' = RowIds /\ rows'[r] = row
              /\ \A q \in RowIds \ {r} : rows'[q] = rows[q]
    BY <1>2, UpdateCase
  <1>4. row.status \notin RETRY_TERMINAL
    BY <1>2, <1>3 DEF Clear, Marks
  <1>5. \A d \in Callers : caller'[d].pc \in Marks => caller'[d].mark \notin RETRY_TERMINAL
    BY <1>1, <1>2 DEF Clear, Marks
  <1> QED
    BY <1>2, <1>3, <1>4, <1>5 DEF Clear

LEMMA ClearNext ==
    ASSUME TypeOK, BookInv, ClearInv, [Next]_vars
    PROVE  ClearInv'
  <1>1. UNCHANGED env
    BY DEF Next, vars
  <1>2. NoRejects' <=> NoRejects
    BY <1>1 DEF NoRejects, Undisturbed
  <1> SUFFICES ASSUME NoRejects PROVE Clear'
    BY <1>2 DEF ClearInv
  <1>3. Clear /\ Undisturbed /\ AttrsTellKeys /\ ~env.refusals /\ ~env.misread
    BY DEF ClearInv, NoRejects, Undisturbed
  <1>4. sync.pc = "idle"
    BY <1>3 DEF Clear
  <1>5. sync'.pc = "idle"
    BY <1>3, <1>4, UndisturbedNext
  <1>6. ASSUME NEW c \in Callers, CallBroker(c) PROVE Clear'
    <2>1. UNCHANGED rows /\ RowIds' = RowIds
      BY <1>6 DEF CallBroker, RowIds
    <2>2. PICK a \in Nat, l \in Local, req \in Req :
              /\ ReqIds' = ReqIds \cup {a} /\ reqs'[a] = req /\ req.fate = "wire"
              /\ \A n \in ReqIds : reqs'[n] = reqs[n]
              /\ Becomes(c, l) /\ l.pc = "calling"
      BY <1>1, <1>6, CallBrokerCase
    <2>3. caller'[c] = l /\ \A d \in Callers \ {c} : caller'[d] = caller[d]
      BY <2>2, Put
    <2>4. \A d \in Callers : caller'[d].pc \in Marks => caller'[d].mark \notin RETRY_TERMINAL
      BY <1>3, <2>2, <2>3 DEF Clear, Marks
    <2> QED
      BY <1>3, <1>5, <2>1, <2>2, <2>4 DEF Clear
  <1>7. ASSUME NEW n \in ReqIds, BrokerStep(n) PROVE Clear'
    <2>1. UNCHANGED <<rows, caller>> /\ RowIds' = RowIds
      BY <1>7, FateCase DEF RowIds
    <2>2. PICK req \in Req : /\ req.fate # "refused" /\ ReqIds' = ReqIds /\ reqs'[n] = req
                             /\ \A m \in ReqIds \ {n} : reqs'[m] = reqs[m]
      BY <1>3, <1>7, FateCase
    <2> QED
      BY <1>3, <1>5, <2>1, <2>2 DEF Clear
  <1>8. ASSUME NEW r \in RowIds, WindowCloses(r) PROVE Clear'
    <2>1. UNCHANGED <<reqs, caller>> /\ ReqIds' = ReqIds
      BY <1>8, WindowCase DEF ReqIds
    <2>2. PICK row \in Row :
                 /\ row.key = rows[r].key /\ row.kind = rows[r].kind
                 /\ row.status = rows[r].status
                 /\ RowIds' = RowIds /\ rows'[r] = row
                 /\ \A q \in RowIds \ {r} : rows'[q] = rows[q]
      BY <1>8, WindowCase
    <2> QED
      BY <1>3, <1>5, <2>1, <2>2 DEF Clear
  <1>9. CASE Crash
    <2>1. \A c \in Callers : caller'[c].pc = "idle"
      BY <1>9 DEF Crash, IdleCaller
    <2>2. UNCHANGED <<rows, reqs>> /\ RowIds' = RowIds /\ ReqIds' = ReqIds
      BY <1>9 DEF Crash, RowIds, ReqIds
    <2> QED
      BY <1>3, <1>5, <2>1, <2>2 DEF Clear, Marks
  <1>10. CASE UNCHANGED <<rows, reqs, caller>>
    BY <1>3, <1>5, <1>10 DEF Clear, RowIds, ReqIds
  <1>11. \A c \in Callers : ~AckMisread(c)
    BY <1>3 DEF AckMisread
  <1> QED
    BY <1>3, <1>4, <1>5, <1>6, <1>7, <1>8, <1>9, <1>10, <1>11, UndisturbedNext, ClearTurn, ClearAdd,
       ClearWrite

LEMMA ClearInit == Init => ClearInv
  <1> SUFFICES ASSUME Init PROVE ClearInv
    OBVIOUS
  <1>1. RowIds = {} /\ ReqIds = {} /\ sync.pc = "idle"
    BY DEF Init, RowIds, ReqIds, IdleSync
  <1>2. \A c \in Callers : caller[c].pc = "idle"
    BY DEF Init, IdleCaller
  <1> QED
    BY <1>1, <1>2 DEF ClearInv, Clear, Marks

-----------------------------------------------------------------------------
(***************************************************************************)
(* When a call goes to the broker only for a row it has just added, or one *)
(* it alone places after a book read that shows everything: a row never    *)
(* has two live orders                                                     *)
(***************************************************************************)
BookKeepsUp ==
    /\ Undisturbed
    /\ \/ ~env.refusals /\ ~env.misread /\ ~env.window
       \/ OneCallerPerIntent /\ ~(env.slow /\ env.window)

Single ==
    /\ sync.pc = "idle"
    /\ ~env.window => (\A r \in RowIds : ~rows[r].aged) /\ (\A c \in Callers : ~caller[c].aged)
    /\ \A m, n \in ReqIds : Live(m) /\ Live(n) /\ reqs[m].row = reqs[n].row => m = n
    /\ \A c \in Callers : caller[c].pc = "call" =>
          \A n \in ReqIds : reqs[n].row = caller[c].row => ~Live(n)
    /\ \A c, d \in Callers :
          caller[c].pc = "call" /\ caller[d].pc = "call" /\ caller[c].row = caller[d].row => c = d

SingleInv == BookKeepsUp => Single

\* Locals change and the tables do not, or not in what Single looks at.
LEMMA SingleMove ==
    ASSUME TypeOK, BookInv, Single, UNCHANGED <<reqs, env>>, sync'.pc = "idle",
           NEW c \in Callers, NEW l, Becomes(c, l),
           RowIds' = RowIds, \A r \in RowIds : rows'[r].aged = rows[r].aged,
           l.aged => env.window,
           l.pc = "call" => /\ \A n \in ReqIds : reqs[n].row = l.row => ~Live(n)
                            /\ \A d \in Callers \ {c} :
                                  ~(caller[d].pc = "call" /\ caller[d].row = l.row)
    PROVE  Single'
  <1>1. caller'[c] = l /\ \A d \in Callers \ {c} : caller'[d] = caller[d]
    BY Put
  <1>2. ReqIds' = ReqIds /\ \A n : Live(n)' <=> Live(n)
    BY DEF ReqIds, Live
  <1>3. ~env.window => (\A r \in RowIds' : ~rows'[r].aged) /\ (\A d \in Callers : ~caller'[d].aged)
    BY <1>1 DEF Single
  <1>4. \A d \in Callers : caller'[d].pc = "call" =>
           \A n \in ReqIds : reqs[n].row = caller'[d].row => ~Live(n)
    BY <1>1 DEF Single
  <1>5. \A b, d \in Callers : caller'[b].pc = "call" /\ caller'[d].pc = "call"
                                 /\ caller'[b].row = caller'[d].row => b = d
    <2>1. \A b, d \in Callers : caller[b].pc = "call" /\ caller[d].pc = "call"
                                   /\ caller[b].row = caller[d].row => b = d
      BY DEF Single
    <2> QED
      BY <1>1, <2>1
  <1> QED
    BY <1>2, <1>3, <1>4, <1>5 DEF Single

LEMMA SingleTurn ==
    ASSUME TypeOK, BookInv, KeepInv, ClearInv, BookKeepsUp, Single, UNCHANGED env,
           sync'.pc = "idle", NEW c \in Callers, NEW l, Becomes(c, l), Turns(c, l)
    PROVE  Single'
  <1>1. UNCHANGED <<rows, reqs, env>> /\ RowIds' = RowIds
    BY DEF Turns, RowIds
  <1>2. ~Replaces(c, l)
    <2> SUFFICES ASSUME Replaces(c, l) PROVE FALSE
      OBVIOUS
    <2>1. caller[c].pc = "insert" /\ l.row \in IntentRows(env.keyOf[c])
          /\ rows[l.row].status \in RETRY_TERMINAL /\ l.row \in RowIds
      BY DEF Replaces, IntentRows
    <2>2. CASE ~env.refusals /\ ~env.misread
      BY <2>1, <2>2 DEF ClearInv, NoRejects, Clear, BookKeepsUp
    <2>3. CASE OneCallerPerIntent
      BY <2>1, <2>3 DEF KeepInv, Keeping, Keep
    <2> QED
      BY <2>2, <2>3 DEF BookKeepsUp
  <1>3. l.aged => env.window
    BY <1>2 DEF Turns, Rests, Saved, Missed, Found, Answered, Reads, Collides, Single, IntentRows
  <1>4. ASSUME l.pc = "call"
        PROVE  /\ \A n \in ReqIds : reqs[n].row = l.row => ~Live(n)
               /\ \A d \in Callers \ {c} : ~(caller[d].pc = "call" /\ caller[d].row = l.row)
    <2>1. Missed(c, l)
      BY <1>2, <1>4 DEF Turns, Rests, Saved, Found, Answered, Reads, Collides
    <2>2. /\ caller[c].pc = "lookup" /\ l.row = caller[c].row /\ l.aged
          /\ BookMatches(env.keyOf[c]) = {} /\ (env.slow \/ \A n \in ReqIds : reqs[n].fate # "wire")
      BY <2>1 DEF Missed
    <2>3. OneCallerPerIntent /\ \A n \in ReqIds : reqs[n].fate # "wire"
      BY <1>3, <2>2 DEF BookKeepsUp
    <2>4. l.row \in RowIds /\ rows[l.row].key = env.keyOf[c]
      BY <2>2 DEF BookInv, Held, InCall
    <2>5. ASSUME NEW n \in ReqIds, reqs[n].row = l.row PROVE ~Live(n)
      <3>1. reqs[n].fate \notin BookStatus
        BY <2>2, <2>4, <2>5 DEF BookMatches, ReqKey
      <3> QED
        BY <2>3, <3>1 DEF Live, BookStatus
    <2>6. ASSUME NEW d \in Callers \ {c}, caller[d].pc = "call", caller[d].row = l.row PROVE FALSE
      <3>1. rows[l.row].key = env.keyOf[d]
        BY <2>6 DEF BookInv, Held, InCall
      <3> QED
        BY <2>3, <2>4, <3>1 DEF OneCallerPerIntent
    <2> QED
      BY <2>5, <2>6
  <1> QED
    BY <1>1, <1>3, <1>4, SingleMove

LEMMA SingleAdd ==
    ASSUME TypeOK, BookInv, Single, UNCHANGED env, sync'.pc = "idle",
           NEW c \in Callers, NEW l, Becomes(c, l), Adds(c, l)
    PROVE  Single'
  <1>1. caller'[c] = l /\ \A d \in Callers \ {c} : caller'[d] = caller[d]
    BY Put
  <1>2. /\ UNCHANGED reqs /\ ReqIds' = ReqIds /\ l.pc = "call" /\ l.row = Len(rows) + 1
        /\ l.aged = caller[c].aged /\ \A n : Live(n)' <=> Live(n)
    BY DEF Adds, ReqIds, Live
  <1>3. PICK row \in Row : ~row.aged /\ rows' = Append(rows, row)
    <2>1. PICK kind \in {"intent", "retry"} : rows' = Append(rows, NewRow(kind, env.keyOf[c], 0))
      BY DEF Adds
    <2>2. env.keyOf[c] \in Keys /\ kind \in {"intent", "retry", "broker"} /\ 0 \in Nat
      BY Shapes
    <2> QED
      BY <2>1, <2>2, NewRowType
  <1>4. PICK a \in Nat : /\ a = Len(rows) + 1 /\ a \notin RowIds /\ RowIds' = RowIds \cup {a}
                         /\ rows'[a] = row /\ \A r \in RowIds : rows'[r] = rows[r]
    BY <1>3, RowAdd
  <1>5. \A n \in ReqIds : reqs[n].row # a
    BY <1>4 DEF BookInv
  <1>6. \A d \in Callers : caller[d].pc = "call" => caller[d].row # a
    BY <1>4 DEF BookInv, Held, InCall
  <1>7. ~env.window => (\A r \in RowIds' : ~rows'[r].aged) /\ (\A d \in Callers : ~caller'[d].aged)
    BY <1>1, <1>2, <1>3, <1>4 DEF Single
  <1>8. \A d \in Callers : caller'[d].pc = "call" =>
           \A n \in ReqIds : reqs[n].row = caller'[d].row => ~Live(n)
    BY <1>1, <1>2, <1>4, <1>5 DEF Single
  <1>9. \A b, d \in Callers : caller'[b].pc = "call" /\ caller'[d].pc = "call"
                                 /\ caller'[b].row = caller'[d].row => b = d
    <2>1. \A b, d \in Callers : caller[b].pc = "call" /\ caller[d].pc = "call"
                                   /\ caller[b].row = caller[d].row => b = d
      BY DEF Single
    <2> QED
      BY <1>1, <1>2, <1>4, <1>6, <2>1
  <1> QED
    BY <1>2, <1>7, <1>8, <1>9 DEF Single

LEMMA SingleWrite ==
    ASSUME TypeOK, BookInv, Single, UNCHANGED env, sync'.pc = "idle",
           NEW c \in Callers, NEW l, Becomes(c, l), Writes(c, l)
    PROVE  Single'
  <1>1. /\ UNCHANGED <<reqs, env>> /\ l.pc \in {"ok", "thrown"} /\ ~l.aged
        /\ caller[c].pc = "markWrite" /\ MarkUpdate(c)
    BY DEF Writes
  <1>2. PICK r \in RowIds, row \in Row :
              /\ row.aged = rows[r].aged /\ RowIds' = RowIds /\ rows'[r] = row
              /\ \A q \in RowIds \ {r} : rows'[q] = rows[q]
    BY <1>1, UpdateCase
  <1> QED
    BY <1>1, <1>2, SingleMove

LEMMA SingleSend ==
    ASSUME TypeOK, BookInv, Single, UNCHANGED env, sync'.pc = "idle",
           NEW c \in Callers, CallBroker(c)
    PROVE  Single'
  <1>1. UNCHANGED rows /\ RowIds' = RowIds /\ caller[c].pc = "call"
    BY DEF CallBroker, RowIds
  <1>2. PICK a \in Nat, l \in Local, req \in Req :
              /\ a \notin ReqIds /\ ReqIds' = ReqIds \cup {a}
              /\ reqs'[a] = req /\ req.row = caller[c].row
              /\ \A n \in ReqIds : reqs'[n] = reqs[n]
              /\ Becomes(c, l) /\ l.pc = "calling" /\ l.aged = caller[c].aged
    BY CallBrokerCase
  <1>3. caller'[c] = l /\ \A d \in Callers \ {c} : caller'[d] = caller[d]
    BY <1>2, Put
  <1>4. \A n \in ReqIds : Live(n)' <=> Live(n)
    BY <1>2 DEF Live
  <1>5. ~env.window => (\A r \in RowIds' : ~rows'[r].aged) /\ (\A d \in Callers : ~caller'[d].aged)
    BY <1>1, <1>2, <1>3 DEF Single
  <1>6. \A n \in ReqIds : reqs[n].row = caller[c].row => ~Live(n)
    BY <1>1 DEF Single
  <1>7. \A m, n \in ReqIds' : Live(m)' /\ Live(n)' /\ reqs'[m].row = reqs'[n].row => m = n
    <2>1. \A m, n \in ReqIds : Live(m) /\ Live(n) /\ reqs[m].row = reqs[n].row => m = n
      BY DEF Single
    <2>2. \A n \in ReqIds : Live(n)' => reqs'[n].row # reqs'[a].row
      BY <1>2, <1>4, <1>6
    <2>3. \A m, n \in ReqIds : Live(m)' /\ Live(n)' /\ reqs'[m].row = reqs'[n].row => m = n
      BY <1>2, <1>4, <2>1
    <2> QED
      BY <1>2, <2>2, <2>3
  <1>8. \A d \in Callers : caller'[d].pc = "call" =>
           \A n \in ReqIds' : reqs'[n].row = caller'[d].row => ~Live(n)'
    <2> SUFFICES ASSUME NEW d \in Callers, caller'[d].pc = "call", NEW n \in ReqIds',
                        reqs'[n].row = caller'[d].row
                 PROVE  ~Live(n)'
      OBVIOUS
    <2>1. d # c /\ caller'[d] = caller[d]
      BY <1>2, <1>3
    <2>2. caller[d].row # caller[c].row
      BY <1>1, <2>1 DEF Single
    <2>3. n \in ReqIds
      BY <1>2, <2>1, <2>2
    <2> QED
      BY <1>2, <1>4, <2>1, <2>3 DEF Single
  <1>9. \A b, d \in Callers : caller'[b].pc = "call" /\ caller'[d].pc = "call"
                                 /\ caller'[b].row = caller'[d].row => b = d
    BY <1>2, <1>3 DEF Single
  <1> QED
    BY <1>5, <1>7, <1>8, <1>9 DEF Single

LEMMA SingleMisread ==
    ASSUME TypeOK, BookInv, Single, UNCHANGED env, sync'.pc = "idle",
           NEW c \in Callers, AckMisread(c)
    PROVE  Single'
  <1>1. /\ UNCHANGED <<rows, env>> /\ RowIds' = RowIds /\ ReqIds' = ReqIds
        /\ \A n \in ReqIds : reqs'[n].row = reqs[n].row /\ reqs'[n].fate = reqs[n].fate
    BY MisreadCase
  <1>2. PICK l \in Local : Becomes(c, l) /\ l.pc = "markRead" /\ l.aged = caller[c].aged
    BY MisreadCase
  <1>3. caller'[c] = l /\ \A d \in Callers \ {c} : caller'[d] = caller[d]
    BY <1>2, Put
  <1>4. \A n \in ReqIds : Live(n)' <=> Live(n)
    BY <1>1 DEF Live
  <1>5. ~env.window => (\A r \in RowIds' : ~rows'[r].aged) /\ (\A d \in Callers : ~caller'[d].aged)
    BY <1>1, <1>2, <1>3 DEF Single
  <1>6. \A m, n \in ReqIds' : Live(m)' /\ Live(n)' /\ reqs'[m].row = reqs'[n].row => m = n
    BY <1>1, <1>4 DEF Single
  <1>7. \A d \in Callers : caller'[d].pc = "call" =>
           d # c /\ caller'[d] = caller[d]
           /\ \A n \in ReqIds' : reqs'[n].row = caller'[d].row => ~Live(n)'
    BY <1>1, <1>2, <1>3, <1>4 DEF Single
  <1>8. \A b, d \in Callers : caller'[b].pc = "call" /\ caller'[d].pc = "call"
                                 /\ caller'[b].row = caller'[d].row => b = d
    BY <1>7 DEF Single
  <1> QED
    BY <1>5, <1>6, <1>7, <1>8 DEF Single

LEMMA SingleNext ==
    ASSUME TypeOK, BookInv, KeepInv, ClearInv, SingleInv, [Next]_vars
    PROVE  SingleInv'
  <1>1. UNCHANGED env
    BY DEF Next, vars
  <1>2. BookKeepsUp' <=> BookKeepsUp
    BY <1>1 DEF BookKeepsUp, Undisturbed, OneCallerPerIntent
  <1> SUFFICES ASSUME BookKeepsUp PROVE Single'
    BY <1>2 DEF SingleInv
  <1>3. Single /\ Undisturbed /\ sync.pc = "idle"
    BY DEF SingleInv, BookKeepsUp, Single
  <1>4. sync'.pc = "idle"
    BY <1>3, UndisturbedNext
  <1>5. ASSUME NEW n \in ReqIds, BrokerStep(n) PROVE Single'
    <2>1. UNCHANGED <<rows, caller>> /\ RowIds' = RowIds
      BY <1>5, FateCase DEF RowIds
    <2>2. PICK req \in Req :
                 /\ req.row = reqs[n].row
                 /\ \/ reqs[n].fate = "wire"
                    \/ reqs[n].fate = "OPEN" /\ req.fate \in {"COMPLETE", "REJECTED", "CANCELLED"}
                 /\ ReqIds' = ReqIds /\ reqs'[n] = req
                 /\ \A m \in ReqIds \ {n} : reqs'[m] = reqs[m]
      BY <1>5, FateCase
    <2>3. \A m \in ReqIds : reqs'[m].row = reqs[m].row /\ (Live(m)' => Live(m))
      BY <2>2 DEF Live
    <2> QED
      BY <1>1, <1>3, <1>4, <2>1, <2>2, <2>3 DEF Single
  <1>6. ASSUME NEW r \in RowIds, WindowCloses(r) PROVE Single'
    <2>1. UNCHANGED <<reqs, caller>> /\ ReqIds' = ReqIds /\ env.window
      BY <1>6, WindowCase DEF ReqIds, WindowCloses
    <2>2. \A n : Live(n)' <=> Live(n)
      BY <2>1 DEF Live
    <2> QED
      BY <1>1, <1>3, <1>4, <2>1, <2>2 DEF Single
  <1>7. CASE Crash
    <2>1. \A c \in Callers : caller'[c].pc = "idle" /\ ~caller'[c].aged
      BY <1>7 DEF Crash, IdleCaller
    <2>2. UNCHANGED <<rows, reqs>> /\ RowIds' = RowIds /\ ReqIds' = ReqIds
      BY <1>7 DEF Crash, RowIds, ReqIds
    <2>3. \A n : Live(n)' <=> Live(n)
      BY <2>2 DEF Live
    <2> QED
      BY <1>1, <1>3, <1>4, <2>1, <2>2, <2>3 DEF Single
  <1>8. CASE UNCHANGED <<rows, reqs, caller>>
    BY <1>1, <1>3, <1>4, <1>8 DEF Single, RowIds, ReqIds, Live
  <1> QED
    BY <1>1, <1>3, <1>4, <1>5, <1>6, <1>7, <1>8, UndisturbedNext, SingleTurn, SingleAdd,
       SingleWrite, SingleSend, SingleMisread

LEMMA SingleInit == Init => SingleInv
  <1> SUFFICES ASSUME Init PROVE SingleInv
    OBVIOUS
  <1>1. RowIds = {} /\ ReqIds = {} /\ sync.pc = "idle"
    BY DEF Init, RowIds, ReqIds, IdleSync
  <1>2. \A c \in Callers : caller[c].pc = "idle" /\ ~caller[c].aged
    BY DEF Init, IdleCaller
  <1> QED
    BY <1>1, <1>2 DEF SingleInv, Single

\* With one row per intent and one live order per row there is one per intent.
LEMMA OneFromSingle ==
    ASSUME TypeOK, BookInv, ClearInv, SingleInv, Undisturbed, ~env.window \/ OneCallerPerIntent
    PROVE  OneLiveOrder
  <1> SUFFICES ASSUME BookDecides, NEW m \in ReqIds, NEW n \in ReqIds, Live(m), Live(n),
                      ReqKey(m) = ReqKey(n)
               PROVE  m = n
    BY DEF OneLiveOrder
  <1>1. Clear /\ Single
    BY DEF BookDecides, ClearInv, NoRejects, SingleInv, BookKeepsUp
  <1>2. reqs[m].row \in RowIds /\ reqs[n].row \in RowIds
    BY DEF BookInv
  <1>3. reqs[m].row = reqs[n].row
    BY <1>1, <1>2 DEF Clear, ReqKey
  <1> QED
    BY <1>1, <1>3 DEF Single

-----------------------------------------------------------------------------
(***************************************************************************)
(* Clear rejects, with one caller per intent and a book that keeps up: a   *)
(* call marks FAILED only when none of the requests for its row is live,   *)
(* and the id it brings is on no row yet                                   *)
(***************************************************************************)
RejectsAlone == Undisturbed /\ OneCallerPerIntent /\ ~(env.slow /\ env.window)

\* It is not live, or its answer was misread.
Void(n) == ~Live(n) \/ reqs[n].misread

FailOk(c) ==
    /\ caller[c].pc \in InCall => rows[caller[c].row].status # "FAILED"
    /\ caller[c].pc = "calling" =>
          /\ \A n \in ReqIds : reqs[n].row = caller[c].row /\ Live(n) => n = caller[c].req
          /\ \A q \in RowIds : rows[q].bid # caller[c].req
    /\ caller[c].pc \in Marks /\ caller[c].mark = "FAILED" =>
          \A n \in ReqIds : reqs[n].row = caller[c].row => Void(n)
    /\ caller[c].pc \in Marks /\ caller[c].inTry =>
          caller[c].id # 0 /\ \A q \in RowIds : rows[q].bid # caller[c].id

\* FailedIsReject without its hypothesis.
FailedHidesNone ==
    \A n \in ReqIds :
        rows[reqs[n].row].status = "FAILED" => ~Live(n) \/ reqs[n].misread

Failing == FailedHidesNone /\ \A c \in Callers : FailOk(c)

FailInv == RejectsAlone => Failing

\* Callers of different intents hold different rows.
LEMMA OtherRow ==
    ASSUME BookInv, OneCallerPerIntent, NEW c \in Callers, NEW d \in Callers \ {c},
           caller[c].pc \in InCall, caller[d].pc \in InCall
    PROVE  caller[c].row # caller[d].row
  <1>1. /\ rows[caller[c].row].key = env.keyOf[c] /\ rows[caller[d].row].key = env.keyOf[d]
    BY DEF BookInv, Held
  <1> QED
    BY <1>1 DEF OneCallerPerIntent

LEMMA FailTurn ==
    ASSUME TypeOK, BookInv, Keeping, Failing, UNCHANGED env,
           NEW c \in Callers, NEW l, Becomes(c, l), Turns(c, l)
    PROVE  Failing'
  <1>1. caller'[c] = l /\ \A d \in Callers \ {c} : caller'[d] = caller[d]
    BY Put
  <1>2. /\ UNCHANGED <<rows, reqs>> /\ RowIds' = RowIds /\ ReqIds' = ReqIds
        /\ \A n : (Live(n)' <=> Live(n)) /\ (Void(n)' <=> Void(n))
    BY DEF Turns, RowIds, ReqIds, Live, Void
  <1>3. FailOk(c) /\ Held(c)
    BY DEF Failing, BookInv
  <1>4. ~Replaces(c, l)
    BY DEF Replaces, Keeping, Keep
  <1>5. ~Collides(c, l)
    BY <1>3 DEF Collides, TakenByOther, MarkBid, FailOk, Marks
  <1>6. FailOk(c)'
    <2>1. CASE Rests(c, l)
      BY <1>1, <2>1 DEF Rests, FailOk, InCall, Marks
    <2>2. CASE Saved(c, l)
      BY <1>1, <1>2, <2>2 DEF Saved, FailOk, Marks, RETRY_TERMINAL
    <2>3. CASE Missed(c, l)
      BY <1>1, <1>2, <1>3, <2>3 DEF Missed, FailOk, InCall, Marks
    <2>4. CASE Found(c, l)
      BY <1>1, <1>2, <1>3, <2>4 DEF Found, FailOk, InCall, Marks
    <2>5. CASE Answered(c, l)
      <3>1. caller[c].req \in ReqIds /\ caller[c].req # 0
        BY <1>3, <2>5, Shapes DEF Answered, Held
      <3>2. reqs[caller[c].req].fate = "refused" => ~Live(caller[c].req)
        BY DEF Live
      <3> QED
        BY <1>1, <1>2, <1>3, <2>5, <3>1, <3>2 DEF Answered, FailOk, InCall, Marks, Void
    <2>6. CASE Reads(c, l)
      BY <1>1, <1>2, <1>3, <2>6 DEF Reads, FailOk, InCall, Marks
    <2> QED
      BY <1>4, <1>5, <2>1, <2>2, <2>3, <2>4, <2>5, <2>6 DEF Turns
  <1>7. \A d \in Callers \ {c} : FailOk(d)'
    BY <1>1, <1>2 DEF Failing, FailOk
  <1>8. FailedHidesNone'
    BY <1>2 DEF Failing, FailedHidesNone, Void
  <1> QED
    BY <1>6, <1>7, <1>8 DEF Failing

LEMMA FailAdd ==
    ASSUME TypeOK, BookInv, Failing, UNCHANGED env,
           NEW c \in Callers, NEW l, Becomes(c, l), Adds(c, l)
    PROVE  Failing'
  <1>1. caller'[c] = l /\ \A d \in Callers \ {c} : caller'[d] = caller[d]
    BY Put
  <1>2. /\ UNCHANGED reqs /\ ReqIds' = ReqIds /\ l.pc = "call" /\ l.row = Len(rows) + 1
        /\ \A n : (Live(n)' <=> Live(n)) /\ (Void(n)' <=> Void(n))
    BY DEF Adds, ReqIds, Live, Void
  <1>3. PICK row \in Row : /\ row.status = "PENDING" /\ row.bid = 0 /\ rows' = Append(rows, row)
    <2>1. PICK kind \in {"intent", "retry"} : rows' = Append(rows, NewRow(kind, env.keyOf[c], 0))
      BY DEF Adds
    <2>2. env.keyOf[c] \in Keys /\ kind \in {"intent", "retry", "broker"} /\ 0 \in Nat
      BY Shapes
    <2> QED
      BY <2>1, <2>2, NewRowType
  <1>4. PICK a \in Nat : /\ a = Len(rows) + 1 /\ a \notin RowIds /\ RowIds' = RowIds \cup {a}
                         /\ rows'[a] = row /\ \A r \in RowIds : rows'[r] = rows[r]
    BY <1>3, RowAdd
  <1>5. FailOk(c)'
    BY <1>1, <1>2, <1>3, <1>4 DEF FailOk, InCall, Marks
  <1>6. ASSUME NEW d \in Callers \ {c} PROVE FailOk(d)'
    <2>1. FailOk(d) /\ Held(d)
      BY DEF Failing, BookInv
    <2>2. /\ caller[d].pc \in InCall => rows'[caller[d].row].status = rows[caller[d].row].status
          /\ caller[d].pc = "calling" => caller[d].req # 0
      BY <1>4, <2>1, Shapes DEF Held
    <2> QED
      BY ZenonT(60), <1>1, <1>2, <1>3, <1>4, <2>1, <2>2 DEF FailOk
  <1>7. FailedHidesNone'
    BY <1>2, <1>4 DEF Failing, FailedHidesNone, BookInv, Void
  <1> QED
    BY <1>5, <1>6, <1>7 DEF Failing

LEMMA FailWrite ==
    ASSUME TypeOK, BookInv, AttrsTellKeys, OneCallerPerIntent, Failing, UNCHANGED env,
           NEW c \in Callers, NEW l, Becomes(c, l), Writes(c, l)
    PROVE  Failing'
  <1>1. caller'[c] = l /\ \A d \in Callers \ {c} : caller'[d] = caller[d]
    BY Put
  <1>2. /\ UNCHANGED reqs /\ ReqIds' = ReqIds /\ l.pc \in {"ok", "thrown"}
        /\ caller[c].pc = "markWrite" /\ MarkUpdate(c)
        /\ \A n : (Live(n)' <=> Live(n)) /\ (Void(n)' <=> Void(n))
    BY DEF Writes, ReqIds, Live, Void
  <1>3. PICK r \in RowIds, row \in Row :
              /\ r = caller[c].row /\ rows[r].key = env.keyOf[c]
              /\ row.status = caller[c].mark
              /\ RowIds' = RowIds /\ rows'[r] = row
              /\ \A q \in RowIds \ {r} : rows'[q] = rows[q]
              /\ row.bid # 0 => Good(row.bid, rows[r].key)
    BY <1>2, UpdateCase
  <1>4. FailOk(c)'
    BY <1>1, <1>2 DEF FailOk, InCall, Marks
  <1>5. ASSUME NEW d \in Callers \ {c}, NEW n, n # 0, Good(n, env.keyOf[d]) PROVE row.bid # n
    <2> SUFFICES ASSUME row.bid = n PROVE FALSE
      OBVIOUS
    <2>1. AttrOf[env.keyOf[d]] = AttrOf[env.keyOf[c]]
      BY <1>3, <1>5 DEF Good
    <2> QED
      BY <2>1, Shapes DEF AttrsTellKeys, OneCallerPerIntent
  <1>6. ASSUME NEW d \in Callers \ {c} PROVE FailOk(d)'
    <2>1. FailOk(d) /\ Held(d)
      BY DEF Failing, BookInv
    <2>2. caller[d].pc \in InCall => rows'[caller[d].row] = rows[caller[d].row]
      BY <1>2, <1>3, <2>1, OtherRow DEF Held, InCall, Marks
    <2>3. caller[d].pc = "calling" => row.bid # caller[d].req
      <3> SUFFICES ASSUME caller[d].pc = "calling", row.bid = caller[d].req PROVE FALSE
        OBVIOUS
      <3>1. /\ caller[d].req \in ReqIds /\ caller[d].req # 0
            /\ ReqKey(caller[d].req) = env.keyOf[d]
        BY <2>1, Shapes DEF Held, InCall, ReqKey
      <3>2. AttrOf[env.keyOf[d]] = AttrOf[env.keyOf[c]]
        BY <1>3, <3>1 DEF Good
      <3> QED
        BY <3>2, Shapes DEF AttrsTellKeys, OneCallerPerIntent
    <2>4. caller[d].pc \in Marks /\ caller[d].inTry => row.bid # caller[d].id
      BY <1>5, <2>1 DEF FailOk, Held
    <2> QED
      BY <1>1, <1>2, <1>3, <2>1, <2>2, <2>3, <2>4 DEF FailOk
  <1>7. FailedHidesNone'
    <2> SUFFICES ASSUME NEW n \in ReqIds, rows'[reqs[n].row].status = "FAILED" PROVE Void(n)
      BY <1>2 DEF FailedHidesNone, Void
    <2>1. reqs[n].row \in RowIds
      BY DEF BookInv
    <2>2. CASE reqs[n].row = r
      BY <1>2, <1>3, <2>2 DEF Failing, FailOk, Marks
    <2>3. CASE reqs[n].row # r
      BY <1>3, <2>1, <2>3 DEF Failing, FailedHidesNone, Void
    <2> QED
      BY <2>2, <2>3
  <1> QED
    BY <1>4, <1>6, <1>7 DEF Failing

LEMMA FailSend ==
    ASSUME TypeOK, BookInv, Single, OneCallerPerIntent, Failing, UNCHANGED env,
           NEW c \in Callers, CallBroker(c)
    PROVE  Failing'
  <1>1. UNCHANGED rows /\ RowIds' = RowIds /\ caller[c].pc = "call"
    BY DEF CallBroker, RowIds
  <1>2. PICK a \in Nat, l \in Local, req \in Req :
              /\ a \notin ReqIds /\ a # 0 /\ ReqIds' = ReqIds \cup {a}
              /\ reqs'[a] = req /\ req.row = caller[c].row
              /\ \A n \in ReqIds : reqs'[n] = reqs[n]
              /\ Becomes(c, l) /\ l.pc = "calling" /\ l.req = a /\ l.row = caller[c].row
    BY CallBrokerCase
  <1>3. caller'[c] = l /\ \A d \in Callers \ {c} : caller'[d] = caller[d]
    BY <1>2, Put
  <1>4. \A n \in ReqIds : (Live(n)' <=> Live(n)) /\ (Void(n)' <=> Void(n))
    BY <1>2 DEF Live, Void
  <1>5. FailOk(c) /\ \A n \in ReqIds : reqs[n].row = caller[c].row => ~Live(n)
    BY <1>1 DEF Failing, Single
  <1>6. \A q \in RowIds : rows[q].bid # a
    BY <1>2 DEF BookInv, RowOk, Good
  <1>7. FailOk(c)'
    BY <1>1, <1>2, <1>3, <1>4, <1>5, <1>6 DEF FailOk, InCall, Marks
  <1>8. ASSUME NEW d \in Callers \ {c} PROVE FailOk(d)'
    <2>1. FailOk(d)
      BY DEF Failing
    <2>2. caller[d].pc \in InCall => reqs'[a].row # caller[d].row
      BY <1>1, <1>2, OtherRow DEF InCall
    <2> QED
      BY <1>1, <1>2, <1>3, <1>4, <2>1, <2>2 DEF FailOk, InCall, Marks
  <1>9. FailedHidesNone'
    BY <1>1, <1>2, <1>4, <1>5 DEF Failing, FailedHidesNone, FailOk, InCall, Void
  <1> QED
    BY <1>7, <1>8, <1>9 DEF Failing

\* The misread request is excepted, and no other one of the row is live.
LEMMA FailMisread ==
    ASSUME TypeOK, BookInv, Failing, UNCHANGED env, NEW c \in Callers, AckMisread(c)
    PROVE  Failing'
  <1>1. /\ UNCHANGED rows /\ caller[c].pc = "calling" /\ RowIds' = RowIds /\ ReqIds' = ReqIds
        /\ caller[c].req \in ReqIds /\ reqs'[caller[c].req].misread
        /\ \A n \in ReqIds : reqs'[n].row = reqs[n].row /\ reqs'[n].fate = reqs[n].fate
        /\ \A n \in ReqIds \ {caller[c].req} : reqs'[n].misread = reqs[n].misread
    BY MisreadCase
  <1>2. PICK l \in Local : /\ Becomes(c, l) /\ l.pc = "markRead" /\ l.row = caller[c].row
                           /\ l.mark = "FAILED" /\ ~l.inTry
    BY MisreadCase
  <1>3. caller'[c] = l /\ \A d \in Callers \ {c} : caller'[d] = caller[d]
    BY <1>2, Put
  <1>4. \A n \in ReqIds : (Live(n)' <=> Live(n)) /\ (Void(n) => Void(n)')
    BY <1>1 DEF Live, Void
  <1>5. \A n \in ReqIds : n = caller[c].req => Void(n)'
    BY <1>1 DEF Void
  <1>6. FailOk(c)'
    <2>1. FailOk(c)
      BY DEF Failing
    <2>2. \A n \in ReqIds : reqs[n].row = caller[c].row => Void(n)'
      BY <1>1, <1>4, <1>5, <2>1 DEF FailOk, Void
    <2> QED
      BY <1>1, <1>2, <1>3, <2>1, <2>2 DEF FailOk, InCall, Marks
  <1>7. ASSUME NEW d \in Callers \ {c} PROVE FailOk(d)'
    <2>1. FailOk(d)
      BY DEF Failing
    <2> QED
      BY <1>1, <1>3, <1>4, <2>1 DEF FailOk
  <1>8. FailedHidesNone'
    BY <1>1, <1>4 DEF Failing, FailedHidesNone, Void
  <1> QED
    BY <1>6, <1>7, <1>8 DEF Failing

\* The locals stay, no request comes to life and rows keep status and id.
LEMMA FailOther ==
    ASSUME BookInv, Failing, RowIds' = RowIds, ReqIds' = ReqIds,
           \A c \in Callers : caller'[c] = caller[c] \/ caller'[c].pc = "idle",
           \A r \in RowIds : rows'[r].status = rows[r].status /\ rows'[r].bid = rows[r].bid,
           \A n \in ReqIds : /\ reqs'[n].row = reqs[n].row /\ (Live(n)' => Live(n))
                              /\ reqs'[n].misread = reqs[n].misread
    PROVE  Failing'
  <1>1. ASSUME NEW c \in Callers PROVE FailOk(c)'
    <2>1. FailOk(c) /\ Held(c)
      BY DEF Failing, BookInv
    <2>2. CASE caller'[c] = caller[c]
      BY <2>1, <2>2 DEF FailOk, Held, Void
    <2>3. CASE caller'[c].pc = "idle"
      BY <2>3 DEF FailOk, InCall, Marks
    <2> QED
      BY <2>2, <2>3
  <1>2. FailedHidesNone'
    BY DEF Failing, FailedHidesNone, BookInv
  <1> QED
    BY <1>1, <1>2 DEF Failing

LEMMA FailNext ==
    ASSUME TypeOK, BookInv, KeepInv, SingleInv, FailInv, [Next]_vars
    PROVE  FailInv'
  <1>1. UNCHANGED env
    BY DEF Next, vars
  <1>2. RejectsAlone' <=> RejectsAlone
    BY <1>1 DEF RejectsAlone, Undisturbed, OneCallerPerIntent
  <1> SUFFICES ASSUME RejectsAlone PROVE Failing'
    BY <1>2 DEF FailInv
  <1>3. Failing /\ Keeping /\ Single /\ Undisturbed /\ AttrsTellKeys /\ OneCallerPerIntent
    BY DEF FailInv, KeepInv, SingleInv, BookKeepsUp, RejectsAlone, Undisturbed
  <1>4. sync.pc = "idle"
    BY <1>3 DEF Single
  <1>5. ASSUME NEW n \in ReqIds, BrokerStep(n) PROVE Failing'
    <2>1. UNCHANGED <<rows, caller>> /\ RowIds' = RowIds
      BY <1>5, FateCase DEF RowIds
    <2>2. PICK req \in Req :
                 /\ req.row = reqs[n].row /\ req.misread = reqs[n].misread
                 /\ \/ reqs[n].fate = "wire"
                    \/ reqs[n].fate = "OPEN" /\ req.fate \in {"COMPLETE", "REJECTED", "CANCELLED"}
                 /\ ReqIds' = ReqIds /\ reqs'[n] = req
                 /\ \A m \in ReqIds \ {n} : reqs'[m] = reqs[m]
      BY <1>5, FateCase
    <2>3. \A m \in ReqIds : /\ reqs'[m].row = reqs[m].row /\ (Live(m)' => Live(m))
                            /\ reqs'[m].misread = reqs[m].misread
      BY <2>2 DEF Live
    <2> QED
      BY <1>3, <2>1, <2>2, <2>3, FailOther
  <1>6. ASSUME NEW r \in RowIds, WindowCloses(r) PROVE Failing'
    <2>1. UNCHANGED <<reqs, caller>> /\ ReqIds' = ReqIds /\ \A n : Live(n)' <=> Live(n)
      BY <1>6, WindowCase DEF ReqIds, Live
    <2>2. PICK row \in Row :
                 /\ row.status = rows[r].status /\ row.bid = rows[r].bid
                 /\ RowIds' = RowIds /\ rows'[r] = row
                 /\ \A q \in RowIds \ {r} : rows'[q] = rows[q]
      BY <1>6, WindowCase
    <2> QED
      BY <1>3, <2>1, <2>2, FailOther
  <1>7. CASE Crash
    <2>1. \A c \in Callers : caller'[c].pc = "idle"
      BY <1>7 DEF Crash, IdleCaller
    <2>2. UNCHANGED <<rows, reqs>> /\ RowIds' = RowIds /\ ReqIds' = ReqIds
          /\ \A n : Live(n)' <=> Live(n)
      BY <1>7 DEF Crash, RowIds, ReqIds, Live
    <2> QED
      BY <1>3, <2>1, <2>2, FailOther
  <1>8. CASE UNCHANGED <<rows, reqs, caller>>
    BY <1>3, <1>8, FailOther DEF RowIds, ReqIds, Live
  <1> QED
    BY <1>1, <1>3, <1>4, <1>5, <1>6, <1>7, <1>8, UndisturbedNext, FailTurn, FailAdd, FailWrite,
       FailSend, FailMisread

LEMMA FailInit == Init => FailInv
  <1> SUFFICES ASSUME Init PROVE FailInv
    OBVIOUS
  <1>1. ReqIds = {}
    BY DEF Init, ReqIds
  <1>2. \A c \in Callers : caller[c].pc = "idle"
    BY DEF Init, IdleCaller
  <1> QED
    BY <1>1, <1>2 DEF FailInv, Failing, FailOk, FailedHidesNone, InCall, Marks

LEMMA RejectFromInv ==
    ASSUME FailInv, AttrsTellKeys, OneCallerPerIntent, ~(env.slow /\ env.window)
    PROVE  FailedIsReject
  <1>1. ASSUME ~env.sync, ~env.dbErrors PROVE FailedHidesNone
    BY <1>1 DEF FailInv, RejectsAlone, Undisturbed, Failing
  <1> QED
    BY <1>1 DEF FailedIsReject, FailedHidesNone

-----------------------------------------------------------------------------
LEMMA WholeNext ==
    /\ Init => TypeOK /\ BookInv /\ KeepInv /\ ClearInv /\ SingleInv /\ FailInv
    /\ TypeOK /\ BookInv /\ KeepInv /\ ClearInv /\ SingleInv /\ FailInv /\ [Next]_vars
          => (TypeOK /\ BookInv /\ KeepInv /\ ClearInv /\ SingleInv /\ FailInv)'
  BY InitHolds, KeepInit, ClearInit, SingleInit, FailInit, BookNext, KeepNext, ClearNext,
     SingleNext, FailNext

\* One intent never has two live orders, whatever its callers, restarts and lost
\* acknowledgements do, if the book decides (no reject, clear or misread, and a book read
\* past the window shows what landed), no database call fails, no two intents
\* look alike, the sync is idle, and past the window one caller places it.
THEOREM OneLiveOrderHolds ==
    Spec => [](Undisturbed /\ (~env.window \/ OneCallerPerIntent) => OneLiveOrder)
  <1>1. TypeOK /\ BookInv /\ ClearInv /\ SingleInv =>
           (Undisturbed /\ (~env.window \/ OneCallerPerIntent) => OneLiveOrder)
    BY OneFromSingle
  <1> QED
    BY <1>1, WholeNext, PTL DEF Spec

\* A row marked FAILED hides no live request but one whose answer was misread, so
\* that the new key placeOrder opens for it doubles no other order: through
\* refusals, lost and misread answers, restarts and new placements on the row,
\* when one caller places an intent, no two intents look alike, and a book read
\* past the window shows what landed.
THEOREM FailedIsRejectHolds ==
    Spec => [](AttrsTellKeys /\ OneCallerPerIntent /\ ~(env.slow /\ env.window)
               => FailedIsReject)
  <1>1. FailInv =>
           (AttrsTellKeys /\ OneCallerPerIntent /\ ~(env.slow /\ env.window)
            => FailedIsReject)
    BY RejectFromInv
  <1> QED
    BY <1>1, WholeNext, PTL DEF Spec

=============================================================================
