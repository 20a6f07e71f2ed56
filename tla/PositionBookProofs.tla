------------------------- MODULE PositionBookProofs -------------------------
(***************************************************************************)
(* Theorems about PositionBook: what fills, failed transactions, clears,   *)
(* mode switches and the deletion of the paper book leave in positions and *)
(* trades.                                                                 *)
(***************************************************************************)
EXTENDS PositionBook, SumLemmas, SequenceTheorems

-----------------------------------------------------------------------------
(***************************************************************************)
(* Tables                                                                  *)
(***************************************************************************)

\* Replacing an element keeps the others.
LEMMA PutSeq ==
    ASSUME NEW S, NEW s \in Seq(S), NEW i \in DOMAIN s, NEW e \in S,
           NEW t, t = [s EXCEPT ![i] = e]
    PROVE  /\ t \in Seq(S) /\ DOMAIN t = DOMAIN s
           /\ t[i] = e /\ \A k \in DOMAIN s \ {i} : t[k] = s[k]
  <1>1. i \in 1..Len(s) /\ DOMAIN s = 1..Len(s)
    BY LenProperties
  <1> QED
    BY <1>1, ExceptSeq, LenProperties

\* Appending an element keeps the others.
LEMMA AddSeq ==
    ASSUME NEW S, NEW s \in Seq(S), NEW e \in S, NEW t, t = Append(s, e)
    PROVE  /\ t \in Seq(S) /\ Len(s) + 1 \in Nat \ {0}
           /\ DOMAIN t = DOMAIN s \cup {Len(s) + 1} /\ Len(s) + 1 \notin DOMAIN s
           /\ t[Len(s) + 1] = e /\ \A k \in DOMAIN s : t[k] = s[k]
  <1>1. Len(s) \in Nat /\ DOMAIN s = 1..Len(s)
    BY LenProperties
  <1>2. t \in Seq(S) /\ Len(t) = Len(s) + 1 /\ \A k \in 1..Len(s) : t[k] = s[k]
        /\ t[Len(s) + 1] = e
    BY <1>1, AppendProperties
  <1>3. DOMAIN t = 1..(Len(s) + 1)
    BY <1>2, LenProperties
  <1> QED
    BY <1>1, <1>2, <1>3

\* A table rewritten row by row is a table.
LEMMA MapSeq ==
    ASSUME NEW S, NEW s \in Seq(S), NEW t \in [DOMAIN s -> S]
    PROVE  t \in Seq(S)
  <1>1. Len(s) \in Nat /\ DOMAIN s = 1..Len(s)
    BY LenProperties
  <1> QED
    BY <1>1, SeqDef

\* The tables spelled out for the provers.
LEMMA Shapes ==
    ASSUME TypeOK
    PROVE  /\ \A f \in FillIds : f \in Nat \ {0} /\ fills[f] \in Fill
           /\ \A r \in DOMAIN rows : r \in Nat \ {0} /\ rows[r] \in Row
           /\ \A t \in DOMAIN trades : t \in Nat \ {0} /\ trades[t] \in Trade
           /\ \A e \in DOMAIN audit :
                 e \in Nat \ {0} /\ audit[e] \in [row: Nat, paper: BOOLEAN, qty: Int]
           /\ IsFiniteSet(FillIds) /\ IsFiniteSet(DOMAIN rows)
           /\ IsFiniteSet(DOMAIN trades) /\ IsFiniteSet(DOMAIN audit)
           /\ \A w \in Workers : worker[w] \in [fill: Nat, seen: SUBSET Nat]
           /\ RowIds \subseteq DOMAIN rows
  <1>1. /\ fills \in Seq(Fill) /\ rows \in Seq(Row) /\ trades \in Seq(Trade)
        /\ audit \in Seq([row: Nat, paper: BOOLEAN, qty: Int])
        /\ worker \in [Workers -> [fill: Nat, seen: SUBSET Nat]]
    BY DEF TypeOK
  <1>2. \A S : \A s \in Seq(S) : /\ IsFiniteSet(DOMAIN s)
                                 /\ \A i \in DOMAIN s : i \in Nat \ {0} /\ s[i] \in S
    <2> TAKE S
    <2> TAKE s \in Seq(S)
    <2>1. Len(s) \in Nat /\ DOMAIN s = 1..Len(s) /\ \A i \in 1..Len(s) : s[i] \in S
      BY LenProperties, ElementOfSeq
    <2>2. IsFiniteSet(1..Len(s))
      BY <2>1, FS_Interval
    <2> QED
      BY <2>1, <2>2
  <1> QED
    BY <1>1, <1>2 DEF FillIds, RowIds

-----------------------------------------------------------------------------
(***************************************************************************)
(* What a fill makes of a position                                         *)
(***************************************************************************)

LEMMA DivType ==
    ASSUME NEW value \in Int, NEW n \in Nat \ {0}
    PROVE  moneyDivQty(value, n) \in Int
  <1>1. Abs(value) + (n \div 2) \in Int
    BY DEF Abs
  <1>2. (Abs(value) + (n \div 2)) \div n \in Int
    BY <1>1
  <1> QED
    BY <1>2 DEF moneyDivQty

\* A fill either opens, or it meets a position of its own or the other side.
LEMMA Kinds ==
    ASSUME NEW q \in Int, NEW s \in Int, s # 0
    PROVE  LET kind == fillKind(q, s)
           IN  /\ kind \in FillKinds
               /\ kind = "OPENED" => /\ q = 0 /\ q + s # 0 /\ closedQty(q, s) = 0
                                     /\ openedQty(q, s) = Abs(q + s)
               /\ kind = "INCREASED" => /\ q # 0 /\ q + s # 0 /\ (q > 0) = (q + s > 0)
                                        /\ closedQty(q, s) = 0
                                        /\ openedQty(q, s) = Abs(s)
                                        /\ Abs(q + s) = Abs(q) + Abs(s)
               /\ kind = "REDUCED" => /\ q # 0 /\ q + s # 0 /\ (q > 0) = (q + s > 0)
                                      /\ closedQty(q, s) = Abs(s)
                                      /\ openedQty(q, s) = 0
                                      /\ Abs(q + s) = Abs(q) - Abs(s)
                                      /\ (q > 0) = (s < 0)
               /\ kind = "CLOSED" => /\ q # 0 /\ q + s = 0
                                     /\ closedQty(q, s) = Abs(q) /\ openedQty(q, s) = 0
               /\ kind = "REVERSED" => /\ q # 0 /\ q + s # 0 /\ (q > 0) = (q + s < 0)
                                       /\ closedQty(q, s) = Abs(q)
                                       /\ openedQty(q, s) = Abs(q + s)
               /\ q = 0 => kind = "OPENED"
               /\ Abs(q) \in Nat /\ Abs(s) \in Nat /\ Abs(q + s) \in Nat
               /\ closedQty(q, s) \in Nat /\ openedQty(q, s) \in Nat
  BY DEF fillKind, FillKinds, SignOf, Abs, closedQty, openedQty

LEMMA DeltaType ==
    ASSUME NEW pos, pos.qty \in Int, pos.avg \in Int, NEW s \in Int, s # 0, NEW price \in Int
    PROVE  /\ realizedDelta(pos, s, price) \in Int
           /\ fillKind(pos.qty, s) \in {"OPENED", "INCREASED"} =>
                 realizedDelta(pos, s, price) = 0
           /\ averageAfter(pos, s, price) \in Int
  <1> DEFINE c == closedQty(pos.qty, s)
  <1>1. c \in Nat /\ (fillKind(pos.qty, s) \in {"OPENED", "INCREASED"} => c = 0)
    BY Kinds
  <1>2. realizedDelta(pos, s, price) \in Int
        /\ (c = 0 => realizedDelta(pos, s, price) = 0)
    <2>1. realizedDelta(pos, s, price)
              = IF pos.qty > 0 THEN (price - pos.avg) * c ELSE (pos.avg - price) * c
      BY DEF realizedDelta, realizedOnClose
    <2> HIDE DEF c
    <2> QED
      BY <1>1, <2>1
  <1>3. averageAfter(pos, s, price) \in Int
    <2>1. CASE fillKind(pos.qty, s) = "INCREASED"
      <3> DEFINE q == Abs(pos.qty)
                 n == Abs(s)
                 a == pos.avg
      <3>0. q \in Nat /\ n \in Nat \ {0} /\ a \in Int
        BY DEF Abs
      <3>1. a * q + price * n \in Int /\ q + n \in Nat \ {0}
        <4> HIDE DEF q, n, a
        <4> QED
          BY <3>0
      <3> QED
        BY <2>1, <3>1, DivType DEF averageAfter
    <2>2. CASE fillKind(pos.qty, s) # "INCREASED"
      BY <2>2 DEF averageAfter
    <2> QED
      BY <2>1, <2>2
  <1> QED
    BY <1>1, <1>2, <1>3

\* The row a fill leaves behind.
LEMMA RowFields ==
    ASSUME NEW row \in Row, NEW fill \in Fill, fill.qty # 0
    PROVE  LET b    == PositionBefore(row, fill.paper)
               next == RowAfter(row, fill)
           IN  /\ next \in Row
               /\ b.qty = row.qty /\ b.avg \in Int /\ b.realized \in Int
               /\ row.qty # 0 \/ (row.opened /\ ~resetsBookOnFill(row, fill.paper)) =>
                     b.avg = row.avg /\ b.realized = row.realized
               /\ row.qty = 0 /\ (~row.opened \/ resetsBookOnFill(row, fill.paper)) =>
                     b.avg = 0 /\ b.realized = 0
               /\ next.tag = (IF row.tag = NoStrategy THEN fill.tag ELSE row.tag)
               /\ next.paper = paperAfterFill(row, fill.paper)
               /\ next.qty = row.qty + fill.qty
               /\ next.avg = averageAfter(b, fill.qty, fill.price)
               /\ next.realized = b.realized + realizedDelta(b, fill.qty, fill.price)
               /\ next.opened /\ next.gone = row.gone
               /\ realizedDelta(b, fill.qty, fill.price) \in Int
  <1> DEFINE b == PositionBefore(row, fill.paper)
             n == applyFillToPosition(b, fill.qty, fill.price)
  <1>0. /\ row.tag \in Tags /\ row.paper \in BOOLEAN /\ row.qty \in Int /\ row.avg \in Int
        /\ row.realized \in Int /\ row.opened \in BOOLEAN /\ row.gone \in BOOLEAN
        /\ fill.tag \in Tags /\ fill.qty \in Int /\ fill.price \in Nat
        /\ fill.paper \in BOOLEAN
    BY DEF Row, Fill
  <1>1. /\ b.qty = row.qty /\ b.avg \in Int /\ b.realized \in Int
        /\ row.qty # 0 \/ (row.opened /\ ~resetsBookOnFill(row, fill.paper)) =>
              b.avg = row.avg /\ b.realized = row.realized
        /\ row.qty = 0 /\ (~row.opened \/ resetsBookOnFill(row, fill.paper)) =>
              b.avg = 0 /\ b.realized = 0
    BY <1>0 DEF PositionBefore, emptyPosition
  <1> HIDE DEF b
  <1>2. /\ n.qty = row.qty + fill.qty /\ n.avg = averageAfter(b, fill.qty, fill.price)
        /\ n.realized = b.realized + realizedDelta(b, fill.qty, fill.price)
        /\ n.opened = TRUE
    BY <1>1 DEF applyFillToPosition
  <1>3. n.qty \in Int /\ n.avg \in Int /\ n.realized \in Int
        /\ realizedDelta(b, fill.qty, fill.price) \in Int
    <2>1. b.qty \in Int /\ b.avg \in Int /\ fill.price \in Int
      BY <1>0, <1>1
    <2>2. realizedDelta(b, fill.qty, fill.price) \in Int
          /\ averageAfter(b, fill.qty, fill.price) \in Int
      BY <1>0, <2>1, DeltaType
    <2> QED
      BY <1>0, <1>1, <1>2, <2>2
  <1>4. paperAfterFill(row, fill.paper) \in BOOLEAN
    BY <1>0 DEF paperAfterFill
  <1> HIDE DEF n
  <1>5. RowAfter(row, fill) =
            [row EXCEPT !.tag = IF row.tag = NoStrategy THEN fill.tag ELSE row.tag,
                        !.paper = paperAfterFill(row, fill.paper),
                        !.qty = n.qty, !.avg = n.avg,
                        !.realized = n.realized, !.opened = n.opened]
    BY DEF RowAfter, n, b
  <1>6. /\ RowAfter(row, fill) \in Row
        /\ RowAfter(row, fill).tag = (IF row.tag = NoStrategy THEN fill.tag ELSE row.tag)
        /\ RowAfter(row, fill).paper = paperAfterFill(row, fill.paper)
        /\ RowAfter(row, fill).qty = n.qty /\ RowAfter(row, fill).avg = n.avg
        /\ RowAfter(row, fill).realized = n.realized
        /\ RowAfter(row, fill).opened = n.opened
        /\ RowAfter(row, fill).gone = row.gone
    BY <1>0, <1>2, <1>3, <1>4, <1>5 DEF Row
  <1> QED
    BY <1>1, <1>2, <1>3, <1>6 DEF b

-----------------------------------------------------------------------------
(***************************************************************************)
(* What a fill makes of the trades of its row                              *)
(***************************************************************************)

LEMMA NewTradeType ==
    ASSUME NEW r \in Nat, NEW long \in BOOLEAN, NEW fill \in Fill, NEW entry \in Nat
    PROVE  LET n == NewTrade(r, long, fill, entry)
           IN  /\ n \in Trade /\ n.row = r /\ n.long = long /\ n.open /\ n.entry = entry
               /\ n.exit = 0 /\ n.gross = 0 /\ n.paper = fill.paper /\ ~n.gone
  BY DEF NewTrade, Trade, Fill

LEMMA CloseByType ==
    ASSUME NEW trade \in Trade, NEW closed \in Nat, NEW delta \in Int, NEW open \in BOOLEAN
    PROVE  LET n == CloseBy(trade, closed, delta, open)
           IN  /\ n \in Trade /\ n.row = trade.row /\ n.long = trade.long /\ n.open = open
               /\ n.entry = trade.entry /\ n.exit = trade.exit + closed
               /\ n.gross = trade.gross + delta /\ n.paper = trade.paper
               /\ n.gone = trade.gone
  <1> DEFINE n == CloseBy(trade, closed, delta, open)
  <1>1. /\ trade.row \in Nat /\ trade.long \in BOOLEAN /\ trade.open \in BOOLEAN
        /\ trade.entry \in Nat /\ trade.exit \in Nat /\ trade.gross \in Int
        /\ trade.paper \in BOOLEAN /\ trade.gone \in BOOLEAN
    BY DEF Trade
  <1>2. trade.exit + closed \in Nat /\ trade.gross + delta \in Int
    BY <1>1
  <1>3. n = [trade EXCEPT !.exit = trade.exit + closed, !.gross = trade.gross + delta,
                          !.open = open]
    BY DEF CloseBy
  <1> HIDE DEF n
  <1>4. /\ n \in Trade /\ n.row = trade.row /\ n.long = trade.long /\ n.open = open
        /\ n.entry = trade.entry /\ n.exit = trade.exit + closed
        /\ n.gross = trade.gross + delta /\ n.paper = trade.paper
        /\ n.gone = trade.gone
    BY <1>2, <1>3 DEF Trade
  <1> QED
    BY <1>4 DEF n

LEMMA RaiseType ==
    ASSUME NEW trade \in Trade, NEW m \in Nat
    PROVE  LET n == [trade EXCEPT !.entry = @ + m]
           IN  /\ n \in Trade /\ n.row = trade.row /\ n.long = trade.long
               /\ n.open = trade.open /\ n.entry = trade.entry + m /\ n.exit = trade.exit
               /\ n.gross = trade.gross /\ n.paper = trade.paper /\ n.gone = trade.gone
  BY DEF Trade

\* The trade of the row a fill meets, if there is one.
Met(r) == CHOOSE i \in OpenTrades(r) : TRUE

\* syncTrade writes the open trade of the row, or adds one, or both.
Synced(T, r, fill, before, delta) ==
    LET kind   == fillKind(before, fill.qty)
        closed == closedQty(before, fill.qty)
        opened == openedQty(before, fill.qty)
        new    == NewTrade(r, before + fill.qty > 0, fill, opened)
        t      == Met(r)
    IN  \/ /\ kind = "OPENED" \/ OpenTrades(r) = {}
           /\ \E e \in Trade : /\ T = Append(trades, e) /\ e.row = r
                               /\ kind = "OPENED" => e = new
        \/ /\ OpenTrades(r) # {} /\ kind = "INCREASED"
           /\ T = [trades EXCEPT ![t] = [trades[t] EXCEPT !.entry = @ + opened]]
        \/ /\ OpenTrades(r) # {} /\ kind \in {"REDUCED", "CLOSED"}
           /\ T = [trades EXCEPT ![t] = CloseBy(trades[t], closed, delta, kind = "REDUCED")]
        \/ /\ OpenTrades(r) # {} /\ kind = "REVERSED"
           /\ T = Append([trades EXCEPT ![t] = CloseBy(trades[t], closed, delta, FALSE)], new)

LEMMA SyncShape ==
    ASSUME TypeOK, NEW r \in Nat, NEW fill \in Fill, fill.qty # 0, NEW before \in Int,
           NEW delta \in Int
    PROVE  Synced(SyncTrade(r, fill, before, delta), r, fill, before, delta)
  <1> DEFINE kind   == fillKind(before, fill.qty)
             closed == closedQty(before, fill.qty)
             opened == openedQty(before, fill.qty)
             after  == before + fill.qty
             new    == NewTrade(r, after > 0, fill, opened)
             old    == NewTrade(r, before > 0, fill, closed)
             entry  == IF opened > 0 THEN opened ELSE Abs(after + closed)
             orphan == NewTrade(r, before > 0, fill, entry)
             T      == SyncTrade(r, fill, before, delta)
             t      == Met(r)
             open   == OpenTrades(r)
  <1>0. fill.qty \in Int
    BY DEF Fill
  <1>1. closed \in Nat /\ opened \in Nat /\ entry \in Nat /\ kind \in FillKinds
    <2>0. after \in Int
      BY <1>0
    <2>1. closed \in Nat /\ opened \in Nat /\ kind \in FillKinds /\ after \in Int
      BY <1>0, <2>0, Kinds
    <2> HIDE DEF closed, opened, kind, after
    <2>2. Abs(after + closed) \in Nat
      BY <2>1 DEF Abs
    <2> QED
      BY <2>1, <2>2
  <1>2. t = CHOOSE i \in open : TRUE
    BY DEF Met
  <1>3. T = CASE kind \in {"OPENED", "REVERSED"} ->
                    LET was == IF kind = "REVERSED" /\ open # {}
                               THEN [trades EXCEPT ![t] = CloseBy(trades[t], closed, delta, FALSE)]
                               ELSE trades
                    IN  Append(was, new)
              [] kind = "CLOSED" /\ open = {} ->
                    Append(trades, CloseBy(old, closed, delta, FALSE))
              [] kind = "INCREASED" ->
                    IF open = {}
                    THEN Append(trades, [orphan EXCEPT !.entry = @ + opened])
                    ELSE [trades EXCEPT ![t] = [trades[t] EXCEPT !.entry = @ + opened]]
              [] OTHER ->
                    IF open = {}
                    THEN Append(trades, CloseBy(orphan, closed, delta, TRUE))
                    ELSE [trades EXCEPT ![t] = CloseBy(trades[t], closed, delta,
                                                       kind = "REDUCED")]
    BY DEF SyncTrade, Met
  <1>4. \A b \in BOOLEAN, n \in Nat :
            NewTrade(r, b, fill, n) \in Trade /\ NewTrade(r, b, fill, n).row = r
    BY NewTradeType
  <1>5. /\ new \in Trade /\ new.row = r /\ old \in Trade /\ old.row = r
        /\ orphan \in Trade /\ orphan.row = r
    <2>1. (after > 0) \in BOOLEAN /\ (before > 0) \in BOOLEAN
      OBVIOUS
    <2> HIDE DEF closed, opened, entry
    <2> QED
      BY <1>1, <1>4, <2>1, Zenon
  <1> HIDE DEF kind, closed, opened, after, new, old, entry, orphan, T, t, open
  <1>6. /\ CloseBy(old, closed, delta, FALSE) \in Trade
        /\ CloseBy(old, closed, delta, FALSE).row = r
        /\ CloseBy(orphan, closed, delta, TRUE) \in Trade
        /\ CloseBy(orphan, closed, delta, TRUE).row = r
    <2>1. \A trade \in Trade, b \in BOOLEAN :
              /\ CloseBy(trade, closed, delta, b) \in Trade
              /\ CloseBy(trade, closed, delta, b).row = trade.row
      BY <1>1, CloseByType
    <2>2. TRUE \in BOOLEAN /\ FALSE \in BOOLEAN
      OBVIOUS
    <2> QED
      BY <1>5, <2>1, <2>2, Zenon
  <1>7. /\ [orphan EXCEPT !.entry = @ + opened] \in Trade
        /\ [orphan EXCEPT !.entry = @ + opened].row = r
    BY <1>1, <1>5, RaiseType
  <1>8. \/ /\ kind = "OPENED" \/ open = {}
           /\ \E e \in Trade : /\ T = Append(trades, e) /\ e.row = r
                               /\ kind = "OPENED" => e = new
        \/ /\ open # {} /\ kind = "INCREASED"
           /\ T = [trades EXCEPT ![t] = [trades[t] EXCEPT !.entry = @ + opened]]
        \/ /\ open # {} /\ kind \in {"REDUCED", "CLOSED"}
           /\ T = [trades EXCEPT ![t] = CloseBy(trades[t], closed, delta, kind = "REDUCED")]
        \/ /\ open # {} /\ kind = "REVERSED"
           /\ T = Append([trades EXCEPT ![t] = CloseBy(trades[t], closed, delta, FALSE)], new)
    <2>1. CASE kind = "OPENED"
      <3>1. T = Append(trades, new)
        BY <1>3, <2>1
      <3> QED
        BY <1>5, <2>1, <3>1
    <2>2. CASE kind = "REVERSED" /\ open = {}
      <3>1. T = Append(trades, new)
        BY <1>3, <2>2
      <3> QED
        BY <1>5, <2>2, <3>1
    <2>3. CASE kind = "REVERSED" /\ open # {}
      BY <1>3, <2>3
    <2>4. CASE kind = "CLOSED" /\ open = {}
      <3>1. T = Append(trades, CloseBy(old, closed, delta, FALSE))
        BY <1>3, <2>4
      <3> QED
        BY <1>6, <2>4, <3>1
    <2>5. CASE kind = "INCREASED" /\ open = {}
      <3>1. T = Append(trades, [orphan EXCEPT !.entry = @ + opened])
        BY <1>3, <2>5
      <3> QED
        BY <1>7, <2>5, <3>1
    <2>6. CASE kind = "INCREASED" /\ open # {}
      BY <1>3, <2>6
    <2>7. CASE kind = "REDUCED" /\ open = {}
      <3>1. T = Append(trades, CloseBy(orphan, closed, delta, TRUE))
        BY <1>3, <2>7
      <3> QED
        BY <1>6, <2>7, <3>1
    <2>8. CASE kind \in {"REDUCED", "CLOSED"} /\ open # {}
      BY <1>3, <2>8
    <2> QED
      BY <1>1, <2>1, <2>2, <2>3, <2>4, <2>5, <2>6, <2>7, <2>8 DEF FillKinds
  <1> QED
    BY <1>8 DEF Synced, kind, closed, opened, after, new, T, t, open

\* The trades stay a table, and each one stays with its row.
LEMMA SyncType ==
    ASSUME TypeOK, NEW r \in Nat, NEW fill \in Fill, fill.qty # 0, NEW before \in Int,
           NEW delta \in Int
    PROVE  LET T == SyncTrade(r, fill, before, delta)
           IN  /\ T \in Seq(Trade) /\ DOMAIN trades \subseteq DOMAIN T
               /\ \A i \in DOMAIN T :
                     T[i].row = IF i \in DOMAIN trades THEN trades[i].row ELSE r
  <1> DEFINE T == SyncTrade(r, fill, before, delta)
             t == Met(r)
             closed == closedQty(before, fill.qty)
             opened == openedQty(before, fill.qty)
             Ok(s) == /\ s \in Seq(Trade) /\ DOMAIN trades \subseteq DOMAIN s
                      /\ \A i \in DOMAIN s :
                            s[i].row = IF i \in DOMAIN trades THEN trades[i].row ELSE r
  <1>0. /\ closed \in Nat /\ opened \in Nat /\ fill.qty \in Int
        /\ trades \in Seq(Trade) /\ Ok(trades)
    BY Kinds DEF TypeOK, Fill
  <1>1. OpenTrades(r) # {} => t \in DOMAIN trades /\ trades[t] \in Trade
    BY Shapes DEF OpenTrades, Met
  <1>2. \A e \in Trade, i \in DOMAIN trades :
            e.row = trades[i].row => LET s == [trades EXCEPT ![i] = e]
                                     IN  Ok(s) /\ DOMAIN s = DOMAIN trades
    BY <1>0, PutSeq
  <1>3. \A e \in Trade, s \in Seq(Trade) :
            Ok(s) /\ DOMAIN s = DOMAIN trades /\ e.row = r => Ok(Append(s, e))
    <2> TAKE e \in Trade, s \in Seq(Trade)
    <2> HAVE Ok(s) /\ DOMAIN s = DOMAIN trades /\ e.row = r
    <2> DEFINE u == Append(s, e)
    <2>1. /\ u \in Seq(Trade) /\ DOMAIN u = DOMAIN s \cup {Len(s) + 1}
          /\ Len(s) + 1 \notin DOMAIN s /\ u[Len(s) + 1] = e
          /\ \A k \in DOMAIN s : u[k] = s[k]
      BY AddSeq
    <2> HIDE DEF u
    <2>2. Ok(u)
      BY <2>1
    <2> QED
      BY <2>2 DEF u
  <1>4. \A trade \in Trade :
            /\ \A b \in BOOLEAN : /\ CloseBy(trade, closed, delta, b) \in Trade
                                  /\ CloseBy(trade, closed, delta, b).row = trade.row
            /\ [trade EXCEPT !.entry = @ + opened] \in Trade
            /\ [trade EXCEPT !.entry = @ + opened].row = trade.row
    <2> TAKE trade \in Trade
    <2>1. \A b \in BOOLEAN : /\ CloseBy(trade, closed, delta, b) \in Trade
                             /\ CloseBy(trade, closed, delta, b).row = trade.row
      BY <1>0, CloseByType
    <2>2. /\ [trade EXCEPT !.entry = @ + opened] \in Trade
          /\ [trade EXCEPT !.entry = @ + opened].row = trade.row
      BY <1>0, RaiseType
    <2> QED
      BY <2>1, <2>2
  <1>5. \A b \in BOOLEAN : /\ NewTrade(r, b, fill, opened) \in Trade
                           /\ NewTrade(r, b, fill, opened).row = r
    BY <1>0, NewTradeType
  <1>6. /\ (before + fill.qty > 0) \in BOOLEAN /\ FALSE \in BOOLEAN
        /\ (fillKind(before, fill.qty) = "REDUCED") \in BOOLEAN
    OBVIOUS
  <1> HIDE DEF Ok, closed, opened, t
  <1>7. ASSUME OpenTrades(r) # {}, NEW e \in Trade, e.row = trades[t].row
        PROVE  LET s == [trades EXCEPT ![t] = e]
               IN  Ok(s) /\ s \in Seq(Trade) /\ DOMAIN s = DOMAIN trades
    BY <1>1, <1>2, <1>7 DEF Ok
  <1>8. Ok(T)
    <2>1. CASE \E e \in Trade : T = Append(trades, e) /\ e.row = r
      BY <1>0, <1>3, <2>1
    <2>2. CASE /\ OpenTrades(r) # {}
               /\ T = [trades EXCEPT ![t] = [trades[t] EXCEPT !.entry = @ + opened]]
      <3> DEFINE e == [trades[t] EXCEPT !.entry = @ + opened]
      <3>1. e \in Trade /\ e.row = trades[t].row
        BY <1>1, <1>4, <2>2
      <3>2. T = [trades EXCEPT ![t] = e]
        BY <2>2
      <3> HIDE DEF e
      <3> QED
        BY <1>7, <2>2, <3>1, <3>2
    <2>3. CASE /\ OpenTrades(r) # {}
               /\ T = [trades EXCEPT ![t] = CloseBy(trades[t], closed, delta,
                                                    fillKind(before, fill.qty) = "REDUCED")]
      <3> DEFINE e == CloseBy(trades[t], closed, delta, fillKind(before, fill.qty) = "REDUCED")
      <3>1. e \in Trade /\ e.row = trades[t].row
        BY <1>1, <1>4, <1>6, <2>3, Zenon
      <3>2. T = [trades EXCEPT ![t] = e]
        BY <2>3, Zenon
      <3> HIDE DEF e
      <3> QED
        BY <1>7, <2>3, <3>1, <3>2
    <2>4. CASE /\ OpenTrades(r) # {}
               /\ T = Append([trades EXCEPT ![t] = CloseBy(trades[t], closed, delta, FALSE)],
                             NewTrade(r, before + fill.qty > 0, fill, opened))
      <3> DEFINE e == CloseBy(trades[t], closed, delta, FALSE)
                 n == NewTrade(r, before + fill.qty > 0, fill, opened)
                 s == [trades EXCEPT ![t] = e]
      <3>1. e \in Trade /\ e.row = trades[t].row
        BY <1>1, <1>4, <1>6, <2>4, Zenon
      <3>2. n \in Trade /\ n.row = r
        BY <1>5, <1>6, Zenon
      <3>3. T = Append(s, n)
        BY <2>4, Zenon
      <3> HIDE DEF n, e
      <3>4. Ok(s) /\ s \in Seq(Trade) /\ DOMAIN s = DOMAIN trades
        BY <1>7, <2>4, <3>1
      <3> HIDE DEF s
      <3> QED
        BY <1>3, <3>2, <3>3, <3>4
    <2> QED
      <3> HIDE DEF T
      <3>1. \/ \E e \in Trade : T = Append(trades, e) /\ e.row = r
            \/ /\ OpenTrades(r) # {}
               /\ \/ T = [trades EXCEPT ![t] = [trades[t] EXCEPT !.entry = @ + opened]]
                  \/ T = [trades EXCEPT ![t] = CloseBy(trades[t], closed, delta,
                                                    fillKind(before, fill.qty) = "REDUCED")]
                  \/ T = Append([trades EXCEPT ![t] = CloseBy(trades[t], closed, delta, FALSE)],
                                NewTrade(r, before + fill.qty > 0, fill, opened))
        <4>1. Synced(T, r, fill, before, delta)
          BY SyncShape DEF T
        <4> QED
          BY <4>1 DEF Synced, closed, opened, t
      <3> QED
        BY <2>1, <2>2, <2>3, <2>4, <3>1, Zenon
  <1> QED
    BY <1>8 DEF Ok

\* The open trades of a row in a table of trades, and what they must be.
OpenIn(T, r) == {i \in DOMAIN T : T[i].row = r /\ T[i].open /\ ~T[i].gone}

Fits(T, r, qty) ==
    IF qty = 0 THEN OpenIn(T, r) = {}
    ELSE \E t \in DOMAIN T : /\ OpenIn(T, r) = {t}
                             /\ T[t].long = (qty > 0)
                             /\ T[t].entry - T[t].exit = Abs(qty)

\* The open trade of the row takes the realized P&L; a new one starts without.
Traded(T, r, fill, delta) ==
    \E n \in Nat \ DOMAIN trades :
        /\ DOMAIN T \in {DOMAIN trades, DOMAIN trades \cup {n}}
        /\ \A i \in DOMAIN trades \ OpenTrades(r) : T[i] = trades[i]
        /\ \A i \in OpenTrades(r) : /\ T[i].row = r /\ T[i].paper = trades[i].paper
                                    /\ ~T[i].gone /\ T[i].gross = trades[i].gross + delta
        /\ n \in DOMAIN T => /\ T[n].row = r /\ T[n].paper = fill.paper
                             /\ ~T[n].gone /\ T[n].gross = 0
        /\ OpenTrades(r) = {} => delta = 0

\* A fill on a row whose open trade fits its quantity leaves one that fits.
LEMMA SyncFits ==
    ASSUME TypeOK, NEW r \in Nat, NEW fill \in Fill, fill.qty # 0, NEW before \in Int,
           NEW delta \in Int, Fits(trades, r, before),
           fillKind(before, fill.qty) \in {"OPENED", "INCREASED"} => delta = 0
    PROVE  LET T == SyncTrade(r, fill, before, delta)
           IN  Fits(T, r, before + fill.qty) /\ Traded(T, r, fill, delta)
  <1> DEFINE kind   == fillKind(before, fill.qty)
             closed == closedQty(before, fill.qty)
             opened == openedQty(before, fill.qty)
             after  == before + fill.qty
             long   == after > 0
             new    == NewTrade(r, long, fill, opened)
             T      == SyncTrade(r, fill, before, delta)
             t      == Met(r)
             n      == Len(trades) + 1
  <1>0. /\ trades \in Seq(Trade) /\ fill.qty \in Int /\ after \in Int
        /\ OpenTrades(r) = OpenIn(trades, r)
    BY SMTT(30) DEF TypeOK, Fill, OpenTrades, OpenIn
  <1>1. /\ closed \in Nat /\ opened \in Nat /\ kind \in FillKinds
        /\ kind = "OPENED" => before = 0 /\ after # 0 /\ opened = Abs(after)
        /\ kind = "INCREASED" => /\ before # 0 /\ after # 0 /\ (before > 0) = (after > 0)
                                 /\ opened = Abs(fill.qty)
                                 /\ Abs(after) = Abs(before) + Abs(fill.qty)
        /\ kind = "REDUCED" => /\ before # 0 /\ after # 0 /\ (before > 0) = (after > 0)
                               /\ closed = Abs(fill.qty)
                               /\ Abs(after) = Abs(before) - Abs(fill.qty)
        /\ kind = "CLOSED" => before # 0 /\ after = 0
        /\ kind = "REVERSED" => before # 0 /\ after # 0 /\ opened = Abs(after)
        /\ Abs(before) \in Nat /\ Abs(after) \in Nat /\ Abs(fill.qty) \in Nat
    BY <1>0, Kinds
  <1>2. n \in Nat \ DOMAIN trades
    BY <1>0, LenProperties
  <1>3. /\ new \in Trade /\ new.row = r /\ new.long = long /\ new.open /\ new.entry = opened
        /\ new.exit = 0 /\ new.gross = 0 /\ new.paper = fill.paper /\ ~new.gone
    <2>1. long \in BOOLEAN
      OBVIOUS
    <2> HIDE DEF long, opened
    <2> QED
      BY <1>1, <2>1, NewTradeType
  <1>4. before # 0 => /\ OpenTrades(r) = {t} /\ t \in DOMAIN trades
                      /\ trades[t] \in Trade /\ trades[t].row = r
                      /\ trades[t].open /\ ~trades[t].gone
                      /\ trades[t].long = (before > 0)
                      /\ trades[t].entry - trades[t].exit = Abs(before)
                      /\ trades[t].entry \in Nat /\ trades[t].exit \in Nat
                      /\ trades[t].gross \in Int
    <2> SUFFICES ASSUME before # 0
                 PROVE  /\ OpenTrades(r) = {t} /\ t \in DOMAIN trades
                        /\ trades[t] \in Trade /\ trades[t].row = r
                        /\ trades[t].open /\ ~trades[t].gone
                        /\ trades[t].long = (before > 0)
                        /\ trades[t].entry - trades[t].exit = Abs(before)
                        /\ trades[t].entry \in Nat /\ trades[t].exit \in Nat
                        /\ trades[t].gross \in Int
      OBVIOUS
    <2>1. PICK i \in DOMAIN trades : /\ OpenTrades(r) = {i}
                                     /\ trades[i].long = (before > 0)
                                     /\ trades[i].entry - trades[i].exit = Abs(before)
      BY <1>0 DEF Fits
    <2>2. t = i
      BY <2>1 DEF Met
    <2> HIDE DEF t
    <2>3. trades[t] \in Trade /\ t \in OpenTrades(r)
      BY <2>1, <2>2, Shapes
    <2> QED
      BY <2>1, <2>2, <2>3 DEF OpenTrades, Trade
  <1>5. before = 0 => OpenTrades(r) = {}
    BY <1>0 DEF Fits
  <1>6. Synced(T, r, fill, before, delta)
    BY SyncShape
  <1> HIDE DEF T, t, n, new
  <1>7. \A trade \in Trade, b \in BOOLEAN :
            LET e == CloseBy(trade, closed, delta, b)
            IN  /\ e \in Trade /\ e.row = trade.row /\ e.long = trade.long /\ e.open = b
                /\ e.entry = trade.entry /\ e.exit = trade.exit + closed
                /\ e.gross = trade.gross + delta /\ e.paper = trade.paper
                /\ e.gone = trade.gone
    <2> HIDE DEF closed
    <2> QED
      BY <1>1, CloseByType
  <1>8. CASE kind = "OPENED"
    <2>1. T = Append(trades, new)
      BY <1>1, <1>3, <1>5, <1>6, <1>8 DEF Synced, new
    <2>2. /\ DOMAIN T = DOMAIN trades \cup {n} /\ T[n] = new
          /\ \A i \in DOMAIN trades : T[i] = trades[i]
      BY <1>0, <1>3, <2>1, AddSeq DEF n
    <2>3. OpenIn(T, r) = {n}
      BY <1>0, <1>1, <1>2, <1>3, <1>5, <1>8, <2>2 DEF OpenIn
    <2>4. Fits(T, r, after)
      BY <1>1, <1>3, <1>8, <2>2, <2>3 DEF Fits
    <2>5. Traded(T, r, fill, delta)
      <3>1. /\ DOMAIN T \in {DOMAIN trades, DOMAIN trades \cup {n}}
            /\ \A i \in DOMAIN trades \ OpenTrades(r) : T[i] = trades[i]
            /\ \A i \in OpenTrades(r) : /\ T[i].row = r /\ T[i].paper = trades[i].paper
                                        /\ ~T[i].gone /\ T[i].gross = trades[i].gross + delta
            /\ n \in DOMAIN T => /\ T[n].row = r /\ T[n].paper = fill.paper
                                 /\ ~T[n].gone /\ T[n].gross = 0
            /\ OpenTrades(r) = {} => delta = 0
        BY <1>1, <1>3, <1>5, <1>8, <2>2
      <3> QED
        BY <1>2, <3>1 DEF Traded
    <2> QED
      BY <2>4, <2>5 DEF T
  <1>9. ASSUME before # 0, NEW e \in Trade, T = [trades EXCEPT ![t] = e], e.row = r,
               e.paper = trades[t].paper, ~e.gone, e.gross = trades[t].gross + delta,
               IF after = 0 THEN ~e.open
               ELSE e.open /\ e.long = long /\ e.entry - e.exit = Abs(after)
        PROVE  Fits(T, r, after) /\ Traded(T, r, fill, delta)
    <2>1. /\ DOMAIN T = DOMAIN trades /\ T[t] = e
          /\ \A i \in DOMAIN trades \ {t} : T[i] = trades[i]
      BY <1>0, <1>4, <1>9, PutSeq
    <2>2. OpenIn(T, r) = IF after = 0 THEN {} ELSE {t}
      BY <1>0, <1>4, <1>9, <2>1 DEF OpenIn
    <2>3. Fits(T, r, after)
      BY <1>4, <1>9, <2>1, <2>2 DEF Fits
    <2>4. /\ \A i \in DOMAIN trades \ OpenTrades(r) : T[i] = trades[i]
          /\ \A i \in OpenTrades(r) : /\ T[i].row = r /\ T[i].paper = trades[i].paper
                                      /\ ~T[i].gone /\ T[i].gross = trades[i].gross + delta
          /\ n \notin DOMAIN T /\ OpenTrades(r) # {}
      BY <1>2, <1>4, <1>9, <2>1
    <2> QED
      BY <1>2, <2>1, <2>3, <2>4 DEF Traded
  <1>10. CASE kind = "INCREASED"
    <2> DEFINE e == [trades[t] EXCEPT !.entry = @ + opened]
    <2>1. T = [trades EXCEPT ![t] = e] /\ before # 0
      BY <1>1, <1>4, <1>6, <1>10 DEF Synced, t
    <2>2. /\ e \in Trade /\ e.row = trades[t].row /\ e.long = trades[t].long
          /\ e.open = trades[t].open /\ e.entry = trades[t].entry + opened
          /\ e.exit = trades[t].exit /\ e.gross = trades[t].gross
          /\ e.paper = trades[t].paper /\ e.gone = trades[t].gone
      BY <1>1, <1>4, <2>1, RaiseType
    <2> HIDE DEF e
    <2>3. e.entry - e.exit = Abs(after)
      BY <1>1, <1>4, <1>10, <2>1, <2>2
    <2>4. after # 0 /\ e.open /\ ~e.gone /\ e.gross = trades[t].gross + delta
      BY <1>1, <1>4, <1>10, <2>1, <2>2
    <2>5. e.long = long
      BY <1>1, <1>4, <1>10, <2>1, <2>2
    <2>6. IF after = 0 THEN ~e.open
          ELSE e.open /\ e.long = long /\ e.entry - e.exit = Abs(after)
      BY <2>3, <2>4, <2>5
    <2>7. e.row = r /\ e.paper = trades[t].paper
      BY <1>4, <2>1, <2>2
    <2> HIDE DEF after, long
    <2>8. Fits(T, r, after) /\ Traded(T, r, fill, delta)
      BY <1>9, <2>1, <2>2, <2>4, <2>6, <2>7
    <2> QED
      BY <2>8 DEF T, after
  <1>11. CASE kind \in {"REDUCED", "CLOSED"}
    <2> DEFINE still == kind = "REDUCED"
               e == CloseBy(trades[t], closed, delta, still)
    <2>1. T = [trades EXCEPT ![t] = e] /\ before # 0
      BY <1>1, <1>4, <1>6, <1>11 DEF Synced, t
    <2>2. /\ e \in Trade /\ e.row = trades[t].row /\ e.long = trades[t].long
          /\ e.open = still /\ e.entry = trades[t].entry /\ e.exit = trades[t].exit + closed
          /\ e.gross = trades[t].gross + delta /\ e.paper = trades[t].paper
          /\ e.gone = trades[t].gone
      <3>1. still \in BOOLEAN
        OBVIOUS
      <3> HIDE DEF still, closed
      <3> QED
        BY <1>4, <1>7, <2>1, <3>1, Zenon
    <2> HIDE DEF e
    <2>3. after # 0 => e.entry - e.exit = Abs(after)
      BY <1>1, <1>4, <1>11, <2>1, <2>2
    <2>4. Fits(T, r, after) /\ Traded(T, r, fill, delta)
      BY <1>1, <1>4, <1>9, <1>11, <2>1, <2>2, <2>3
    <2> QED
      BY <2>4 DEF T
  <1>12. CASE kind = "REVERSED"
    <2> DEFINE e == CloseBy(trades[t], closed, delta, FALSE)
               s == [trades EXCEPT ![t] = e]
    <2>1. T = Append(s, new) /\ before # 0 /\ after # 0
      BY <1>1, <1>4, <1>6, <1>12 DEF Synced, t, new
    <2>2. /\ e \in Trade /\ e.row = trades[t].row /\ e.open = FALSE
          /\ e.gross = trades[t].gross + delta /\ e.paper = trades[t].paper
          /\ e.gone = trades[t].gone
      <3>1. FALSE \in BOOLEAN
        OBVIOUS
      <3> HIDE DEF closed
      <3> QED
        BY <1>4, <1>7, <2>1, <3>1, Zenon
    <2> HIDE DEF e
    <2>3. /\ s \in Seq(Trade) /\ DOMAIN s = DOMAIN trades /\ s[t] = e
          /\ \A i \in DOMAIN trades \ {t} : s[i] = trades[i]
      BY <1>0, <1>4, <2>1, <2>2, PutSeq
    <2> HIDE DEF s
    <2>4. Len(s) + 1 = n
      BY <1>0, <2>3, LenProperties DEF n
    <2>5. /\ DOMAIN T = DOMAIN trades \cup {n} /\ T[n] = new /\ T[t] = e
          /\ \A i \in DOMAIN trades \ {t} : T[i] = trades[i]
      BY <1>3, <1>4, <2>1, <2>3, <2>4, AddSeq
    <2>6. OpenIn(T, r) = {n}
      <3>1. \A i \in DOMAIN trades \ {t} : i \notin OpenIn(trades, r)
        BY <1>0, <1>4, <2>1
      <3>2. \A i \in DOMAIN trades \ {t} : i \notin OpenIn(T, r)
        BY <2>5, <3>1 DEF OpenIn
      <3>3. t \notin OpenIn(T, r)
        BY <2>2, <2>5 DEF OpenIn
      <3>4. n \in OpenIn(T, r)
        BY <1>3, <2>5 DEF OpenIn
      <3>5. OpenIn(T, r) \subseteq DOMAIN trades \cup {n}
        BY <2>5 DEF OpenIn
      <3> QED
        BY <3>2, <3>3, <3>4, <3>5
    <2>7. Fits(T, r, after)
      BY <1>1, <1>3, <1>12, <2>5, <2>6 DEF Fits
    <2>8. /\ DOMAIN T \in {DOMAIN trades, DOMAIN trades \cup {n}}
          /\ \A i \in DOMAIN trades \ OpenTrades(r) : T[i] = trades[i]
          /\ \A i \in OpenTrades(r) : /\ T[i].row = r /\ T[i].paper = trades[i].paper
                                      /\ ~T[i].gone /\ T[i].gross = trades[i].gross + delta
          /\ n \in DOMAIN T => /\ T[n].row = r /\ T[n].paper = fill.paper
                               /\ ~T[n].gone /\ T[n].gross = 0
          /\ OpenTrades(r) # {}
      BY <1>3, <1>4, <2>1, <2>2, <2>5
    <2>9. Traded(T, r, fill, delta)
      BY <1>2, <2>8 DEF Traded
    <2> QED
      BY <2>7, <2>9 DEF T
  <1> QED
    BY <1>1, <1>8, <1>10, <1>11, <1>12 DEF FillKinds

-----------------------------------------------------------------------------
(***************************************************************************)
(* What holds in every setting                                             *)
(***************************************************************************)

\* A worker has locked a pending fill, and no other worker has.
WorkersOk ==
    \A w \in Workers : worker[w].fill # 0 =>
        /\ worker[w].fill \in FillIds
        /\ fills[worker[w].fill].state = "new"
        /\ \A v \in Workers : worker[v].fill = worker[w].fill => v = w

\* An applied fill names its row, and a named one a row of its strategy.
FillsOk ==
    \A f \in FillIds :
        /\ fills[f].qty # 0
        /\ fills[f].row \in DOMAIN rows \cup {0}
        /\ fills[f].state = "new" => fills[f].row = 0
        /\ fills[f].state = "applied" =>
              /\ fills[f].row # 0
              /\ fills[f].tag # NoStrategy => rows[fills[f].row].tag = fills[f].tag

RowsOk ==
    /\ \A r \in DOMAIN rows : rows[r].opened
    /\ \A q, r \in RowIds : rows[q].tag = rows[r].tag => q = r

LinksOk ==
    /\ \A t \in DOMAIN trades : trades[t].row \in DOMAIN rows
    /\ \A e \in DOMAIN audit : audit[e].row \in DOMAIN rows
    /\ broken \subseteq DOMAIN rows
    /\ clear.pc \in {"zero", "trades"} => clear.row \in RowIds

BaseInv == WorkersOk /\ FillsOk /\ RowsOk /\ LinksOk


-----------------------------------------------------------------------------
(***************************************************************************)
(* One application of a fill                                               *)
(***************************************************************************)

\* Fill f took row r, new or seen by the SELECT, from row to next.
Booked(w, f, r, row, next, done) ==
    /\ f = worker[w].fill /\ f \in FillIds /\ fills[f].state = "new"
    /\ \/ r \in RowIds /\ row = rows[r]
       \/ r \notin DOMAIN rows /\ row = NewRow(fills[f])
    /\ next = RowAfter(row, fills[f])
    /\ row.tag \in {fills[f].tag, NoStrategy} \/ fills[f].tag = NoStrategy
    /\ \A q \in RowIds \ {r} : rows[q].tag # next.tag
    /\ row.qty = 0 => OpenTrades(r) = {}
    /\ done = [fills[f] EXCEPT !.state = "applied", !.row = r,
                  !.delta = realizedDelta(PositionBefore(row, fills[f].paper),
                                          fills[f].qty, fills[f].price),
                  !.kind = fillKind(row.qty, fills[f].qty), !.after = next.qty]
    /\ rows' \in Seq(Row) /\ DOMAIN rows' = DOMAIN rows \cup {r} /\ rows'[r] = next
    /\ \A q \in DOMAIN rows \ {r} : rows'[q] = rows[q]
    /\ fills' \in Seq(Fill) /\ DOMAIN fills' = DOMAIN fills /\ fills'[f] = done
    /\ \A g \in DOMAIN fills \ {f} : fills'[g] = fills[g]
    /\ trades' = SyncTrade(r, fills[f], row.qty, done.delta)
    /\ worker' = [worker EXCEPT ![w] = IdleWorker]
    /\ UNCHANGED <<mode, clear, audit, broken, clears, failures>>

\* The rows matchPositionForFill offers were seen, and suit the fill's strategy.
LEMMA Matched ==
    ASSUME NEW tags, NEW tag,
           NEW q \in matchPositionForFill(tags, tag, NoStrategy)
    PROVE  q \in DOMAIN tags /\ (tags[q] \in {tag, NoStrategy} \/ tag = NoStrategy)
  <1> DEFINE exact    == {r \in DOMAIN tags : tags[r] = tag}
             untagged == {r \in DOMAIN tags : tags[r] = NoStrategy}
  <1>1. q \in IF exact # {} THEN exact
              ELSE IF tag # NoStrategy
                   THEN IF Cardinality(untagged) = 1 THEN untagged ELSE {}
              ELSE DOMAIN tags \ untagged
    BY DEF matchPositionForFill
  <1> QED
    BY <1>1

LEMMA NewRowType ==
    ASSUME NEW fill \in Fill
    PROVE  /\ NewRow(fill) \in Row /\ NewRow(fill).tag = fill.tag
           /\ NewRow(fill).paper = fill.paper /\ NewRow(fill).qty = 0
           /\ NewRow(fill).avg = 0 /\ NewRow(fill).realized = 0
           /\ ~NewRow(fill).opened /\ ~NewRow(fill).gone
  BY DEF NewRow, Row, Fill

LEMMA Commit ==
    ASSUME TypeOK, BaseInv, NEW w \in Workers, ApplyCommit(w)
    PROVE  \E f \in FillIds, r \in Nat \ {0}, row \in Row, next \in Row, done \in Fill :
               Booked(w, f, r, row, next, done)
  <1> DEFINE f == worker[w].fill
             fill == fills[f]
             seen == worker[w].seen
             tags == [r \in seen \cap RowIds |-> rows[r].tag]
             matched == matchPositionForFill(tags, fill.tag, NoStrategy)
             insert == matched = {}
             r == IF insert THEN Len(rows) + 1 ELSE CHOOSE q \in matched : TRUE
             row == IF insert THEN NewRow(fill) ELSE rows[r]
             next == RowAfter(row, fill)
             before == PositionBefore(row, fill.paper)
             delta == realizedDelta(before, fill.qty, fill.price)
             done == [fill EXCEPT !.state = "applied", !.row = r, !.delta = delta,
                                  !.kind = fillKind(row.qty, fill.qty),
                                  !.after = next.qty]
  <1>1. /\ f # 0 /\ \A q \in RowIds \ {r} : rows[q].tag # next.tag
        /\ fillKind(row.qty, fill.qty) = "OPENED" => OpenTrades(r) = {}
        /\ rows' = IF insert THEN Append(rows, next) ELSE [rows EXCEPT ![r] = next]
        /\ trades' = SyncTrade(r, fill, row.qty, delta)
        /\ fills' = [fills EXCEPT ![f] = done]
        /\ worker' = [worker EXCEPT ![w] = IdleWorker]
        /\ UNCHANGED <<mode, clear, audit, broken, clears, failures>>
    BY DEF ApplyCommit, Application, TagTaken
  <1>2. f \in FillIds /\ fill.state = "new" /\ fill \in Fill /\ fill.qty # 0
    BY <1>1, Shapes DEF BaseInv, WorkersOk, FillsOk
  <1>3. rows \in Seq(Row) /\ fills \in Seq(Fill)
    BY DEF TypeOK
  <1> HIDE DEF f, fill, seen
  <1>4. /\ row \in Row /\ r \in Nat \ {0}
        /\ \/ ~insert /\ r \in RowIds /\ row = rows[r]
           \/ insert /\ r = Len(rows) + 1 /\ r \notin DOMAIN rows /\ row = NewRow(fill)
        /\ row.tag \in {fill.tag, NoStrategy} \/ fill.tag = NoStrategy
    <2>1. CASE insert
      <3>1. r = Len(rows) + 1 /\ row = NewRow(fill)
        BY <2>1
      <3>2. Len(rows) \in Nat /\ DOMAIN rows = 1..Len(rows)
        BY <1>3, LenProperties
      <3> HIDE DEF r, row
      <3>4. row \in Row
        BY <1>2, <3>1, NewRowType
      <3>5. r \in Nat \ {0} /\ r \notin DOMAIN rows
        BY <3>1, <3>2
      <3>3. row.tag = fill.tag
        BY <1>2, <3>1, NewRowType
      <3> QED
        BY <2>1, <3>1, <3>3, <3>4, <3>5
    <2>2. CASE ~insert
      <3>1. r \in matched /\ row = rows[r]
        BY <2>2
      <3> HIDE DEF r, row
      <3>2. r \in DOMAIN tags /\ (tags[r] \in {fill.tag, NoStrategy} \/ fill.tag = NoStrategy)
        BY <3>1, Matched
      <3>3. r \in RowIds /\ tags[r] = rows[r].tag
        BY <3>2
      <3>4. row \in Row /\ r \in Nat \ {0}
        BY <3>1, <3>3, Shapes
      <3> QED
        BY <2>2, <3>1, <3>2, <3>3, <3>4
    <2> QED
      BY <2>1, <2>2
  <1> HIDE DEF r, row, insert, matched
  <1>5. next \in Row /\ next.qty \in Int /\ delta \in Int
    <2>1. next \in Row /\ delta \in Int
      BY <1>2, <1>4, RowFields
    <2> QED
      BY <2>1 DEF Row
  <1>6. row.qty \in Int /\ fill.qty \in Int
    BY <1>2, <1>4 DEF Row, Fill
  <1>7. fillKind(row.qty, fill.qty) \in FillKinds
        /\ (row.qty = 0 => fillKind(row.qty, fill.qty) = "OPENED")
    BY <1>2, <1>6, Kinds
  <1> HIDE DEF next, delta
  <1>8. done \in Fill /\ done.delta = delta
    BY <1>2, <1>4, <1>5, <1>7 DEF Fill
  <1> HIDE DEF done
  <1>9. /\ rows' \in Seq(Row) /\ DOMAIN rows' = DOMAIN rows \cup {r} /\ rows'[r] = next
        /\ \A q \in DOMAIN rows \ {r} : rows'[q] = rows[q]
    <2>1. CASE insert
      BY <1>1, <1>3, <1>4, <1>5, <2>1, AddSeq
    <2>2. CASE ~insert
      <3>1. r \in DOMAIN rows /\ DOMAIN rows = DOMAIN rows \cup {r}
        BY <1>4, <2>2 DEF RowIds
      <3>2. rows' = [rows EXCEPT ![r] = next]
        BY <1>1, <2>2
      <3> QED
        BY <1>3, <1>5, <3>1, <3>2, PutSeq
    <2> QED
      BY <2>1, <2>2
  <1>10. /\ fills' \in Seq(Fill) /\ DOMAIN fills' = DOMAIN fills /\ fills'[f] = done
         /\ \A g \in DOMAIN fills \ {f} : fills'[g] = fills[g]
    BY <1>1, <1>2, <1>3, <1>8, PutSeq DEF FillIds
  <1>11. done = [fills[f] EXCEPT !.state = "applied", !.row = r,
                  !.delta = realizedDelta(PositionBefore(row, fills[f].paper),
                                          fills[f].qty, fills[f].price),
                  !.kind = fillKind(row.qty, fills[f].qty), !.after = next.qty]
         /\ next = RowAfter(row, fills[f])
    BY DEF done, delta, fill, next
  <1>12. Booked(w, f, r, row, next, done)
    BY <1>1, <1>2, <1>4, <1>7, <1>8, <1>9, <1>10, <1>11 DEF Booked, f, fill
  <1> QED
    BY <1>2, <1>4, <1>5, <1>8, <1>12

LEMMA CommitBase ==
    ASSUME TypeOK, BaseInv, NEW w \in Workers, NEW f \in FillIds, NEW r \in Nat \ {0},
           NEW row \in Row, NEW next \in Row, NEW done \in Fill,
           Booked(w, f, r, row, next, done)
    PROVE  TypeOK' /\ BaseInv'
  <1>0. /\ f = worker[w].fill /\ fills[f] \in Fill /\ fills[f].qty # 0
        /\ fills[f].state = "new" /\ worker \in [Workers -> [fill: Nat, seen: SUBSET Nat]]
        /\ row.qty \in Int /\ f # 0 /\ f \in DOMAIN fills
    BY Shapes DEF FillIds, Booked, BaseInv, FillsOk, TypeOK, Row
  <1>1. /\ done.tag = fills[f].tag /\ done.qty = fills[f].qty /\ done.state = "applied"
        /\ done.row = r /\ done.delta \in Int /\ done.paper = fills[f].paper
    BY <1>0 DEF Booked, Fill
  <1>2. /\ next = RowAfter(row, fills[f]) /\ next.opened /\ next.gone = row.gone
        /\ next.tag = (IF row.tag = NoStrategy THEN fills[f].tag ELSE row.tag)
    <2>1. next = RowAfter(row, fills[f])
      BY DEF Booked
    <2> QED
      BY <1>0, <2>1, RowFields
  <1>3. /\ \/ r \in RowIds /\ row = rows[r]
           \/ r \notin DOMAIN rows /\ ~row.gone
        /\ row.tag \in {fills[f].tag, NoStrategy} \/ fills[f].tag = NoStrategy
        /\ \A q \in RowIds \ {r} : rows[q].tag # next.tag
        /\ rows' \in Seq(Row) /\ DOMAIN rows' = DOMAIN rows \cup {r} /\ rows'[r] = next
        /\ \A q \in DOMAIN rows \ {r} : rows'[q] = rows[q]
        /\ fills' \in Seq(Fill) /\ DOMAIN fills' = DOMAIN fills /\ fills'[f] = done
        /\ \A g \in DOMAIN fills \ {f} : fills'[g] = fills[g]
        /\ trades' = SyncTrade(r, fills[f], row.qty, done.delta)
        /\ worker' = [worker EXCEPT ![w] = IdleWorker]
        /\ UNCHANGED <<mode, clear, audit, broken, clears, failures>>
    BY <1>0, NewRowType DEF Booked
  <1>4. /\ trades' \in Seq(Trade)
        /\ \A i \in DOMAIN trades' :
              trades'[i].row = IF i \in DOMAIN trades THEN trades[i].row ELSE r
    BY <1>0, <1>1, <1>3, SyncType
  <1>5. TypeOK'
    <2>1. worker' \in [Workers -> [fill: Nat, seen: SUBSET Nat]]
      BY <1>0, <1>3 DEF IdleWorker
    <2> QED
      BY <1>3, <1>4, <2>1 DEF TypeOK
  <1>6. WorkersOk'
    <2>1. /\ worker'[w].fill = 0
          /\ \A v \in Workers \ {w} : worker'[v] = worker[v]
      BY <1>0, <1>3 DEF IdleWorker
    <2>2. \A v \in Workers \ {w} : worker[v].fill # f
      BY <1>0 DEF BaseInv, WorkersOk, FillIds
    <2>3. \A v \in Workers : worker[v].fill # 0 =>
              /\ worker[v].fill \in DOMAIN fills /\ fills[worker[v].fill].state = "new"
              /\ \A u \in Workers : worker[u].fill = worker[v].fill => u = v
      BY DEF BaseInv, WorkersOk, FillIds
    <2> QED
      BY <1>3, <2>1, <2>2, <2>3 DEF WorkersOk, FillIds
  <1>7. FillsOk'
    <2>1. \A g \in DOMAIN fills :
              /\ fills[g].qty # 0 /\ fills[g].row \in DOMAIN rows \cup {0}
              /\ fills[g].state = "new" => fills[g].row = 0
              /\ fills[g].state = "applied" =>
                    /\ fills[g].row # 0
                    /\ fills[g].tag # NoStrategy => rows[fills[g].row].tag = fills[g].tag
      BY DEF BaseInv, FillsOk, FillIds
    <2>2. \A g \in DOMAIN fills \ {f} :
              fills[g].state = "applied" /\ fills[g].tag # NoStrategy /\ fills[g].row = r =>
                  next.tag = fills[g].tag
      BY <1>2, <1>3, <2>1
    <2>3. fills[f].tag # NoStrategy => next.tag = fills[f].tag
      BY <1>2, <1>3
    <2> QED
      BY SMTT(30), <1>0, <1>1, <1>3, <2>1, <2>2, <2>3 DEF FillsOk, FillIds
  <1>8. RowsOk'
    <2>1. /\ \A q \in DOMAIN rows : rows[q].opened
          /\ \A p, q \in RowIds : rows[p].tag = rows[q].tag => p = q
      BY DEF BaseInv, RowsOk
    <2>2. RowIds' = RowIds \cup {r}
      BY <1>2, <1>3 DEF RowIds
    <2> QED
      BY <1>2, <1>3, <2>1, <2>2 DEF RowsOk, RowIds
  <1>9. LinksOk'
    <2>1. RowIds \subseteq RowIds'
      BY <1>2, <1>3 DEF RowIds
    <2> QED
      BY <1>3, <1>4, <2>1 DEF BaseInv, LinksOk
  <1> QED
    BY <1>5, <1>6, <1>7, <1>8, <1>9 DEF BaseInv

-----------------------------------------------------------------------------
(***************************************************************************)
(* The steps that apply nothing                                            *)
(***************************************************************************)

\* What a recorded execution looks like.
NewFill(tag, qty) ==
    [tag |-> tag, qty |-> qty, price |-> Prices[Len(fills) + 1], paper |-> IsPaper(tag),
     state |-> "new", row |-> 0, delta |-> 0, kind |-> "OPENED", after |-> 0]

LEMMA Executed ==
    ASSUME TypeOK, NEW tag \in Tags, NEW qty \in Quantities, Executes(tag, qty)
    PROVE  LET n == Len(fills) + 1
               e == NewFill(tag, qty)
           IN  /\ e \in Fill /\ e.tag = tag /\ e.qty = qty /\ qty \in Int \ {0}
               /\ e.paper = IsPaper(tag) /\ e.state = "new" /\ e.row = 0
               /\ fills' = Append(fills, e)
               /\ fills' \in Seq(Fill) /\ n \in Nat \ {0} /\ n \notin DOMAIN fills
               /\ DOMAIN fills' = DOMAIN fills \cup {n} /\ fills'[n] = e
               /\ \A g \in DOMAIN fills : fills'[g] = fills[g]
               /\ UNCHANGED <<mode, rows, trades, worker, clear, audit, broken, clears,
                              failures>>
  <1> DEFINE n == Len(fills) + 1
             e == NewFill(tag, qty)
  <1>1. /\ fills' = Append(fills, e) /\ Len(fills) < MaxFills
        /\ UNCHANGED <<mode, rows, trades, worker, clear, audit, broken, clears, failures>>
    BY DEF Executes, NewFill
  <1>2. /\ fills \in Seq(Fill) /\ Len(fills) \in Nat /\ qty \in Int \ {0}
        /\ MaxFills \in Nat /\ Prices \in [1..MaxFills -> Nat]
    BY PositionAssumption, LenProperties DEF TypeOK
  <1>3. Prices[Len(fills) + 1] \in Nat
    BY <1>1, <1>2
  <1>4. /\ e \in Fill /\ e.tag = tag /\ e.qty = qty
        /\ e.paper = IsPaper(tag) /\ e.state = "new" /\ e.row = 0
    BY <1>2, <1>3 DEF NewFill, Fill, FillKinds, IsPaper
  <1> HIDE DEF e
  <1>5. /\ fills' \in Seq(Fill) /\ n \in Nat \ {0} /\ n \notin DOMAIN fills
        /\ DOMAIN fills' = DOMAIN fills \cup {n} /\ fills'[n] = e
        /\ \A g \in DOMAIN fills : fills'[g] = fills[g]
    BY <1>1, <1>2, <1>4, AddSeq
  <1> QED
    BY <1>1, <1>2, <1>4, <1>5 DEF e

LEMMA ExecutesBase ==
    ASSUME TypeOK, BaseInv, NEW tag \in Tags, NEW qty \in Quantities, Executes(tag, qty)
    PROVE  TypeOK' /\ BaseInv'
  <1> DEFINE n == Len(fills) + 1
             e == NewFill(tag, qty)
  <1>1. /\ e.qty # 0 /\ e.state = "new" /\ e.row = 0 /\ n # 0
        /\ fills' \in Seq(Fill) /\ n \notin DOMAIN fills
        /\ DOMAIN fills' = DOMAIN fills \cup {n} /\ fills'[n] = e
        /\ \A g \in DOMAIN fills : fills'[g] = fills[g]
        /\ UNCHANGED <<mode, rows, trades, worker, clear, audit, broken, clears, failures>>
    BY ZenonT(60), Executed
  <1> HIDE DEF n, e
  <1>2. TypeOK'
    BY <1>1 DEF TypeOK
  <1>3. WorkersOk' /\ FillsOk' /\ RowsOk' /\ LinksOk'
    BY <1>1 DEF BaseInv, WorkersOk, FillsOk, RowsOk, LinksOk, FillIds, RowIds
  <1> QED
    BY <1>2, <1>3 DEF BaseInv

LEMMA SelectBase ==
    ASSUME TypeOK, BaseInv, NEW w \in Workers, NEW f \in FillIds, ApplySelect(w, f)
    PROVE  TypeOK' /\ BaseInv'
  <1>1. /\ worker' = [worker EXCEPT ![w] = [fill |-> f, seen |-> RowIds]]
        /\ fills[f].state = "new" /\ \A v \in Workers : worker[v].fill # f
        /\ UNCHANGED <<mode, fills, rows, trades, clear, audit, broken, clears, failures>>
    BY DEF ApplySelect
  <1>2. /\ f \in Nat /\ RowIds \subseteq Nat
        /\ worker \in [Workers -> [fill: Nat, seen: SUBSET Nat]]
    BY Shapes DEF TypeOK, FillIds, RowIds
  <1>3. TypeOK'
    BY <1>1, <1>2 DEF TypeOK
  <1>4. worker'[w].fill = f /\ \A v \in Workers \ {w} : worker'[v] = worker[v]
    BY <1>1, <1>2
  <1>5. WorkersOk' /\ FillsOk' /\ RowsOk' /\ LinksOk'
    BY <1>1, <1>4 DEF BaseInv, WorkersOk, FillsOk, RowsOk, LinksOk, FillIds, RowIds
  <1> QED
    BY <1>3, <1>5 DEF BaseInv

LEMMA RollbackBase ==
    ASSUME TypeOK, BaseInv, NEW w \in Workers, worker' = [worker EXCEPT ![w] = IdleWorker],
           failures' \in Nat,
           UNCHANGED <<mode, fills, rows, trades, clear, audit, broken, clears>>
    PROVE  TypeOK' /\ BaseInv'
  <1>1. worker \in [Workers -> [fill: Nat, seen: SUBSET Nat]]
    BY DEF TypeOK
  <1>2. TypeOK'
    BY <1>1 DEF TypeOK, IdleWorker
  <1>3. worker'[w].fill = 0 /\ \A v \in Workers \ {w} : worker'[v] = worker[v]
    BY <1>1 DEF IdleWorker
  <1>4. WorkersOk' /\ FillsOk' /\ RowsOk' /\ LinksOk'
    BY <1>3 DEF BaseInv, WorkersOk, FillsOk, RowsOk, LinksOk, FillIds, RowIds
  <1> QED
    BY <1>2, <1>4 DEF BaseInv

\* The UPDATE of a cleared row keeps everything but its quantity.
LEMMA Zeroed ==
    ASSUME TypeOK, BaseInv, ClearZero
    PROVE  /\ clear.pc = "zero" /\ clear.row \in RowIds
           /\ rows' \in Seq(Row) /\ DOMAIN rows' = DOMAIN rows /\ RowIds' = RowIds
           /\ \A r \in DOMAIN rows : /\ rows'[r].tag = rows[r].tag
                                     /\ rows'[r].paper = rows[r].paper
                                     /\ rows'[r].avg = rows[r].avg
                                     /\ rows'[r].realized = rows[r].realized
                                     /\ rows'[r].opened = rows[r].opened
                                     /\ rows'[r].gone = rows[r].gone
                                     /\ r # clear.row => rows'[r] = rows[r]
           /\ rows'[clear.row].qty = 0
           /\ clear' \in [pc: ClearPCs, row: Nat, qty: Int, then: Tags]
           /\ clear'.pc = "trades" /\ clear'.row = clear.row /\ clear'.qty = clear.qty
           /\ clear'.then = clear.then
           /\ UNCHANGED <<mode, fills, trades, worker, audit, broken, clears, failures>>
  <1> DEFINE c == clear.row
             e == [rows[c] EXCEPT !.qty = 0]
  <1>1. /\ clear.pc = "zero" /\ clear' = [clear EXCEPT !.pc = "trades"]
        /\ rows' = [rows EXCEPT ![c] = e]
        /\ UNCHANGED <<mode, fills, trades, worker, audit, broken, clears, failures>>
    BY DEF ClearZero
  <1>2. c \in RowIds
    BY <1>1 DEF BaseInv, LinksOk
  <1>3. rows \in Seq(Row) /\ c \in DOMAIN rows /\ rows[c] \in Row
    BY <1>2, Shapes DEF TypeOK
  <1>4. /\ e \in Row /\ e.tag = rows[c].tag /\ e.paper = rows[c].paper /\ e.qty = 0
        /\ e.avg = rows[c].avg /\ e.realized = rows[c].realized
        /\ e.opened = rows[c].opened /\ e.gone = rows[c].gone
    <2> HIDE DEF c
    <2>1. \A row \in Row : LET z == [row EXCEPT !.qty = 0]
                          IN  /\ z \in Row /\ z.tag = row.tag /\ z.paper = row.paper
                              /\ z.qty = 0 /\ z.avg = row.avg /\ z.realized = row.realized
                              /\ z.opened = row.opened /\ z.gone = row.gone
      BY DEF Row
    <2> QED
      BY <1>3, <2>1, Zenon
  <1> HIDE DEF c, e
  <1>5. /\ rows' \in Seq(Row) /\ DOMAIN rows' = DOMAIN rows /\ rows'[c] = e
        /\ \A r \in DOMAIN rows \ {c} : rows'[r] = rows[r]
    BY <1>1, <1>3, <1>4, PutSeq
  <1>6. RowIds' = RowIds
    BY <1>3, <1>4, <1>5 DEF RowIds
  <1>7. /\ clear' \in [pc: ClearPCs, row: Nat, qty: Int, then: Tags]
        /\ clear'.pc = "trades" /\ clear'.row = clear.row /\ clear'.qty = clear.qty
        /\ clear'.then = clear.then
    BY <1>1 DEF TypeOK, ClearPCs
  <1> QED
    BY <1>1, <1>2, <1>3, <1>4, <1>5, <1>6, <1>7 DEF c

\* The UPDATE of the open trades and the audit event keep the rest of the tables.
LEMMA TradesCleared ==
    ASSUME TypeOK, BaseInv, ClearTrades
    PROVE  LET n == Len(audit) + 1
           IN  /\ clear.pc = "trades" /\ clear.row \in RowIds
               /\ trades' \in Seq(Trade) /\ DOMAIN trades' = DOMAIN trades
               /\ \A t \in DOMAIN trades : /\ trades'[t].row = trades[t].row
                                           /\ trades'[t].paper = trades[t].paper
                                           /\ trades'[t].gross = trades[t].gross
                                           /\ trades'[t].gone = trades[t].gone
                                           /\ IF t \in OpenTrades(clear.row)
                                              THEN ~trades'[t].open
                                              ELSE trades'[t] = trades[t]
               /\ audit' \in Seq([row: Nat, paper: BOOLEAN, qty: Int])
               /\ DOMAIN audit' = DOMAIN audit \cup {n} /\ n \notin DOMAIN audit
               /\ \A e \in DOMAIN audit : audit'[e] = audit[e]
               /\ audit'[n].row = clear.row /\ audit'[n].qty = clear.qty
               /\ audit'[n].paper = rows[clear.row].paper
               /\ mode' = IF clear.then = NoStrategy THEN mode
                          ELSE [mode EXCEPT ![clear.then] = "LIVE"]
               /\ mode' \in [Strategies -> {"PAPER", "LIVE"}]
               /\ clear' = IdleClear
               /\ UNCHANGED <<fills, rows, worker, broken, clears, failures>>
  <1> DEFINE n == Len(audit) + 1
             c == clear.row
             event == [row |-> c, paper |-> rows[c].paper, qty |-> clear.qty]
             x == Abs(clear.qty)
             tr(t) == IF t \in OpenTrades(c)
                      THEN [trades[t] EXCEPT !.open = FALSE, !.exit = x]
                      ELSE trades[t]
  <1>1. /\ clear.pc = "trades"
        /\ trades' = [t \in DOMAIN trades |-> tr(t)]
        /\ audit' = Append(audit, event)
        /\ mode' = IF clear.then = NoStrategy THEN mode
                   ELSE [mode EXCEPT ![clear.then] = "LIVE"]
        /\ clear' = IdleClear
        /\ UNCHANGED <<fills, rows, worker, broken, clears, failures>>
    BY Zenon DEF ClearTrades
  <1> HIDE DEF tr
  <1>2. c \in RowIds
    <2>1. clear.pc = "trades"
      BY <1>1
    <2> QED
      BY <2>1 DEF BaseInv, LinksOk
  <1>3. /\ trades \in Seq(Trade) /\ audit \in Seq([row: Nat, paper: BOOLEAN, qty: Int])
        /\ rows[c] \in Row /\ c \in Nat /\ clear.qty \in Int
        /\ \A t \in DOMAIN trades : trades[t] \in Trade
    BY <1>2, Shapes DEF TypeOK
  <1>4. x \in Nat
    BY <1>3 DEF Abs
  <1> HIDE DEF c, event, x
  <1>5. ASSUME NEW t \in DOMAIN trades
        PROVE  /\ tr(t) \in Trade /\ tr(t).row = trades[t].row
               /\ tr(t).paper = trades[t].paper /\ tr(t).gross = trades[t].gross
               /\ tr(t).gone = trades[t].gone
               /\ IF t \in OpenTrades(c) THEN ~tr(t).open ELSE tr(t) = trades[t]
    <2>1. \A u \in Trade : LET e == [u EXCEPT !.open = FALSE, !.exit = x]
                          IN  /\ e \in Trade /\ e.row = u.row /\ e.paper = u.paper
                              /\ e.gross = u.gross /\ e.gone = u.gone /\ ~e.open
      BY <1>4 DEF Trade
    <2> QED
      BY <1>3, <2>1, Zenon DEF tr
  <1>6. trades' \in [DOMAIN trades -> Trade]
    BY <1>1, <1>3, <1>5
  <1>7. trades' \in Seq(Trade)
    BY <1>3, <1>6, MapSeq
  <1>8. \A t \in DOMAIN trades : /\ trades'[t].row = trades[t].row
                                 /\ trades'[t].paper = trades[t].paper
                                 /\ trades'[t].gross = trades[t].gross
                                 /\ trades'[t].gone = trades[t].gone
                                 /\ IF t \in OpenTrades(c)
                                    THEN ~trades'[t].open ELSE trades'[t] = trades[t]
    BY <1>1, <1>5
  <1>9. event \in [row: Nat, paper: BOOLEAN, qty: Int]
    BY <1>3 DEF Row, event
  <1>10. /\ audit' \in Seq([row: Nat, paper: BOOLEAN, qty: Int])
         /\ DOMAIN audit' = DOMAIN audit \cup {n} /\ n \notin DOMAIN audit
         /\ audit'[n] = event /\ \A e \in DOMAIN audit : audit'[e] = audit[e]
    BY <1>1, <1>3, <1>9, AddSeq
  <1>11. mode' \in [Strategies -> {"PAPER", "LIVE"}]
    <2>1. mode \in [Strategies -> {"PAPER", "LIVE"}]
      BY DEF TypeOK
    <2> QED
      BY <1>1, <2>1
  <1>12. event.row = c /\ event.qty = clear.qty /\ event.paper = rows[c].paper
    BY DEF event
  <1> QED
    BY <1>1, <1>2, <1>6, <1>7, <1>8, <1>10, <1>11, <1>12 DEF c

\* Deleting the paper book flags rows and trades; a live row is worked out anew.
LEMMA Deleted ==
    ASSUME TypeOK, BaseInv, PaperDelete
    PROVE  /\ clear.pc = "delete" /\ ~Busy
           /\ rows' \in Seq(Row) /\ DOMAIN rows' = DOMAIN rows
           /\ \A r \in DOMAIN rows :
                 /\ rows'[r].tag = rows[r].tag /\ rows'[r].paper = rows[r].paper
                 /\ rows'[r].qty = rows[r].qty /\ rows'[r].avg = rows[r].avg
                 /\ rows'[r].opened = rows[r].opened
                 /\ rows'[r].gone = (rows[r].gone \/ (rows[r].paper /\ rows[r].qty = 0))
                 /\ rows'[r].realized =
                       IF r \in RowIds /\ ~rows[r].paper /\ \E f \in EventsOf(r) : fills[f].paper
                       THEN LiveRealized(r) ELSE rows[r].realized
           /\ fills' \in Seq(Fill) /\ DOMAIN fills' = DOMAIN fills
           /\ \A f \in FillIds :
                 /\ fills'[f].tag = fills[f].tag /\ fills'[f].qty = fills[f].qty
                 /\ fills'[f].price = fills[f].price /\ fills'[f].paper = fills[f].paper
                 /\ fills'[f].row = fills[f].row /\ fills'[f].delta = fills[f].delta
                 /\ fills'[f].kind = fills[f].kind /\ fills'[f].after = fills[f].after
                 /\ fills'[f].state = IF fills[f].paper THEN "deleted" ELSE fills[f].state
           /\ trades' \in Seq(Trade) /\ DOMAIN trades' = DOMAIN trades
           /\ \A t \in DOMAIN trades :
                 /\ trades'[t].row = trades[t].row /\ trades'[t].long = trades[t].long
                 /\ trades'[t].open = trades[t].open /\ trades'[t].entry = trades[t].entry
                 /\ trades'[t].exit = trades[t].exit /\ trades'[t].gross = trades[t].gross
                 /\ trades'[t].paper = trades[t].paper
                 /\ trades'[t].gone = (trades[t].gone \/ trades[t].paper)
           /\ clear' = IdleClear
           /\ UNCHANGED <<mode, worker, audit, broken, clears, failures>>
  <1> DEFINE real(r) == LiveRealized(r)
             row(r)  == IF r \notin RowIds THEN rows[r]
                        ELSE IF rows[r].paper THEN [rows[r] EXCEPT !.gone = rows[r].qty = 0]
                        ELSE IF \E f \in EventsOf(r) : fills[f].paper
                             THEN [rows[r] EXCEPT !.realized = real(r)]
                        ELSE rows[r]
             fill(f) == IF fills[f].paper THEN [fills[f] EXCEPT !.state = "deleted"]
                        ELSE fills[f]
             tr(t)   == IF trades[t].paper THEN [trades[t] EXCEPT !.gone = TRUE]
                        ELSE trades[t]
  <1>1. /\ clear.pc = "delete" /\ ~Busy
        /\ rows' = [r \in DOMAIN rows |-> row(r)]
        /\ fills' = [f \in FillIds |-> fill(f)]
        /\ trades' = [t \in DOMAIN trades |-> tr(t)]
        /\ clear' = IdleClear
        /\ UNCHANGED <<mode, worker, audit, broken, clears, failures>>
    BY DEF PaperDelete
  <1>2. rows \in Seq(Row) /\ fills \in Seq(Fill) /\ trades \in Seq(Trade)
    BY DEF TypeOK
  <1>3. ASSUME NEW r \in DOMAIN rows
        PROVE  LiveRealized(r) \in Int
    <2> DEFINE ids == {f \in EventsOf(r) : ~fills[f].paper}
               d   == [f \in ids |-> fills[f].delta]
    <2>1. IsFiniteSet(ids) /\ \A f \in ids : d[f] \in Int
      <3>1. ids \subseteq FillIds
        BY DEF EventsOf
      <3> QED
        BY <3>1, Shapes, FS_Subset DEF Fill
    <2> HIDE DEF ids, d
    <2>2. SumFunctionOnSet(d, ids) \in Int
      BY <2>1, SumType
    <2> QED
      BY <2>2 DEF LiveRealized, DeltaOf, ids, d
  <1> HIDE DEF real
  <1>4. ASSUME NEW r \in DOMAIN rows
        PROVE  /\ row(r) \in Row
               /\ row(r).tag = rows[r].tag /\ row(r).paper = rows[r].paper
               /\ row(r).qty = rows[r].qty /\ row(r).avg = rows[r].avg
               /\ row(r).opened = rows[r].opened
               /\ row(r).gone = (rows[r].gone \/ (rows[r].paper /\ rows[r].qty = 0))
               /\ row(r).realized =
                     IF r \in RowIds /\ ~rows[r].paper /\ \E f \in EventsOf(r) : fills[f].paper
                     THEN real(r) ELSE rows[r].realized
    <2>1. rows[r] \in Row /\ real(r) \in Int
      BY <1>3, Shapes DEF real
    <2>2. /\ rows[r].tag \in Tags /\ rows[r].paper \in BOOLEAN /\ rows[r].qty \in Int
          /\ rows[r].avg \in Int /\ rows[r].realized \in Int /\ rows[r].opened \in BOOLEAN
          /\ rows[r].gone \in BOOLEAN /\ (r \in RowIds => ~rows[r].gone)
      BY <2>1 DEF Row, RowIds
    <2>3. CASE r \notin RowIds
      <3>1. rows[r].gone
        BY <2>3 DEF RowIds
      <3> QED
        BY <2>1, <2>3, <3>1
    <2>4. CASE r \in RowIds /\ rows[r].paper
      BY <2>1, <2>2, <2>4 DEF Row
    <2>5. CASE r \in RowIds /\ ~rows[r].paper
      BY <2>1, <2>2, <2>5 DEF Row
    <2> QED
      BY <2>3, <2>4, <2>5
  <1>5. ASSUME NEW f \in FillIds
        PROVE  /\ fill(f) \in Fill
               /\ fill(f).tag = fills[f].tag /\ fill(f).qty = fills[f].qty
               /\ fill(f).price = fills[f].price /\ fill(f).paper = fills[f].paper
               /\ fill(f).row = fills[f].row /\ fill(f).delta = fills[f].delta
               /\ fill(f).kind = fills[f].kind /\ fill(f).after = fills[f].after
               /\ fill(f).state = IF fills[f].paper THEN "deleted" ELSE fills[f].state
    BY Shapes DEF Fill
  <1>6. ASSUME NEW t \in DOMAIN trades
        PROVE  /\ tr(t) \in Trade
               /\ tr(t).row = trades[t].row /\ tr(t).long = trades[t].long
               /\ tr(t).open = trades[t].open /\ tr(t).entry = trades[t].entry
               /\ tr(t).exit = trades[t].exit /\ tr(t).gross = trades[t].gross
               /\ tr(t).paper = trades[t].paper
               /\ tr(t).gone = (trades[t].gone \/ trades[t].paper)
    <2>1. trades[t] \in Trade
      BY Shapes
    <2>2. /\ trades[t].row \in Nat /\ trades[t].long \in BOOLEAN /\ trades[t].open \in BOOLEAN
          /\ trades[t].entry \in Nat /\ trades[t].exit \in Nat /\ trades[t].gross \in Int
          /\ trades[t].paper \in BOOLEAN /\ trades[t].gone \in BOOLEAN
      BY <2>1 DEF Trade
    <2> QED
      BY <2>1, <2>2 DEF Trade
  <1> HIDE DEF row, fill, tr
  <1>7. /\ rows' \in [DOMAIN rows -> Row] /\ fills' \in [DOMAIN fills -> Fill]
        /\ trades' \in [DOMAIN trades -> Trade]
    BY <1>1, <1>4, <1>5, <1>6 DEF FillIds
  <1>8. rows' \in Seq(Row) /\ fills' \in Seq(Fill) /\ trades' \in Seq(Trade)
    BY <1>2, <1>7, MapSeq
  <1>9. /\ \A r \in DOMAIN rows : rows'[r] = row(r)
        /\ \A f \in FillIds : fills'[f] = fill(f)
        /\ \A t \in DOMAIN trades : trades'[t] = tr(t)
    BY <1>1
  <1> QED
    BY <1>1, <1>4, <1>5, <1>6, <1>7, <1>8, <1>9 DEF real

-----------------------------------------------------------------------------
(***************************************************************************)
(* Types, locks and rows by strategy, in every setting                     *)
(***************************************************************************)

\* A clear begins on a row it has read (clearPhantomPosition).
LEMMA Phantom ==
    ASSUME TypeOK, NEW r \in RowIds, NEW then \in Tags, ClearPhantom(r, then)
    PROVE  /\ clear' \in [pc: ClearPCs, row: Nat, qty: Int, then: Tags]
           /\ clear'.pc = "zero" /\ clear'.row = r /\ clear'.qty = rows[r].qty
           /\ clear'.then = then /\ rows[r].qty # 0 /\ clears' \in Nat
           /\ clear.pc = "idle" /\ (QuietClears => Quiet)
           /\ UNCHANGED <<mode, fills, rows, trades, worker, audit, broken, failures>>
  <1>1. /\ clear' = [pc |-> "zero", row |-> r, qty |-> rows[r].qty, then |-> then]
        /\ rows[r].qty # 0 /\ clears' = clears + 1 /\ clear.pc = "idle"
        /\ (QuietClears => Quiet)
        /\ UNCHANGED <<mode, fills, rows, trades, worker, audit, broken, failures>>
    BY DEF ClearPhantom, ClearBegins
  <1>2. rows[r] \in Row /\ r \in Nat /\ clears \in Nat
    BY Shapes DEF TypeOK
  <1>3. rows[r].qty \in Int
    BY <1>2 DEF Row
  <1> QED
    BY <1>1, <1>2, <1>3 DEF ClearPCs

LEMMA BaseStep ==
    ASSUME TypeOK, BaseInv, [Next]_vars
    PROVE  TypeOK' /\ BaseInv'
  <1> USE DEF FillIds, RowIds
  <1>1. ASSUME NEW tag \in Tags, NEW qty \in Quantities, Executes(tag, qty)
        PROVE  TypeOK' /\ BaseInv'
    BY <1>1, ExecutesBase
  <1>2. ASSUME NEW w \in Workers, NEW f \in FillIds, ApplySelect(w, f)
        PROVE  TypeOK' /\ BaseInv'
    BY <1>2, SelectBase
  <1>3. ASSUME NEW w \in Workers, ApplyCommit(w)
        PROVE  TypeOK' /\ BaseInv'
    <2>1. PICK f \in FillIds, r \in Nat \ {0}, row \in Row, next \in Row, done \in Fill :
              Booked(w, f, r, row, next, done)
      BY <1>3, Commit
    <2> QED
      BY <2>1, CommitBase
  <1>4. ASSUME NEW w \in Workers, ApplyRefused(w) \/ ApplyFails(w)
        PROVE  TypeOK' /\ BaseInv'
    <2>1. /\ worker' = [worker EXCEPT ![w] = IdleWorker]
          /\ failures' \in Nat
          /\ UNCHANGED <<mode, fills, rows, trades, clear, audit, broken, clears>>
      BY <1>4 DEF ApplyRefused, ApplyFails, TypeOK
    <2> QED
      BY <2>1, RollbackBase
  <1>5. ASSUME NEW r \in RowIds, NEW then \in Tags, ClearPhantom(r, then)
        PROVE  TypeOK' /\ BaseInv'
    <2>1. /\ clear' \in [pc: ClearPCs, row: Nat, qty: Int, then: Tags]
          /\ clear'.pc = "zero" /\ clear'.row = r /\ clears' \in Nat
          /\ UNCHANGED <<mode, fills, rows, trades, worker, audit, broken, failures>>
      BY <1>5, Phantom
    <2>2. TypeOK'
      BY <2>1 DEF TypeOK
    <2>3. WorkersOk' /\ FillsOk' /\ RowsOk' /\ LinksOk'
      BY <2>1 DEF BaseInv, WorkersOk, FillsOk, RowsOk, LinksOk
    <2> QED
      BY <2>2, <2>3 DEF BaseInv
  <1>6. ASSUME ClearZero PROVE TypeOK' /\ BaseInv'
    <2>1. /\ clear.row \in RowIds /\ clear'.row = clear.row
          /\ rows' \in Seq(Row) /\ DOMAIN rows' = DOMAIN rows /\ RowIds' = RowIds
          /\ \A r \in DOMAIN rows : /\ rows'[r].tag = rows[r].tag
                                    /\ rows'[r].opened = rows[r].opened
          /\ clear' \in [pc: ClearPCs, row: Nat, qty: Int, then: Tags]
          /\ UNCHANGED <<mode, fills, trades, worker, audit, broken, failures>>
          /\ clears' = clears
      BY <1>6, Zeroed DEF ClearZero
    <2>2. TypeOK'
      BY <2>1 DEF TypeOK
    <2>3. WorkersOk' /\ FillsOk' /\ RowsOk' /\ LinksOk'
      BY <2>1 DEF BaseInv, WorkersOk, FillsOk, RowsOk, LinksOk
    <2> QED
      BY <2>2, <2>3 DEF BaseInv
  <1>7. ASSUME ClearTrades PROVE TypeOK' /\ BaseInv'
    <2> DEFINE n == Len(audit) + 1
    <2>1. /\ clear.row \in RowIds
          /\ trades' \in Seq(Trade) /\ DOMAIN trades' = DOMAIN trades
          /\ \A t \in DOMAIN trades : trades'[t].row = trades[t].row
          /\ audit' \in Seq([row: Nat, paper: BOOLEAN, qty: Int])
          /\ DOMAIN audit' = DOMAIN audit \cup {n}
          /\ \A e \in DOMAIN audit : audit'[e] = audit[e]
          /\ audit'[n].row = clear.row
          /\ mode' \in [Strategies -> {"PAPER", "LIVE"}]
          /\ clear' = IdleClear
          /\ UNCHANGED <<fills, rows, worker, broken, clears, failures>>
      BY <1>7, TradesCleared
    <2> HIDE DEF n
    <2>2. TypeOK'
      BY <2>1 DEF TypeOK, IdleClear, ClearPCs, Tags
    <2>3. WorkersOk' /\ FillsOk' /\ RowsOk' /\ LinksOk'
      BY <2>1 DEF BaseInv, WorkersOk, FillsOk, RowsOk, LinksOk, IdleClear
    <2> QED
      BY <2>2, <2>3 DEF BaseInv
  <1>8. ASSUME ClearStops PROVE TypeOK' /\ BaseInv'
    <2>1. /\ clear.row \in RowIds /\ failures' = failures + 1
          /\ broken' \subseteq broken \cup {clear.row} /\ clear' = IdleClear
          /\ UNCHANGED <<mode, fills, rows, trades, worker, audit, clears>>
      BY <1>8 DEF ClearStops, BaseInv, LinksOk
    <2>2. clear.row \in Nat
      BY DEF TypeOK
    <2>3. TypeOK'
      BY <2>1, <2>2 DEF TypeOK, IdleClear, ClearPCs, Tags
    <2>4. WorkersOk' /\ FillsOk' /\ RowsOk' /\ LinksOk'
      BY <2>1 DEF BaseInv, WorkersOk, FillsOk, RowsOk, LinksOk, IdleClear
    <2> QED
      BY <2>3, <2>4 DEF BaseInv
  <1>9. ASSUME mode' \in [Strategies -> {"PAPER", "LIVE"}], clears' \in Nat,
               UNCHANGED <<fills, rows, trades, worker, clear, audit, broken, failures>>
        PROVE  TypeOK' /\ BaseInv'
    <2>1. TypeOK'
      BY <1>9 DEF TypeOK
    <2>2. WorkersOk' /\ FillsOk' /\ RowsOk' /\ LinksOk'
      BY <1>9 DEF BaseInv, WorkersOk, FillsOk, RowsOk, LinksOk
    <2> QED
      BY <2>1, <2>2 DEF BaseInv
  <1>10. ASSUME NEW s \in Strategies, GoLive(s) PROVE TypeOK' /\ BaseInv'
    <2>1. CASE \E r \in PaperRows(s) : ClearPhantom(r, s)
      <3>1. PICK r \in PaperRows(s) : ClearPhantom(r, s)
        BY <2>1
      <3>2. r \in RowIds /\ s \in Tags
        BY DEF PaperRows, Tags
      <3> QED
        BY <1>5, <3>1, <3>2
    <2>2. CASE /\ ClearBegins /\ mode' = [mode EXCEPT ![s] = "LIVE"]
               /\ UNCHANGED <<fills, rows, trades, worker, clear, audit, broken, failures>>
      <3>1. mode' \in [Strategies -> {"PAPER", "LIVE"}] /\ clears' \in Nat
        BY <2>2 DEF TypeOK, ClearBegins
      <3> QED
        BY <1>9, <2>2, <3>1
    <2> QED
      BY <1>10, <2>1, <2>2 DEF GoLive
  <1>11. ASSUME NEW s \in Strategies, GoPaper(s) PROVE TypeOK' /\ BaseInv'
    <2>1. mode' \in [Strategies -> {"PAPER", "LIVE"}] /\ clears' \in Nat
      BY <1>11 DEF TypeOK, ClearBegins, GoPaper
    <2> QED
      BY <1>9, <1>11, <2>1 DEF GoPaper
  <1>12. ASSUME PaperCheck PROVE TypeOK' /\ BaseInv'
    <2>1. /\ clear' = [IdleClear EXCEPT !.pc = "delete"] /\ clears' \in Nat
          /\ UNCHANGED <<mode, fills, rows, trades, worker, audit, broken, failures>>
      BY <1>12 DEF PaperCheck, ClearBegins, TypeOK
    <2>2. clear' \in [pc: ClearPCs, row: Nat, qty: Int, then: Tags] /\ clear'.pc = "delete"
      BY <2>1 DEF IdleClear, ClearPCs, Tags
    <2>3. TypeOK'
      BY <2>1, <2>2 DEF TypeOK
    <2>4. WorkersOk' /\ FillsOk' /\ RowsOk' /\ LinksOk'
      BY <2>1, <2>2 DEF BaseInv, WorkersOk, FillsOk, RowsOk, LinksOk
    <2> QED
      BY <2>3, <2>4 DEF BaseInv
  <1>13. ASSUME PaperDelete PROVE TypeOK' /\ BaseInv'
    <2>1. /\ \A w \in Workers : worker[w].fill = 0
          /\ rows' \in Seq(Row) /\ DOMAIN rows' = DOMAIN rows
          /\ \A r \in DOMAIN rows :
                /\ rows'[r].tag = rows[r].tag /\ rows'[r].opened = rows[r].opened
                /\ rows[r].gone => rows'[r].gone
          /\ fills' \in Seq(Fill) /\ DOMAIN fills' = DOMAIN fills
          /\ \A f \in FillIds :
                /\ fills'[f].tag = fills[f].tag /\ fills'[f].qty = fills[f].qty
                /\ fills'[f].row = fills[f].row
                /\ fills'[f].state \in {"deleted", fills[f].state}
          /\ trades' \in Seq(Trade) /\ DOMAIN trades' = DOMAIN trades
          /\ \A t \in DOMAIN trades : trades'[t].row = trades[t].row
          /\ clear' = IdleClear
          /\ UNCHANGED <<mode, worker, audit, broken, clears, failures>>
      BY <1>13, Deleted DEF Busy
    <2>2. TypeOK'
      BY <2>1 DEF TypeOK, IdleClear, ClearPCs, Tags
    <2>3. WorkersOk'
      BY <2>1 DEF WorkersOk
    <2>4. FillsOk'
      <3>1. \A f \in DOMAIN fills :
                /\ fills[f].qty # 0 /\ fills[f].row \in DOMAIN rows \cup {0}
                /\ fills[f].state = "new" => fills[f].row = 0
                /\ fills[f].state = "applied" =>
                      /\ fills[f].row # 0
                      /\ fills[f].tag # NoStrategy => rows[fills[f].row].tag = fills[f].tag
        BY DEF BaseInv, FillsOk
      <3> QED
        BY <2>1, <3>1 DEF FillsOk
    <2>5. RowsOk' /\ LinksOk'
      BY ZenonT(60), <2>1 DEF BaseInv, RowsOk, LinksOk, IdleClear
    <2> QED
      BY <2>2, <2>3, <2>4, <2>5 DEF BaseInv
  <1>14. CASE UNCHANGED vars
    <2>1. TypeOK'
      BY <1>14 DEF vars, TypeOK
    <2>2. WorkersOk' /\ FillsOk' /\ RowsOk' /\ LinksOk'
      BY <1>14 DEF vars, BaseInv, WorkersOk, FillsOk, RowsOk, LinksOk
    <2> QED
      BY <2>1, <2>2 DEF BaseInv
  <1>15. NoStrategy \in Tags
    BY DEF Tags
  <1> QED
    BY <1>1, <1>2, <1>3, <1>4, <1>5, <1>6, <1>7, <1>8, <1>10, <1>11, <1>12, <1>13, <1>14,
       <1>15, Zenon DEF Next

LEMMA BaseInit ==
    ASSUME Init
    PROVE  TypeOK /\ BaseInv
  <1> USE DEF FillIds, RowIds
  <1>1. /\ fills = <<>> /\ rows = <<>> /\ trades = <<>> /\ audit = <<>> /\ broken = {}
        /\ clears = 0 /\ failures = 0 /\ clear = IdleClear
        /\ worker = [w \in Workers |-> IdleWorker]
        /\ mode \in [Strategies -> {"PAPER", "LIVE"}]
    BY DEF Init
  <1>2. \A S : <<>> \in Seq(S) /\ DOMAIN <<>> = {}
    OBVIOUS
  <1>3. IdleWorker \in [fill: Nat, seen: SUBSET Nat] /\ IdleWorker.fill = 0
        /\ IdleClear \in [pc: ClearPCs, row: Nat, qty: Int, then: Tags]
        /\ IdleClear.pc = "idle"
    BY DEF IdleWorker, IdleClear, ClearPCs, Tags
  <1>4. TypeOK
    BY <1>1, <1>2, <1>3 DEF TypeOK
  <1>5. WorkersOk /\ FillsOk /\ RowsOk /\ LinksOk
    BY <1>1, <1>2, <1>3 DEF WorkersOk, FillsOk, RowsOk, LinksOk
  <1> QED
    BY <1>4, <1>5 DEF BaseInv

\* What the proofs below rest on in every setting: a pending fill has at most one
\* worker (FOR UPDATE), an applied one its row, and a strategy at most one row.
THEOREM BaseHolds == Spec => [](TypeOK /\ BaseInv)
  <1>1. Init => TypeOK /\ BaseInv
    BY BaseInit
  <1>2. TypeOK /\ BaseInv /\ [Next]_vars => TypeOK' /\ BaseInv'
    BY BaseStep
  <1> QED
    BY <1>1, <1>2, PTL DEF Spec

\* In every state of every setting, also with clears over a busy contract and both
\* books in one contract, the tables keep their columns' types.
THEOREM TypeCorrect == Spec => []TypeOK
  BY BaseHolds, PTL

\* In every setting, a fill of a named strategy never moves the row of another
\* strategy, however the calls that select, insert and claim rows interleave
\* (matchPositionForFill and the unique index of the positions).
THEOREM NamedStaysNamedHolds == Spec => []NamedStaysNamed
  <1>1. BaseInv => NamedStaysNamed
    BY DEF BaseInv, FillsOk, NamedStaysNamed
  <1> QED
    BY <1>1, BaseHolds, PTL

-----------------------------------------------------------------------------
(***************************************************************************)
(* The books keep apart                                                    *)
(***************************************************************************)

\* The operator clears and switches on a quiet contract, and one contract is
\* not traded on paper and live at a time.
OneBook == QuietClears /\ ~SharedRows

\* A pending paper fill and an open paper row belong to a strategy on paper; a
\* live fill or row shows that its strategy went live, for good.
ModesOk ==
    /\ \A f \in FillIds :
          IF fills[f].paper
          THEN /\ fills[f].tag # NoStrategy
               /\ fills[f].state = "new" => mode[fills[f].tag] = "PAPER"
          ELSE \A s \in Strategies : fills[f].tag \in {s, NoStrategy} => mode[s] = "LIVE"
    /\ \A r \in RowIds :
          IF rows[r].paper
          THEN /\ rows[r].tag # NoStrategy
               /\ rows[r].qty # 0 => mode[rows[r].tag] = "PAPER"
          ELSE \E f \in FillIds : /\ ~fills[f].paper
                                  /\ fills[f].tag \in {rows[r].tag, NoStrategy}

\* What a clear has read and done between its statements.
ClearOk ==
    /\ clear.pc # "idle" => Quiet
    /\ clear.pc = "zero" => clear.qty = rows[clear.row].qty /\ clear.qty # 0
    /\ clear.pc = "trades" => /\ rows[clear.row].qty = 0
                              /\ clear.row \notin broken
                              /\ OpenTrades(clear.row) # {}
    /\ clear.pc \in {"zero", "trades"} /\ clear.then # NoStrategy =>
          rows[clear.row].tag = clear.then
    /\ clear.pc = "delete" => \A r \in RowIds : rows[r].paper => rows[r].qty = 0

\* A paper row has met no live fill; the open trade of a row is of its book.
OwnBooks ==
    \A r \in RowIds :
        /\ rows[r].paper =>
              /\ \A f \in FillIds : fills[f].row = r => fills[f].paper
              /\ \A t \in DOMAIN trades : trades[t].row = r => trades[t].paper
              /\ \A e \in DOMAIN audit : audit[e].row = r => audit[e].paper
        /\ \A t \in OpenTrades(r) : trades[t].paper = rows[r].paper

BooksInv == ModesOk /\ ClearOk /\ OwnBooks

\* Row r has been zeroed and its trades not yet closed.
Cleared(r) == clear.pc = "trades" /\ clear.row = r

Matches(r) == Fits(trades, r, rows[r].qty)

\* A row left half cleared is flat for good: its open trade refuses every fill.
MatchInv ==
    \A r \in RowIds :
        IF r \in broken THEN rows[r].qty = 0 /\ OpenTrades(r) # {}
        ELSE Cleared(r) \/ Matches(r)

AloneInv == BooksInv /\ MatchInv

\* The row a fill is applied to is of its book, or a flat paper row it takes over.
LEMMA SameBook ==
    ASSUME TypeOK, BaseInv, ModesOk, NEW w \in Workers, NEW f \in FillIds,
           NEW r \in Nat \ {0}, NEW row \in Row, NEW next \in Row, NEW done \in Fill,
           Booked(w, f, r, row, next, done)
    PROVE  /\ next.paper = fills[f].paper
           /\ row.paper = fills[f].paper \/ (row.paper /\ row.qty = 0)
           /\ next.tag = (IF row.tag = NoStrategy THEN fills[f].tag ELSE row.tag)
           /\ next.tag \in {fills[f].tag} \/ fills[f].tag = NoStrategy
           /\ next.paper => next.tag # NoStrategy /\ mode[next.tag] = "PAPER"
  <1>0. /\ fills[f] \in Fill /\ fills[f].qty # 0 /\ fills[f].state = "new"
        /\ next = RowAfter(row, fills[f])
        /\ row.tag \in {fills[f].tag, NoStrategy} \/ fills[f].tag = NoStrategy
        /\ (r \in RowIds /\ row = rows[r]) \/ row = NewRow(fills[f])
    BY Shapes DEF Booked, BaseInv, FillsOk
  <1>1. /\ next.paper = (row.paper /\ (fills[f].paper \/ row.qty # 0))
        /\ next.tag = (IF row.tag = NoStrategy THEN fills[f].tag ELSE row.tag)
    BY <1>0, RowFields DEF paperAfterFill
  <1>2. /\ row.tag \in Tags /\ row.paper \in BOOLEAN /\ fills[f].tag \in Tags
        /\ fills[f].paper \in BOOLEAN /\ next.paper \in BOOLEAN
    BY <1>0 DEF Row, Fill
  <1>3. IF fills[f].paper
        THEN fills[f].tag # NoStrategy /\ mode[fills[f].tag] = "PAPER"
        ELSE \A s \in Strategies : fills[f].tag \in {s, NoStrategy} => mode[s] = "LIVE"
    BY <1>0 DEF ModesOk
  <1>4. CASE row = NewRow(fills[f])
    <2>1. row.tag = fills[f].tag /\ row.paper = fills[f].paper
      BY <1>0, <1>4, NewRowType
    <2> QED
      BY <1>1, <1>2, <1>3, <2>1
  <1>5. CASE r \in RowIds /\ row = rows[r]
    <2>1. IF row.paper
          THEN row.tag # NoStrategy /\ (row.qty # 0 => mode[row.tag] = "PAPER")
          ELSE \E g \in FillIds : ~fills[g].paper /\ fills[g].tag \in {row.tag, NoStrategy}
      BY <1>5 DEF ModesOk
    <2>2. CASE fills[f].paper
      <3>1. ASSUME ~row.paper PROVE FALSE
        <4>1. PICK g \in FillIds : ~fills[g].paper /\ fills[g].tag \in {row.tag, NoStrategy}
          BY <2>1, <3>1
        <4>2. fills[g].tag \in {fills[f].tag, NoStrategy}
          BY <1>0, <1>3, <2>2, <4>1
        <4>3. fills[f].tag \in Strategies
          BY <1>2, <1>3, <2>2 DEF Tags
        <4>4. mode[fills[f].tag] = "LIVE"
          BY <4>1, <4>2, <4>3 DEF ModesOk
        <4> QED
          BY <1>3, <2>2, <4>4
      <3> QED
        BY <1>0, <1>1, <1>2, <1>3, <2>1, <2>2, <3>1
    <2>3. CASE ~fills[f].paper
      <3>1. ASSUME row.paper, row.qty # 0 PROVE FALSE
        <4>1. row.tag \in Strategies /\ mode[row.tag] = "PAPER"
          BY <1>2, <2>1, <3>1 DEF Tags
        <4>2. mode[row.tag] = "LIVE"
          BY <1>0, <1>3, <2>1, <2>3, <3>1, <4>1
        <4> QED
          BY <4>1, <4>2
      <3> QED
        BY <1>0, <1>1, <1>2, <2>3, <3>1
    <2> QED
      BY <2>2, <2>3
  <1> QED
    BY <1>0, <1>4, <1>5

\* A fill under way excludes a clear, and its row fits its open trade.
LEMMA CommitFits ==
    ASSUME TypeOK, BaseInv, AloneInv, NEW w \in Workers, NEW f \in FillIds,
           NEW r \in Nat \ {0}, NEW row \in Row, NEW next \in Row, NEW done \in Fill,
           Booked(w, f, r, row, next, done)
    PROVE  /\ clear.pc = "idle" /\ r \notin broken
           /\ Fits(trades, r, row.qty) /\ Fits(trades', r, next.qty)
           /\ Traded(trades', r, fills[f], done.delta)
           /\ next.qty = row.qty + fills[f].qty
           /\ done.delta = realizedDelta(PositionBefore(row, fills[f].paper),
                                         fills[f].qty, fills[f].price)
           /\ done.kind = fillKind(row.qty, fills[f].qty) /\ done.after = next.qty
  <1>0. /\ fills[f] \in Fill /\ fills[f].qty # 0 /\ f # 0 /\ worker[w].fill = f
        /\ next = RowAfter(row, fills[f]) /\ row.qty \in Int /\ fills[f].qty \in Int
        /\ fills[f].price \in Nat
    <2>1. fills[f] \in Fill /\ f \in Nat \ {0}
      BY Shapes
    <2>2. fills[f].qty # 0
      BY DEF BaseInv, FillsOk
    <2>3. worker[w].fill = f /\ next = RowAfter(row, fills[f])
      BY DEF Booked
    <2>4. row.qty \in Int /\ fills[f].qty \in Int /\ fills[f].price \in Nat
      BY <2>1 DEF Row, Fill
    <2> QED
      BY <2>1, <2>2, <2>3, <2>4
  <1>1. clear.pc = "idle"
    BY <1>0 DEF AloneInv, BooksInv, ClearOk, Quiet, Busy
  <1>2. Fits(trades, r, row.qty) /\ r \notin broken
    <2>1. CASE r \in RowIds /\ row = rows[r]
      <3>1. r \in broken => rows[r].qty = 0 /\ OpenTrades(r) # {}
        BY <2>1 DEF AloneInv, MatchInv
      <3>2. rows[r].qty = 0 => OpenTrades(r) = {}
        BY <2>1 DEF Booked
      <3>3. r \notin broken /\ ~Cleared(r)
        BY <1>1, <3>1, <3>2 DEF Cleared
      <3> QED
        BY <2>1, <3>3 DEF AloneInv, MatchInv, Matches
    <2>2. CASE r \notin DOMAIN rows /\ row = NewRow(fills[f])
      <3>1. OpenIn(trades, r) = {} /\ r \notin broken
        BY <2>2 DEF BaseInv, LinksOk, OpenIn
      <3>2. row.qty = 0
        BY <1>0, <2>2, NewRowType
      <3> QED
        BY <3>1, <3>2 DEF Fits
    <2> QED
      BY <2>1, <2>2 DEF Booked
  <1>3. /\ done.delta = realizedDelta(PositionBefore(row, fills[f].paper),
                                      fills[f].qty, fills[f].price)
        /\ done.kind = fillKind(row.qty, fills[f].qty) /\ done.after = next.qty
        /\ trades' = SyncTrade(r, fills[f], row.qty, done.delta)
    <2> DEFINE d == realizedDelta(PositionBefore(row, fills[f].paper), fills[f].qty,
                                  fills[f].price)
               k == fillKind(row.qty, fills[f].qty)
    <2>1. /\ done = [fills[f] EXCEPT !.state = "applied", !.row = r, !.delta = d,
                                     !.kind = k, !.after = next.qty]
          /\ trades' = SyncTrade(r, fills[f], row.qty, done.delta)
      BY DEF Booked
    <2> HIDE DEF d, k
    <2>2. done.delta = d /\ done.kind = k /\ done.after = next.qty
      BY <1>0, <2>1 DEF Fill
    <2> QED
      BY <2>1, <2>2 DEF d, k
  <1>4. /\ next.qty = row.qty + fills[f].qty
        /\ LET b == PositionBefore(row, fills[f].paper)
           IN  b.qty = row.qty /\ b.avg \in Int
    BY <1>0, RowFields
  <1>5. /\ done.delta \in Int
        /\ done.kind \in {"OPENED", "INCREASED"} => done.delta = 0
    <2> DEFINE b == PositionBefore(row, fills[f].paper)
    <2>1. b.qty \in Int /\ b.avg \in Int /\ fills[f].price \in Int
      BY <1>0, <1>4
    <2>2. /\ realizedDelta(b, fills[f].qty, fills[f].price) \in Int
          /\ fillKind(b.qty, fills[f].qty) \in {"OPENED", "INCREASED"} =>
                realizedDelta(b, fills[f].qty, fills[f].price) = 0
      BY <1>0, <2>1, DeltaType
    <2> QED
      BY <1>3, <1>4, <2>2
  <1>6. Fits(trades', r, row.qty + fills[f].qty) /\ Traded(trades', r, fills[f], done.delta)
    BY <1>0, <1>2, <1>3, <1>5, SyncFits
  <1> QED
    BY <1>1, <1>2, <1>3, <1>4, <1>6

\* What one application leaves of the tables.
LEMMA BookedTables ==
    ASSUME TypeOK, BaseInv, AloneInv, NEW w \in Workers, NEW f \in FillIds,
           NEW r \in Nat \ {0}, NEW row \in Row, NEW next \in Row, NEW done \in Fill,
           Booked(w, f, r, row, next, done)
    PROVE  /\ fills[f].state = "new" /\ fills[f].row = 0
           /\ done.tag = fills[f].tag /\ done.paper = fills[f].paper
           /\ done.qty = fills[f].qty /\ done.price = fills[f].price
           /\ done.state = "applied" /\ done.row = r
           /\ fills[f].paper \in BOOLEAN
           /\ FillIds' = FillIds /\ fills'[f] = done
           /\ \A g \in FillIds \ {f} : fills'[g] = fills[g]
           /\ (r \in RowIds /\ row = rows[r]) \/ (r \notin DOMAIN rows /\ row = NewRow(fills[f]))
           /\ RowIds' = RowIds \cup {r} /\ rows'[r] = next
           /\ \A q \in RowIds \ {r} : rows'[q] = rows[q]
           /\ \E n \in Nat \ DOMAIN trades :
                 /\ DOMAIN trades' \in {DOMAIN trades, DOMAIN trades \cup {n}}
                 /\ \A t \in DOMAIN trades \ OpenTrades(r) : trades'[t] = trades[t]
                 /\ \A t \in OpenTrades(r) : trades'[t].row = r
                 /\ \A t \in OpenTrades(r) : trades'[t].paper = trades[t].paper
                 /\ n \in DOMAIN trades' =>
                       trades'[n].row = r /\ trades'[n].paper = fills[f].paper
           /\ UNCHANGED <<mode, clear, audit, broken>>
  <1>0. fills[f] \in Fill /\ fills[f].qty # 0
    BY Shapes DEF BaseInv, FillsOk
  <1>1. /\ done.tag = fills[f].tag /\ done.paper = fills[f].paper
        /\ done.qty = fills[f].qty /\ done.price = fills[f].price
        /\ done.state = "applied" /\ done.row = r /\ fills[f].paper \in BOOLEAN
    <2> DEFINE d == realizedDelta(PositionBefore(row, fills[f].paper), fills[f].qty,
                                  fills[f].price)
               k == fillKind(row.qty, fills[f].qty)
    <2>1. done = [fills[f] EXCEPT !.state = "applied", !.row = r, !.delta = d,
                                  !.kind = k, !.after = next.qty]
      BY DEF Booked
    <2> HIDE DEF d, k
    <2> QED
      BY <1>0, <2>1 DEF Fill
  <1>2. fills[f].state = "new" /\ fills[f].row = 0
    BY DEF Booked, BaseInv, FillsOk
  <1>3. /\ FillIds' = FillIds /\ fills'[f] = done
        /\ \A g \in FillIds \ {f} : fills'[g] = fills[g]
        /\ DOMAIN rows' = DOMAIN rows \cup {r} /\ rows'[r] = next
        /\ \A q \in DOMAIN rows \ {r} : rows'[q] = rows[q]
        /\ UNCHANGED <<mode, clear, audit, broken>>
        /\ (r \in RowIds /\ row = rows[r]) \/ (r \notin DOMAIN rows /\ row = NewRow(fills[f]))
    BY DEF Booked, FillIds
  <1>4. ~next.gone
    <2>1. next = RowAfter(row, fills[f])
      BY DEF Booked
    <2>2. next.gone = row.gone
      BY <1>0, <2>1, RowFields
    <2>3. row = NewRow(fills[f]) => ~row.gone
      BY <1>0, NewRowType
    <2> QED
      BY <1>3, <2>2, <2>3 DEF RowIds
  <1>5. RowIds' = RowIds \cup {r}
    BY <1>3, <1>4 DEF RowIds
  <1>6. Traded(trades', r, fills[f], done.delta)
    BY CommitFits
  <1> QED
    BY <1>1, <1>2, <1>3, <1>5, <1>6 DEF Traded, RowIds

LEMMA CommitAlone ==
    ASSUME TypeOK, BaseInv, AloneInv, NEW w \in Workers, NEW f \in FillIds,
           NEW r \in Nat \ {0}, NEW row \in Row, NEW next \in Row, NEW done \in Fill,
           Booked(w, f, r, row, next, done)
    PROVE  AloneInv'
  <1>1. /\ fills[f].state = "new" /\ fills[f].row = 0
        /\ done.tag = fills[f].tag /\ done.paper = fills[f].paper
        /\ done.state = "applied" /\ done.row = r /\ fills[f].paper \in BOOLEAN
        /\ FillIds' = FillIds /\ fills'[f] = done
        /\ \A g \in FillIds \ {f} : fills'[g] = fills[g]
        /\ (r \in RowIds /\ row = rows[r]) \/ (r \notin DOMAIN rows /\ row = NewRow(fills[f]))
        /\ RowIds' = RowIds \cup {r} /\ rows'[r] = next
        /\ \A q \in RowIds \ {r} : rows'[q] = rows[q]
        /\ UNCHANGED <<mode, clear, audit, broken>>
    BY BookedTables
  <1>2. PICK n \in Nat \ DOMAIN trades :
           /\ DOMAIN trades' \in {DOMAIN trades, DOMAIN trades \cup {n}}
           /\ \A t \in DOMAIN trades \ OpenTrades(r) : trades'[t] = trades[t]
           /\ \A t \in OpenTrades(r) : trades'[t].row = r
           /\ \A t \in OpenTrades(r) : trades'[t].paper = trades[t].paper
           /\ n \in DOMAIN trades' => trades'[n].row = r /\ trades'[n].paper = fills[f].paper
    <2>1. Traded(trades', r, fills[f], done.delta)
      BY CommitFits
    <2> QED
      BY <2>1 DEF Traded
  <1>3. /\ next.paper = fills[f].paper
        /\ row.paper = fills[f].paper \/ (row.paper /\ row.qty = 0)
        /\ next.tag = (IF row.tag = NoStrategy THEN fills[f].tag ELSE row.tag)
        /\ next.tag \in {fills[f].tag} \/ fills[f].tag = NoStrategy
        /\ next.paper => next.tag # NoStrategy /\ mode[next.tag] = "PAPER"
    BY SameBook DEF AloneInv, BooksInv
  <1>4. /\ clear.pc = "idle" /\ r \notin broken
        /\ Fits(trades, r, row.qty) /\ Fits(trades', r, next.qty)
    BY CommitFits
  <1>5. row.qty = 0 => OpenTrades(r) = {}
    BY DEF Booked
  <1>6. ModesOk'
    <2>1. ASSUME NEW g \in FillIds
          PROVE  IF fills'[g].paper
                 THEN /\ fills'[g].tag # NoStrategy
                      /\ fills'[g].state = "new" => mode[fills'[g].tag] = "PAPER"
                 ELSE \A s \in Strategies :
                         fills'[g].tag \in {s, NoStrategy} => mode[s] = "LIVE"
      <3>1. IF fills[g].paper
            THEN /\ fills[g].tag # NoStrategy
                 /\ fills[g].state = "new" => mode[fills[g].tag] = "PAPER"
            ELSE \A s \in Strategies : fills[g].tag \in {s, NoStrategy} => mode[s] = "LIVE"
        BY DEF AloneInv, BooksInv, ModesOk
      <3>2. CASE g = f
        BY <1>1, <3>1, <3>2
      <3>3. CASE g # f
        BY <1>1, <3>1, <3>3
      <3> QED
        BY <3>2, <3>3
    <2>2. \A g \in FillIds : fills'[g].paper = fills[g].paper /\ fills'[g].tag = fills[g].tag
      BY <1>1
    <2>3. ASSUME NEW q \in RowIds'
          PROVE  IF rows'[q].paper
                 THEN /\ rows'[q].tag # NoStrategy
                      /\ rows'[q].qty # 0 => mode[rows'[q].tag] = "PAPER"
                 ELSE \E g \in FillIds : /\ ~fills'[g].paper
                                         /\ fills'[g].tag \in {rows'[q].tag, NoStrategy}
      <3>1. CASE q = r
        BY <1>1, <1>3, <2>2, <3>1
      <3>2. CASE q # r
        <4>1. q \in RowIds /\ rows'[q] = rows[q]
          BY <1>1, <3>2
        <4>2. IF rows[q].paper
              THEN rows[q].tag # NoStrategy /\ (rows[q].qty # 0 => mode[rows[q].tag] = "PAPER")
              ELSE \E g \in FillIds : ~fills[g].paper /\ fills[g].tag \in {rows[q].tag, NoStrategy}
          BY <4>1 DEF AloneInv, BooksInv, ModesOk
        <4> QED
          BY <2>2, <4>1, <4>2
      <3> QED
        BY <3>1, <3>2
    <2> QED
      BY <1>1, <2>1, <2>3 DEF ModesOk
  <1>7. ClearOk'
    BY <1>1, <1>4 DEF ClearOk
  <1>8. ASSUME NEW q \in RowIds' \ {r}
        PROVE  /\ q \in RowIds /\ rows'[q] = rows[q]
               /\ \A t \in DOMAIN trades' :
                     trades'[t].row = q => t \in DOMAIN trades /\ trades'[t] = trades[t]
               /\ OpenIn(trades', q) = OpenIn(trades, q)
               /\ \A t \in OpenIn(trades, q) : trades'[t] = trades[t]
    <2>1. q \in RowIds /\ rows'[q] = rows[q]
      BY <1>1
    <2>2. \A t \in DOMAIN trades' :
              trades'[t].row = q => t \in DOMAIN trades /\ trades'[t] = trades[t]
      BY <1>2, <1>8
    <2>3. \A t \in DOMAIN trades : trades[t].row = q => trades'[t] = trades[t]
      BY <1>2, <1>8 DEF OpenTrades
    <2>4. DOMAIN trades \subseteq DOMAIN trades'
      BY <1>2
    <2> QED
      BY <2>1, <2>2, <2>3, <2>4 DEF OpenIn
  <1>9. OwnBooks'
    <2>1. ASSUME NEW q \in RowIds', rows'[q].paper
          PROVE  /\ \A g \in FillIds : fills'[g].row = q => fills'[g].paper
                 /\ \A t \in DOMAIN trades' : trades'[t].row = q => trades'[t].paper
                 /\ \A e \in DOMAIN audit : audit[e].row = q => audit[e].paper
      <3>1. CASE q = r
        <4>1. row.paper /\ fills[f].paper
          BY <1>1, <1>3, <2>1, <3>1
        <4>2. /\ \A g \in FillIds : fills[g].row = r => fills[g].paper
              /\ \A t \in DOMAIN trades : trades[t].row = r => trades[t].paper
              /\ \A e \in DOMAIN audit : audit[e].row = r => audit[e].paper
          <5>1. CASE r \in RowIds
            BY <1>1, <4>1, <5>1 DEF AloneInv, BooksInv, OwnBooks, RowIds
          <5>2. CASE r \notin DOMAIN rows
            BY <5>2 DEF BaseInv, FillsOk, LinksOk
          <5> QED
            BY <1>1, <5>1, <5>2
        <4>3. \A t \in DOMAIN trades' : trades'[t].row = r => trades'[t].paper
          BY <1>2, <4>1, <4>2 DEF OpenTrades
        <4> QED
          BY <1>1, <3>1, <4>1, <4>2, <4>3
      <3>2. CASE q # r
        <4>1. /\ \A g \in FillIds : fills[g].row = q => fills[g].paper
              /\ \A t \in DOMAIN trades : trades[t].row = q => trades[t].paper
              /\ \A e \in DOMAIN audit : audit[e].row = q => audit[e].paper
          BY <1>8, <2>1, <3>2 DEF AloneInv, BooksInv, OwnBooks
        <4> QED
          BY <1>1, <1>8, <3>2, <4>1
      <3> QED
        BY <3>1, <3>2
    <2>2. ASSUME NEW q \in RowIds', NEW t \in OpenIn(trades', q)
          PROVE  trades'[t].paper = rows'[q].paper
      <3>1. CASE q = r
        <4>1. CASE t \in OpenTrades(r)
          <5>1. row.paper = fills[f].paper /\ r \in RowIds
            BY <1>1, <1>3, <1>5, <4>1 DEF OpenTrades, BaseInv, LinksOk
          <5>2. trades[t].paper = rows[r].paper /\ row = rows[r]
            BY <1>1, <4>1, <5>1 DEF AloneInv, BooksInv, OwnBooks, RowIds
          <5> QED
            BY <1>1, <1>2, <1>3, <3>1, <4>1, <5>1, <5>2
        <4>2. CASE t \notin OpenTrades(r)
          <5>1. t \notin DOMAIN trades
            BY <1>2, <2>2, <3>1, <4>2 DEF OpenIn, OpenTrades
          <5> QED
            BY <1>1, <1>2, <1>3, <2>2, <3>1, <5>1 DEF OpenIn
        <4> QED
          BY <4>1, <4>2
      <3>2. CASE q # r
        BY <1>8, <2>2, <3>2 DEF AloneInv, BooksInv, OwnBooks, OpenIn, OpenTrades
      <3> QED
        BY <3>1, <3>2
    <2> QED
      BY <1>1, <2>1, <2>2 DEF OwnBooks, OpenTrades, OpenIn
  <1>10. MatchInv'
    <2>1. ASSUME NEW q \in RowIds'
          PROVE  IF q \in broken THEN rows'[q].qty = 0 /\ OpenIn(trades', q) # {}
                 ELSE Fits(trades', q, rows'[q].qty)
      <3>1. CASE q = r
        BY <1>1, <1>4, <3>1
      <3>2. CASE q # r
        <4>1. IF q \in broken THEN rows[q].qty = 0 /\ OpenIn(trades, q) # {}
              ELSE Fits(trades, q, rows[q].qty)
          BY <1>4, <1>8, <3>2
             DEF AloneInv, MatchInv, Matches, Cleared, OpenIn, OpenTrades
        <4>2. Fits(trades, q, rows[q].qty) => Fits(trades', q, rows[q].qty)
          <5>1. DOMAIN trades \subseteq DOMAIN trades'
            BY <1>2
          <5>2. /\ OpenIn(trades', q) = OpenIn(trades, q)
                /\ \A t \in OpenIn(trades, q) : trades'[t] = trades[t]
            BY <1>8, <3>2
          <5> QED
            BY <5>1, <5>2 DEF Fits
        <4> QED
          BY <1>8, <3>2, <4>1, <4>2
      <3> QED
        BY <3>1, <3>2
    <2> QED
      BY <1>1, <2>1 DEF MatchInv, Matches, OpenIn, OpenTrades
  <1> QED
    BY <1>6, <1>7, <1>9, <1>10 DEF AloneInv, BooksInv

\* Nothing but the named tables changes: what the other steps keep.
LEMMA OtherAlone ==
    ASSUME TypeOK, BaseInv, AloneInv,
           UNCHANGED <<fills, rows, trades, audit, broken>>, ModesOk', ClearOk',
           \A r \in RowIds : Cleared(r) => Cleared(r)' \/ r \in broken
    PROVE  AloneInv'
  <1>1. OwnBooks'
    <2>1. OwnBooks
      BY DEF AloneInv, BooksInv
    <2> QED
      BY <2>1 DEF OwnBooks, OpenTrades, RowIds, FillIds
  <1>2. MatchInv'
    <2>1. \A r \in RowIds : IF r \in broken THEN rows[r].qty = 0 /\ OpenTrades(r) # {}
                            ELSE Cleared(r) \/ Fits(trades, r, rows[r].qty)
      BY DEF AloneInv, MatchInv, Matches
    <2>2. \A r \in RowIds : IF r \in broken THEN rows[r].qty = 0 /\ OpenTrades(r) # {}
                            ELSE Cleared(r)' \/ Fits(trades, r, rows[r].qty)
      BY <2>1
    <2> QED
      BY <2>2 DEF MatchInv, Matches, OpenTrades, RowIds
  <1> QED
    BY <1>1, <1>2 DEF AloneInv, BooksInv

LEMMA ZeroAlone ==
    ASSUME TypeOK, BaseInv, AloneInv, ClearZero
    PROVE  AloneInv'
  <1> DEFINE c == clear.row
  <1>1. /\ clear.pc = "zero" /\ c \in RowIds /\ DOMAIN rows' = DOMAIN rows /\ RowIds' = RowIds
        /\ \A r \in DOMAIN rows : /\ rows'[r].tag = rows[r].tag
                                  /\ rows'[r].paper = rows[r].paper
                                  /\ r # c => rows'[r] = rows[r]
        /\ rows'[c].qty = 0
        /\ clear'.pc = "trades" /\ clear'.row = c /\ clear'.qty = clear.qty
        /\ clear'.then = clear.then
        /\ UNCHANGED <<mode, fills, trades, worker, audit, broken, failures>>
    BY Zeroed
  <1>2. /\ Quiet /\ rows[c].qty # 0
        /\ clear.then # NoStrategy => rows[c].tag = clear.then
    BY <1>1 DEF AloneInv, BooksInv, ClearOk
  <1>3. c \notin broken /\ Fits(trades, c, rows[c].qty)
    BY <1>1, <1>2 DEF AloneInv, MatchInv, Matches, Cleared
  <1>4. OpenTrades(c) # {}
    BY <1>2, <1>3 DEF Fits, OpenIn, OpenTrades
  <1>5. RowIds \subseteq DOMAIN rows
    BY DEF RowIds
  <1> HIDE DEF c
  <1>6. ModesOk'
    <2>1. ModesOk
      BY DEF AloneInv, BooksInv
    <2>2. \A f \in FillIds :
              IF fills[f].paper
              THEN /\ fills[f].tag # NoStrategy
                   /\ fills[f].state = "new" => mode[fills[f].tag] = "PAPER"
              ELSE \A s \in Strategies : fills[f].tag \in {s, NoStrategy} => mode[s] = "LIVE"
      BY <2>1 DEF ModesOk
    <2>3. ASSUME NEW r \in RowIds
          PROVE  IF rows'[r].paper
                 THEN /\ rows'[r].tag # NoStrategy
                      /\ rows'[r].qty # 0 => mode[rows'[r].tag] = "PAPER"
                 ELSE \E f \in FillIds : /\ ~fills[f].paper
                                         /\ fills[f].tag \in {rows'[r].tag, NoStrategy}
      <3>1. IF rows[r].paper
            THEN rows[r].tag # NoStrategy /\ (rows[r].qty # 0 => mode[rows[r].tag] = "PAPER")
            ELSE \E f \in FillIds : ~fills[f].paper /\ fills[f].tag \in {rows[r].tag, NoStrategy}
        BY <2>1 DEF ModesOk
      <3> QED
        BY <1>1, <1>5, <3>1
    <2> QED
      BY <1>1, <2>2, <2>3 DEF ModesOk, FillIds
  <1>7. ClearOk'
    <2>1. Quiet'
      BY <1>1, <1>2 DEF Quiet, Busy, FillIds
    <2>2. OpenTrades(clear.row)' = OpenIn(trades', clear'.row)
      BY DEF OpenTrades, OpenIn
    <2>3. OpenIn(trades', clear'.row) # {}
      BY <1>1, <1>4 DEF OpenTrades, OpenIn
    <2>4. rows'[clear'.row].qty = 0 /\ clear'.row \notin broken'
      BY <1>1, <1>3
    <2>5. clear'.then # NoStrategy => rows'[clear'.row].tag = clear'.then
      BY <1>1, <1>2, <1>5
    <2> HIDE DEF OpenTrades
    <2> QED
      BY <1>1, <2>1, <2>2, <2>3, <2>4, <2>5 DEF ClearOk
  <1>8. OwnBooks'
    <2>1. OwnBooks
      BY DEF AloneInv, BooksInv
    <2> QED
      BY <1>1, <1>5, <2>1 DEF OwnBooks, OpenTrades, FillIds
  <1>9. MatchInv'
    <2>1. ASSUME NEW r \in RowIds
          PROVE  IF r \in broken THEN rows'[r].qty = 0 /\ OpenTrades(r) # {}
                 ELSE Cleared(r)' \/ Fits(trades, r, rows'[r].qty)
      <3>1. IF r \in broken THEN rows[r].qty = 0 /\ OpenTrades(r) # {}
            ELSE Cleared(r) \/ Fits(trades, r, rows[r].qty)
        BY DEF AloneInv, MatchInv, Matches
      <3> QED
        BY <1>1, <1>3, <1>5, <3>1 DEF Cleared
    <2> QED
      BY <1>1, <2>1 DEF MatchInv, Matches, OpenTrades
  <1> QED
    BY <1>6, <1>7, <1>8, <1>9 DEF AloneInv, BooksInv

LEMMA TradesAlone ==
    ASSUME TypeOK, BaseInv, AloneInv, ClearTrades
    PROVE  AloneInv'
  <1> DEFINE c == clear.row
             n == Len(audit) + 1
  <1>1. /\ clear.pc = "trades" /\ c \in RowIds /\ DOMAIN trades' = DOMAIN trades
        /\ \A t \in DOMAIN trades : /\ trades'[t].row = trades[t].row
                                    /\ trades'[t].paper = trades[t].paper
                                    /\ trades'[t].gone = trades[t].gone
                                    /\ IF t \in OpenTrades(c) THEN ~trades'[t].open
                                       ELSE trades'[t] = trades[t]
        /\ DOMAIN audit' = DOMAIN audit \cup {n}
        /\ \A e \in DOMAIN audit : audit'[e] = audit[e]
        /\ audit'[n].row = c /\ audit'[n].paper = rows[c].paper
        /\ mode' = IF clear.then = NoStrategy THEN mode ELSE [mode EXCEPT ![clear.then] = "LIVE"]
        /\ clear' = IdleClear
        /\ UNCHANGED <<fills, rows, worker, broken, clears, failures>>
    BY TradesCleared
  <1>2. /\ Quiet /\ rows[c].qty = 0 /\ c \notin broken
        /\ clear.then # NoStrategy => rows[c].tag = clear.then
    BY <1>1 DEF AloneInv, BooksInv, ClearOk
  <1>3. /\ mode \in [Strategies -> {"PAPER", "LIVE"}] /\ clear.then \in Tags
        /\ clear'.pc = "idle"
    BY <1>1 DEF TypeOK, IdleClear
  <1> HIDE DEF c, n
  <1>4. ModesOk'
    <2>1. \A s \in Strategies : mode'[s] = IF s = clear.then THEN "LIVE" ELSE mode[s]
      BY <1>1, <1>3, PositionAssumption DEF Tags
    <2>2. ASSUME NEW f \in FillIds
          PROVE  IF fills[f].paper
                 THEN fills[f].tag # NoStrategy /\ fills[f].state # "new"
                 ELSE \A s \in Strategies : fills[f].tag \in {s, NoStrategy} => mode'[s] = "LIVE"
      <3>1. fills[f].state # "new"
        BY <1>2 DEF Quiet
      <3>2. IF fills[f].paper THEN fills[f].tag # NoStrategy
            ELSE \A s \in Strategies : fills[f].tag \in {s, NoStrategy} => mode[s] = "LIVE"
        BY DEF AloneInv, BooksInv, ModesOk
      <3> QED
        BY <2>1, <3>1, <3>2
    <2>3. ASSUME NEW r \in RowIds
          PROVE  IF rows[r].paper
                 THEN /\ rows[r].tag # NoStrategy
                      /\ rows[r].qty # 0 => mode'[rows[r].tag] = "PAPER"
                 ELSE \E f \in FillIds : /\ ~fills[f].paper
                                         /\ fills[f].tag \in {rows[r].tag, NoStrategy}
      <3>1. IF rows[r].paper
            THEN rows[r].tag # NoStrategy /\ (rows[r].qty # 0 => mode[rows[r].tag] = "PAPER")
            ELSE \E f \in FillIds : ~fills[f].paper /\ fills[f].tag \in {rows[r].tag, NoStrategy}
        BY DEF AloneInv, BooksInv, ModesOk
      <3>2. rows[r].tag \in Tags
        BY Shapes DEF Row, RowIds
      <3>3. ASSUME rows[r].paper, rows[r].qty # 0 PROVE rows[r].tag # clear.then
        <4>1. r # c
          BY <1>2, <3>3
        <4>2. rows[r].tag # rows[c].tag
          BY <1>1, <4>1 DEF BaseInv, RowsOk
        <4> QED
          BY <1>2, <3>1, <3>3, <4>2
      <3> QED
        BY <2>1, <3>1, <3>2, <3>3 DEF Tags
    <2> QED
      BY <1>1, <2>2, <2>3 DEF ModesOk, FillIds, RowIds
  <1>5. ClearOk'
    BY <1>3 DEF ClearOk
  <1>6. \A r : OpenIn(trades', r) = IF r = c THEN {} ELSE OpenIn(trades, r)
    BY <1>1 DEF OpenIn, OpenTrades
  <1>7. OwnBooks'
    <2>1. \A r \in RowIds :
              /\ rows[r].paper =>
                    /\ \A f \in FillIds : fills[f].row = r => fills[f].paper
                    /\ \A t \in DOMAIN trades : trades[t].row = r => trades[t].paper
                    /\ \A e \in DOMAIN audit : audit[e].row = r => audit[e].paper
              /\ \A t \in OpenIn(trades, r) : trades[t].paper = rows[r].paper
      BY DEF AloneInv, BooksInv, OwnBooks, OpenTrades, OpenIn
    <2>2. ASSUME NEW r \in RowIds
          PROVE  /\ rows[r].paper =>
                       /\ \A f \in FillIds : fills[f].row = r => fills[f].paper
                       /\ \A t \in DOMAIN trades' : trades'[t].row = r => trades'[t].paper
                       /\ \A e \in DOMAIN audit' : audit'[e].row = r => audit'[e].paper
                 /\ \A t \in OpenIn(trades', r) : trades'[t].paper = rows[r].paper
      <3>1. \A t \in OpenIn(trades', r) : t \in OpenIn(trades, r) /\ t \in DOMAIN trades
        BY <1>6 DEF OpenIn
      <3> QED
        BY <1>1, <2>1, <3>1
    <2> QED
      BY <1>1, <2>2 DEF OwnBooks, OpenTrades, OpenIn, FillIds, RowIds
  <1>8. MatchInv'
    <2>1. ASSUME NEW r \in RowIds
          PROVE  IF r \in broken THEN rows[r].qty = 0 /\ OpenIn(trades', r) # {}
                 ELSE Fits(trades', r, rows[r].qty)
      <3>1. IF r \in broken THEN rows[r].qty = 0 /\ OpenIn(trades, r) # {}
            ELSE Cleared(r) \/ Fits(trades, r, rows[r].qty)
        BY DEF AloneInv, MatchInv, Matches, OpenIn, OpenTrades
      <3>2. CASE r = c
        BY <1>2, <1>6, <3>2 DEF Fits
      <3>3. CASE r # c
        <4>1. OpenIn(trades', r) = OpenIn(trades, r) /\ ~Cleared(r)
          BY <1>6, <3>3 DEF Cleared, c
        <4>2. \A t \in OpenIn(trades, r) : trades'[t] = trades[t]
          BY <1>1, <3>3 DEF OpenIn, OpenTrades
        <4>3. Fits(trades, r, rows[r].qty) => Fits(trades', r, rows[r].qty)
          BY <1>1, <4>1, <4>2 DEF Fits
        <4> QED
          BY <3>1, <4>1, <4>3
      <3> QED
        BY <3>2, <3>3
    <2> QED
      BY <1>1, <2>1 DEF MatchInv, Matches, OpenTrades, OpenIn, RowIds
  <1> QED
    BY <1>4, <1>5, <1>7, <1>8 DEF AloneInv, BooksInv

LEMMA DeleteAlone ==
    ASSUME TypeOK, BaseInv, AloneInv, PaperDelete
    PROVE  AloneInv'
  <1>1. /\ clear.pc = "delete" /\ DOMAIN rows' = DOMAIN rows
        /\ \A r \in DOMAIN rows :
              /\ rows'[r].tag = rows[r].tag /\ rows'[r].paper = rows[r].paper
              /\ rows'[r].qty = rows[r].qty
              /\ rows'[r].gone = (rows[r].gone \/ (rows[r].paper /\ rows[r].qty = 0))
        /\ DOMAIN fills' = DOMAIN fills
        /\ \A f \in FillIds :
              /\ fills'[f].tag = fills[f].tag /\ fills'[f].paper = fills[f].paper
              /\ fills'[f].row = fills[f].row
              /\ fills'[f].state = IF fills[f].paper THEN "deleted" ELSE fills[f].state
        /\ DOMAIN trades' = DOMAIN trades
        /\ \A t \in DOMAIN trades :
              /\ trades'[t].row = trades[t].row /\ trades'[t].long = trades[t].long
              /\ trades'[t].open = trades[t].open /\ trades'[t].entry = trades[t].entry
              /\ trades'[t].exit = trades[t].exit /\ trades'[t].paper = trades[t].paper
              /\ trades'[t].gone = (trades[t].gone \/ trades[t].paper)
        /\ clear' = IdleClear
        /\ UNCHANGED <<mode, worker, audit, broken, clears, failures>>
    BY Deleted
  <1>2. Quiet /\ \A r \in RowIds : rows[r].paper => rows[r].qty = 0
    BY <1>1 DEF AloneInv, BooksInv, ClearOk
  <1>3. clear'.pc = "idle"
    BY <1>1 DEF IdleClear
  <1>4. RowIds' = {r \in RowIds : ~rows[r].paper}
    BY <1>1, <1>2, Shapes DEF RowIds, Row
  <1>5. RowIds \subseteq DOMAIN rows /\ FillIds' = FillIds
    BY <1>1 DEF RowIds, FillIds
  <1>6. ModesOk'
    <2>1. ASSUME NEW f \in FillIds
          PROVE  IF fills'[f].paper
                 THEN fills'[f].tag # NoStrategy /\ fills'[f].state # "new"
                 ELSE \A s \in Strategies : fills'[f].tag \in {s, NoStrategy} => mode[s] = "LIVE"
      <3>1. IF fills[f].paper THEN fills[f].tag # NoStrategy
            ELSE \A s \in Strategies : fills[f].tag \in {s, NoStrategy} => mode[s] = "LIVE"
        BY DEF AloneInv, BooksInv, ModesOk
      <3> QED
        BY <1>1, <3>1
    <2>2. ASSUME NEW r \in RowIds'
          PROVE  /\ ~rows'[r].paper
                 /\ \E f \in FillIds : /\ ~fills'[f].paper
                                       /\ fills'[f].tag \in {rows'[r].tag, NoStrategy}
      <3>1. r \in RowIds /\ ~rows[r].paper
        BY <1>4
      <3>2. \E f \in FillIds : ~fills[f].paper /\ fills[f].tag \in {rows[r].tag, NoStrategy}
        BY <3>1 DEF AloneInv, BooksInv, ModesOk
      <3> QED
        BY <1>1, <1>5, <3>1, <3>2
    <2> QED
      BY <1>1, <1>5, <2>1, <2>2 DEF ModesOk
  <1>7. ClearOk'
    BY <1>3 DEF ClearOk
  <1>8. ASSUME NEW r \in RowIds'
        PROVE  /\ r \in RowIds /\ ~rows[r].paper /\ ~rows'[r].paper
               /\ rows'[r].qty = rows[r].qty
               /\ OpenIn(trades', r) = OpenIn(trades, r)
               /\ \A t \in OpenIn(trades, r) : ~trades[t].paper
    <2>1. r \in RowIds /\ ~rows[r].paper /\ ~rows'[r].paper /\ rows'[r].qty = rows[r].qty
      BY <1>1, <1>4, <1>5
    <2>2. \A t \in OpenIn(trades, r) : ~trades[t].paper
      BY <2>1 DEF AloneInv, BooksInv, OwnBooks, OpenIn, OpenTrades
    <2>3. \A t \in DOMAIN trades :
              /\ trades[t].gone \in BOOLEAN /\ trades[t].paper \in BOOLEAN
              /\ trades'[t].gone = (trades[t].gone \/ trades[t].paper)
      BY <1>1, Shapes DEF Trade
    <2>4. OpenIn(trades', r) = OpenIn(trades, r)
      BY <1>1, <2>2, <2>3 DEF OpenIn
    <2> QED
      BY <2>1, <2>2, <2>4
  <1>9. OwnBooks'
    <2>1. ASSUME NEW r \in RowIds', NEW t \in OpenIn(trades', r)
          PROVE  trades'[t].paper = rows'[r].paper
      BY <1>1, <1>8, Shapes DEF OpenIn, Row, Trade
    <2> QED
      BY <1>8, <2>1 DEF OwnBooks, OpenTrades, OpenIn
  <1>10. MatchInv'
    <2>1. ASSUME NEW r \in RowIds'
          PROVE  IF r \in broken THEN rows'[r].qty = 0 /\ OpenIn(trades', r) # {}
                 ELSE Fits(trades', r, rows'[r].qty)
      <3>1. IF r \in broken THEN rows[r].qty = 0 /\ OpenIn(trades, r) # {}
            ELSE Fits(trades, r, rows[r].qty)
        BY <1>1, <1>8 DEF AloneInv, MatchInv, Matches, Cleared, OpenIn, OpenTrades
      <3>2. Fits(trades, r, rows[r].qty) => Fits(trades', r, rows[r].qty)
        BY <1>1, <1>8 DEF Fits
      <3> QED
        BY <1>8, <3>1, <3>2
    <2> QED
      BY <1>1, <2>1 DEF MatchInv, Matches, OpenIn, OpenTrades
  <1> QED
    BY <1>6, <1>7, <1>9, <1>10 DEF AloneInv, BooksInv

LEMMA AloneStep ==
    ASSUME TypeOK, BaseInv, OneBook, AloneInv, [Next]_vars
    PROVE  AloneInv'
  <1>0. /\ mode \in [Strategies -> {"PAPER", "LIVE"}]
        /\ QuietClears /\ ~SharedRows /\ ModesOk /\ ClearOk /\ OwnBooks
    BY DEF TypeOK, OneBook, AloneInv, BooksInv
  <1>1. ASSUME NEW tag \in Tags, NEW qty \in Quantities, Executes(tag, qty)
        PROVE  AloneInv'
    <2> DEFINE n == Len(fills) + 1
               e == NewFill(tag, qty)
    <2>1. /\ e.tag = tag /\ e.paper = IsPaper(tag) /\ e.row = 0 /\ n \notin DOMAIN fills
          /\ DOMAIN fills' = DOMAIN fills \cup {n} /\ fills'[n] = e
          /\ \A g \in DOMAIN fills : fills'[g] = fills[g]
          /\ UNCHANGED <<mode, rows, trades, worker, clear, audit, broken, clears, failures>>
      BY <1>1, Executed
    <2> HIDE DEF n, e
    <2>2. /\ clear.pc = "idle"
          /\ tag = NoStrategy => \A s \in Strategies : mode[s] = "LIVE"
      BY <1>0, <1>1 DEF Executes
    <2>3. ModesOk'
      <3>1. IF e.paper THEN e.tag # NoStrategy /\ mode[e.tag] = "PAPER"
            ELSE \A s \in Strategies : e.tag \in {s, NoStrategy} => mode[s] = "LIVE"
        BY <1>0, <2>1, <2>2 DEF IsPaper
      <3>2. \A f \in DOMAIN fills :
                IF fills[f].paper
                THEN /\ fills[f].tag # NoStrategy
                     /\ fills[f].state = "new" => mode[fills[f].tag] = "PAPER"
                ELSE \A s \in Strategies : fills[f].tag \in {s, NoStrategy} => mode[s] = "LIVE"
        BY <1>0 DEF ModesOk, FillIds
      <3>3. \A r \in RowIds :
                IF rows[r].paper
                THEN rows[r].tag # NoStrategy /\ (rows[r].qty # 0 => mode[rows[r].tag] = "PAPER")
                ELSE \E f \in DOMAIN fills : /\ ~fills[f].paper
                                             /\ fills[f].tag \in {rows[r].tag, NoStrategy}
        BY <1>0 DEF ModesOk, FillIds
      <3> QED
        BY <2>1, <3>1, <3>2, <3>3 DEF ModesOk, FillIds, RowIds
    <2>4. ClearOk'
      BY <2>1, <2>2 DEF ClearOk
    <2>5. OwnBooks'
      <3>1. \A r \in RowIds : r # 0
        BY Shapes DEF RowIds
      <3> QED
        BY <1>0, <2>1, <3>1 DEF OwnBooks, FillIds, RowIds, OpenTrades
    <2>6. MatchInv'
      <3>1. MatchInv
        BY DEF AloneInv
      <3> QED
        BY <2>1, <3>1 DEF MatchInv, Matches, Cleared, RowIds, OpenTrades
    <2> QED
      BY <2>3, <2>4, <2>5, <2>6 DEF AloneInv, BooksInv
  <1>2. ASSUME clear.pc = "idle", clear' = clear,
               UNCHANGED <<mode, fills, rows, trades, audit, broken>>
        PROVE  AloneInv'
    <2>1. ModesOk'
      BY <1>0, <1>2 DEF ModesOk, FillIds, RowIds
    <2>2. ClearOk'
      BY <1>2 DEF ClearOk
    <2>3. \A r \in RowIds : Cleared(r) => Cleared(r)' \/ r \in broken
      BY <1>2 DEF Cleared
    <2> QED
      BY <1>2, <2>1, <2>2, <2>3, OtherAlone
  <1>3. ASSUME NEW w \in Workers, NEW f \in FillIds, ApplySelect(w, f)
        PROVE  AloneInv'
    BY <1>0, <1>2, <1>3 DEF ApplySelect
  <1>4. ASSUME NEW w \in Workers, ApplyCommit(w)
        PROVE  AloneInv'
    <2>1. PICK f \in FillIds, r \in Nat \ {0}, row \in Row, next \in Row, done \in Fill :
              Booked(w, f, r, row, next, done)
      BY <1>4, Commit
    <2> QED
      BY <2>1, CommitAlone
  <1>5. ASSUME NEW w \in Workers, ApplyRefused(w) \/ ApplyFails(w)
        PROVE  AloneInv'
    <2>1. worker[w].fill # 0
      BY <1>5 DEF ApplyRefused, ApplyFails
    <2>2. clear.pc = "idle"
      BY <1>0, <2>1 DEF ClearOk, Quiet, Busy
    <2> QED
      BY <1>2, <1>5, <2>2 DEF ApplyRefused, ApplyFails
  <1>6. ASSUME NEW r \in RowIds, NEW then \in Tags, ClearPhantom(r, then),
               then # NoStrategy => rows[r].tag = then
        PROVE  AloneInv'
    <2>1. /\ clear'.pc = "zero" /\ clear'.row = r /\ clear'.qty = rows[r].qty
          /\ clear'.then = then /\ rows[r].qty # 0 /\ clear.pc = "idle" /\ Quiet
          /\ UNCHANGED <<mode, fills, rows, trades, worker, audit, broken, failures>>
      BY <1>0, <1>6, Phantom
    <2>2. ModesOk'
      BY <1>0, <2>1 DEF ModesOk, FillIds, RowIds
    <2>3. Quiet'
      BY <2>1 DEF Quiet, Busy, FillIds
    <2>4. ClearOk'
      BY <1>6, <2>1, <2>3 DEF ClearOk
    <2>5. \A q \in RowIds : Cleared(q) => Cleared(q)' \/ q \in broken
      BY <2>1 DEF Cleared
    <2> QED
      BY <2>1, <2>2, <2>4, <2>5, OtherAlone
  <1>7. ASSUME ClearZero PROVE AloneInv'
    BY <1>7, ZeroAlone
  <1>8. ASSUME ClearTrades PROVE AloneInv'
    BY <1>8, TradesAlone
  <1>9. ASSUME ClearStops PROVE AloneInv'
    <2>1. /\ clear.row \in RowIds /\ clear' = IdleClear /\ clear.pc \in {"zero", "trades"}
          /\ broken' = IF clear.pc = "trades" THEN broken \cup {clear.row} ELSE broken
          /\ UNCHANGED <<mode, fills, rows, trades, worker, audit, clears>>
      BY <1>9 DEF ClearStops, BaseInv, LinksOk
    <2>2. clear'.pc = "idle"
      BY <2>1 DEF IdleClear
    <2>3. ModesOk'
      BY <1>0, <2>1 DEF ModesOk, FillIds, RowIds
    <2>4. ClearOk'
      BY <2>2 DEF ClearOk
    <2>5. OwnBooks'
      BY <1>0, <2>1 DEF OwnBooks, FillIds, RowIds, OpenTrades
    <2>6. MatchInv'
      <3>1. \A r \in RowIds : IF r \in broken THEN rows[r].qty = 0 /\ OpenTrades(r) # {}
                              ELSE Cleared(r) \/ Fits(trades, r, rows[r].qty)
        BY DEF AloneInv, MatchInv, Matches
      <3>2. clear.pc = "trades" => rows[clear.row].qty = 0 /\ OpenTrades(clear.row) # {}
        BY <1>0 DEF ClearOk
      <3>3. \A r \in RowIds : IF r \in broken' THEN rows[r].qty = 0 /\ OpenTrades(r) # {}
                              ELSE Fits(trades, r, rows[r].qty)
        BY <2>1, <3>1, <3>2 DEF Cleared
      <3> QED
        BY <2>1, <3>3 DEF MatchInv, Matches, RowIds, OpenTrades
    <2> QED
      BY <2>3, <2>4, <2>5, <2>6 DEF AloneInv, BooksInv
  <1>10. ASSUME clear.pc = "idle", ModesOk',
                UNCHANGED <<fills, rows, trades, worker, clear, audit, broken, failures>>
         PROVE  AloneInv'
    <2>1. ClearOk'
      BY <1>10 DEF ClearOk
    <2>2. \A r \in RowIds : Cleared(r) => Cleared(r)' \/ r \in broken
      BY <1>10 DEF Cleared
    <2> QED
      BY <1>10, <2>1, <2>2, OtherAlone
  <1>11. ASSUME NEW s \in Strategies, GoLive(s) PROVE AloneInv'
    <2>1. CASE \E r \in PaperRows(s) : ClearPhantom(r, s)
      <3>1. PICK r \in PaperRows(s) : ClearPhantom(r, s)
        BY <2>1
      <3>2. r \in RowIds /\ s \in Tags /\ rows[r].tag = s
        BY DEF PaperRows, Tags
      <3> QED
        BY <1>6, <3>1, <3>2
    <2>2. CASE /\ PaperRows(s) = {} /\ ClearBegins /\ mode' = [mode EXCEPT ![s] = "LIVE"]
               /\ UNCHANGED <<fills, rows, trades, worker, clear, audit, broken, failures>>
      <3>1. /\ clear.pc = "idle" /\ \A f \in FillIds : fills[f].state # "new"
            /\ \A t \in Strategies : mode'[t] = IF t = s THEN "LIVE" ELSE mode[t]
        BY <1>0, <2>2 DEF ClearBegins, Quiet
      <3>2. \A f \in FillIds :
                IF fills[f].paper THEN fills[f].tag # NoStrategy
                ELSE \A t \in Strategies : fills[f].tag \in {t, NoStrategy} => mode'[t] = "LIVE"
        BY <1>0, <3>1 DEF ModesOk
      <3>3. ASSUME NEW r \in RowIds
            PROVE  IF rows[r].paper
                   THEN /\ rows[r].tag # NoStrategy
                        /\ rows[r].qty # 0 => mode'[rows[r].tag] = "PAPER"
                   ELSE \E f \in FillIds : /\ ~fills[f].paper
                                           /\ fills[f].tag \in {rows[r].tag, NoStrategy}
        <4>1. rows[r].tag \in Tags
          BY Shapes DEF Row, RowIds
        <4>2. rows[r].paper /\ rows[r].qty # 0 => rows[r].tag # s
          BY <2>2 DEF PaperRows
        <4>3. IF rows[r].paper
              THEN rows[r].tag # NoStrategy /\ (rows[r].qty # 0 => mode[rows[r].tag] = "PAPER")
              ELSE \E f \in FillIds : /\ ~fills[f].paper
                                      /\ fills[f].tag \in {rows[r].tag, NoStrategy}
          BY <1>0 DEF ModesOk
        <4> QED
          BY <3>1, <4>1, <4>2, <4>3 DEF Tags
      <3>4. ModesOk'
        BY <2>2, <3>1, <3>2, <3>3 DEF ModesOk, FillIds, RowIds
      <3> QED
        BY <1>10, <2>2, <3>1, <3>4
    <2> QED
      BY <1>11, <2>1, <2>2 DEF GoLive
  <1>12. ASSUME NEW s \in Strategies, GoPaper(s) PROVE AloneInv'
    <2>1. /\ clear.pc = "idle" /\ \A f \in FillIds : fills[f].paper /\ fills[f].state # "new"
          /\ mode' = [mode EXCEPT ![s] = "PAPER"]
          /\ UNCHANGED <<fills, rows, trades, worker, clear, audit, broken, failures>>
      BY <1>0, <1>12 DEF GoPaper, ClearBegins, Quiet
    <2>2. \A t \in Strategies : mode[t] = "PAPER" => mode'[t] = "PAPER"
      BY <1>0, <2>1
    <2>3. \A f \in FillIds : fills[f].tag # NoStrategy
      BY <1>0, <2>1 DEF ModesOk
    <2>4. \A r \in RowIds :
              /\ rows[r].paper /\ rows[r].tag # NoStrategy
              /\ rows[r].qty # 0 => mode[rows[r].tag] = "PAPER"
              /\ rows[r].tag \in Tags
      BY <1>0, <2>1, Shapes DEF ModesOk, Row, RowIds
    <2>5. ModesOk'
      BY <2>1, <2>2, <2>3, <2>4 DEF ModesOk, FillIds, RowIds, Tags
    <2> QED
      BY <1>10, <2>1, <2>5
  <1>13. ASSUME PaperCheck PROVE AloneInv'
    <2>1. /\ clear' = [IdleClear EXCEPT !.pc = "delete"] /\ clear.pc = "idle" /\ Quiet
          /\ \A r \in RowIds : rows[r].paper => rows[r].qty = 0
          /\ UNCHANGED <<mode, fills, rows, trades, worker, audit, broken, failures>>
      BY <1>0, <1>13 DEF PaperCheck, ClearBegins
    <2>2. clear'.pc = "delete"
      BY <2>1 DEF IdleClear
    <2>3. ModesOk'
      BY <1>0, <2>1 DEF ModesOk, FillIds, RowIds
    <2>4. Quiet'
      BY <2>1 DEF Quiet, Busy, FillIds
    <2>5. ClearOk'
      BY <2>1, <2>2, <2>4 DEF ClearOk, RowIds
    <2>6. \A q \in RowIds : Cleared(q) => Cleared(q)' \/ q \in broken
      BY <2>1 DEF Cleared
    <2> QED
      BY <2>1, <2>3, <2>5, <2>6, OtherAlone
  <1>14. ASSUME PaperDelete PROVE AloneInv'
    BY <1>14, DeleteAlone
  <1>15. CASE UNCHANGED vars
    <2>1. ModesOk' /\ ClearOk'
      BY <1>0, <1>15 DEF vars, ModesOk, ClearOk, FillIds, RowIds, Quiet, Busy, OpenTrades
    <2>2. \A r \in RowIds : Cleared(r) => Cleared(r)' \/ r \in broken
      BY <1>15 DEF Cleared, vars
    <2> QED
      BY <1>15, <2>1, <2>2, OtherAlone DEF vars
  <1>16. NoStrategy \in Tags
    BY DEF Tags
  <1> QED
    BY <1>1, <1>3, <1>4, <1>5, <1>6, <1>7, <1>8, <1>9, <1>11, <1>12, <1>13, <1>14, <1>15,
       <1>16, Zenon DEF Next

LEMMA AloneInit ==
    ASSUME Init
    PROVE  AloneInv
  <1>1. FillIds = {} /\ RowIds = {} /\ clear.pc = "idle"
    BY DEF Init, FillIds, RowIds, IdleClear
  <1> QED
    BY <1>1 DEF AloneInv, BooksInv, ModesOk, ClearOk, OwnBooks, MatchInv

\* Paper and live keep to their rows, and every row to its open trade, when clears
\* run on a quiet contract that is not traded on paper and live at a time.
THEOREM BooksKeptApart == OneBook => (Spec => [](TypeOK /\ BaseInv /\ AloneInv))
  <1>1. Init => TypeOK /\ BaseInv /\ AloneInv
    BY BaseInit, AloneInit
  <1>2. OneBook /\ TypeOK /\ BaseInv /\ AloneInv /\ [Next]_vars
            => TypeOK' /\ BaseInv' /\ AloneInv'
    BY BaseStep, AloneStep
  <1> SUFFICES ASSUME OneBook PROVE Spec => [](TypeOK /\ BaseInv /\ AloneInv)
    OBVIOUS
  <1>3. TypeOK /\ BaseInv /\ AloneInv /\ [Next]_vars => TypeOK' /\ BaseInv' /\ AloneInv'
    BY <1>2
  <1> QED
    BY <1>1, <1>3, PTL DEF Spec

\* When clears run on a quiet contract of one book, an open position has exactly one
\* open trade, in its direction, for its quantity, and a flat one has none, through
\* reversals, clears and concurrent first fills (syncTrade), for every number of
\* strategies, workers, fills and failures.
THEOREM TradesMatchRowsHolds == OneBook => (Spec => []TradesMatchRows)
  <1>1. AloneInv => TradesMatchRows
    BY DEF AloneInv, MatchInv, Matches, Fits, OpenIn, OpenTrades, Cleared, TradesMatchRows,
           Settled
  <1> SUFFICES ASSUME OneBook PROVE Spec => []TradesMatchRows
    OBVIOUS
  <1>2. Spec => [](TypeOK /\ BaseInv /\ AloneInv)
    BY BooksKeptApart
  <1> QED
    BY <1>1, <1>2, PTL

-----------------------------------------------------------------------------
(***************************************************************************)
(* What the fills, trades and clears of a row add up to                    *)
(***************************************************************************)

\* The books of row r in a table of fills, of trades and of audit events.
FillsIn(T, r, paper)  == {f \in DOMAIN T : T[f].row = r /\ T[f].paper = paper}
LiveIn(T, r)          == {f \in DOMAIN T : T[f].state = "applied" /\ T[f].row = r /\ ~T[f].paper}
TradesIn(T, r, paper) == {t \in DOMAIN T : T[t].row = r /\ T[t].paper = paper /\ ~T[t].gone}
ClearsIn(A, r, paper) == {e \in DOMAIN A : A[e].row = r /\ A[e].paper = paper}

QtyIn(T, ids)     == SumFunctionOnSet([f \in ids |-> T[f].qty], ids)
DeltaIn(T, ids)   == SumFunctionOnSet([f \in ids |-> T[f].delta], ids)
CashIn(T, ids)    == SumFunctionOnSet([f \in ids |-> -(T[f].qty * T[f].price)], ids)
RoundIn(T, ids)   == SumFunctionOnSet([f \in ids |-> IF T[f].kind = "INCREASED"
                                                     THEN Abs(T[f].after) ELSE 0], ids)
GrossIn(T, ids)   == SumFunctionOnSet([t \in ids |-> T[t].gross], ids)
ClearedIn(A, ids) == SumFunctionOnSet([e \in ids |-> A[e].qty], ids)

LEMMA SumsNone ==
    ASSUME NEW T
    PROVE  /\ QtyIn(T, {}) = 0 /\ DeltaIn(T, {}) = 0 /\ CashIn(T, {}) = 0 /\ RoundIn(T, {}) = 0
           /\ GrossIn(T, {}) = 0 /\ ClearedIn(T, {}) = 0
  BY SumNone DEF QtyIn, DeltaIn, CashIn, RoundIn, GrossIn, ClearedIn

\* What one fill adds to each sum.
LEMMA FillTerms ==
    ASSUME NEW e \in Fill
    PROVE  /\ e.qty \in Int /\ e.delta \in Int /\ -(e.qty * e.price) \in Int
           /\ (IF e.kind = "INCREASED" THEN Abs(e.after) ELSE 0) \in Int
  <1>1. e.qty \in Int /\ e.delta \in Int /\ e.price \in Nat /\ e.after \in Int
    BY DEF Fill
  <1> QED
    BY <1>1 DEF Abs

LEMMA FillSumsType ==
    ASSUME NEW T, NEW S, IsFiniteSet(S), \A x \in S : T[x] \in Fill
    PROVE  /\ QtyIn(T, S) \in Int /\ DeltaIn(T, S) \in Int /\ CashIn(T, S) \in Int
           /\ RoundIn(T, S) \in Int
  <1> DEFINE q == [x \in S |-> T[x].qty]
             d == [x \in S |-> T[x].delta]
             c == [x \in S |-> -(T[x].qty * T[x].price)]
             n == [x \in S |-> IF T[x].kind = "INCREASED" THEN Abs(T[x].after) ELSE 0]
  <1>1. \A x \in S : q[x] \in Int /\ d[x] \in Int /\ c[x] \in Int /\ n[x] \in Int
    BY FillTerms
  <1> HIDE DEF q, d, c, n
  <1>2. \A fun : (\A x \in S : fun[x] \in Int) => SumFunctionOnSet(fun, S) \in Int
    BY SumType
  <1>3. /\ SumFunctionOnSet(q, S) \in Int /\ SumFunctionOnSet(d, S) \in Int
        /\ SumFunctionOnSet(c, S) \in Int /\ SumFunctionOnSet(n, S) \in Int
    BY <1>1, <1>2, Zenon
  <1> QED
    BY <1>3 DEF QtyIn, DeltaIn, CashIn, RoundIn, q, d, c, n

\* Sums over the same fills are the same.
LEMMA FillSumsSame ==
    ASSUME NEW T, NEW U, NEW S, IsFiniteSet(S),
           \A x \in S : /\ U[x].qty = T[x].qty /\ U[x].delta = T[x].delta
                        /\ U[x].price = T[x].price /\ U[x].kind = T[x].kind
                        /\ U[x].after = T[x].after
    PROVE  /\ QtyIn(U, S) = QtyIn(T, S) /\ DeltaIn(U, S) = DeltaIn(T, S)
           /\ CashIn(U, S) = CashIn(T, S) /\ RoundIn(U, S) = RoundIn(T, S)
  <1>1. [x \in S |-> U[x].qty] = [x \in S |-> T[x].qty]
    OBVIOUS
  <1>2. [x \in S |-> U[x].delta] = [x \in S |-> T[x].delta]
    OBVIOUS
  <1>3. [x \in S |-> -(U[x].qty * U[x].price)] = [x \in S |-> -(T[x].qty * T[x].price)]
    OBVIOUS
  <1>4. [x \in S |-> IF U[x].kind = "INCREASED" THEN Abs(U[x].after) ELSE 0]
            = [x \in S |-> IF T[x].kind = "INCREASED" THEN Abs(T[x].after) ELSE 0]
    OBVIOUS
  <1> QED
    BY <1>1, <1>2, <1>3, <1>4, Zenon DEF QtyIn, DeltaIn, CashIn, RoundIn

\* Sums with one more fill.
MoreSums(T, U, S, x) ==
    /\ QtyIn(U, S \cup {x}) = QtyIn(T, S) + U[x].qty
    /\ DeltaIn(U, S \cup {x}) = DeltaIn(T, S) + U[x].delta
    /\ CashIn(U, S \cup {x}) = CashIn(T, S) + -(U[x].qty * U[x].price)
    /\ RoundIn(U, S \cup {x}) = RoundIn(T, S) + (IF U[x].kind = "INCREASED"
                                                 THEN Abs(U[x].after) ELSE 0)

LEMMA FillSumsMore ==
    ASSUME NEW T, NEW U, NEW S, IsFiniteSet(S), NEW x, x \notin S, U[x] \in Fill,
           \A y \in S : T[y] \in Fill /\ U[y] = T[y]
    PROVE  MoreSums(T, U, S, x)
  <1> DEFINE R  == S \cup {x}
             q  == [y \in S |-> T[y].qty]
             q2 == [y \in R |-> U[y].qty]
             d  == [y \in S |-> T[y].delta]
             d2 == [y \in R |-> U[y].delta]
             c  == [y \in S |-> -(T[y].qty * T[y].price)]
             c2 == [y \in R |-> -(U[y].qty * U[y].price)]
             n  == [y \in S |-> IF T[y].kind = "INCREASED" THEN Abs(T[y].after) ELSE 0]
             n2 == [y \in R |-> IF U[y].kind = "INCREASED" THEN Abs(U[y].after) ELSE 0]
  <1>1. \A f, g : (\A y \in S : f[y] \in Int /\ g[y] = f[y]) /\ g[x] \in Int =>
            SumFunctionOnSet(g, S \cup {x}) = SumFunctionOnSet(f, S) + g[x]
    BY SumMore
  <1>2. /\ \A y \in S : q[y] \in Int /\ q2[y] = q[y]
        /\ q2[x] \in Int /\ q2[x] = U[x].qty
    BY FillTerms
  <1>3. /\ \A y \in S : d[y] \in Int /\ d2[y] = d[y]
        /\ d2[x] \in Int /\ d2[x] = U[x].delta
    BY FillTerms
  <1>4. /\ \A y \in S : c[y] \in Int /\ c2[y] = c[y]
        /\ c2[x] \in Int /\ c2[x] = -(U[x].qty * U[x].price)
    BY FillTerms
  <1>5. /\ \A y \in S : n[y] \in Int /\ n2[y] = n[y]
        /\ n2[x] \in Int /\ n2[x] = IF U[x].kind = "INCREASED" THEN Abs(U[x].after) ELSE 0
    BY FillTerms
  <1> HIDE DEF q, q2, d, d2, c, c2, n, n2
  <1>6. /\ SumFunctionOnSet(q2, R) = SumFunctionOnSet(q, S) + q2[x]
        /\ SumFunctionOnSet(d2, R) = SumFunctionOnSet(d, S) + d2[x]
        /\ SumFunctionOnSet(c2, R) = SumFunctionOnSet(c, S) + c2[x]
        /\ SumFunctionOnSet(n2, R) = SumFunctionOnSet(n, S) + n2[x]
    BY <1>1, <1>2, <1>3, <1>4, <1>5, Zenon
  <1>7. /\ QtyIn(U, R) = SumFunctionOnSet(q2, R) /\ QtyIn(T, S) = SumFunctionOnSet(q, S)
        /\ DeltaIn(U, R) = SumFunctionOnSet(d2, R) /\ DeltaIn(T, S) = SumFunctionOnSet(d, S)
        /\ CashIn(U, R) = SumFunctionOnSet(c2, R) /\ CashIn(T, S) = SumFunctionOnSet(c, S)
        /\ RoundIn(U, R) = SumFunctionOnSet(n2, R) /\ RoundIn(T, S) = SumFunctionOnSet(n, S)
    BY Zenon DEF QtyIn, DeltaIn, CashIn, RoundIn, q, q2, d, d2, c, c2, n, n2
  <1> HIDE DEF R
  <1>8. /\ QtyIn(U, R) = QtyIn(T, S) + U[x].qty
        /\ DeltaIn(U, R) = DeltaIn(T, S) + U[x].delta
        /\ CashIn(U, R) = CashIn(T, S) + -(U[x].qty * U[x].price)
        /\ RoundIn(U, R) = RoundIn(T, S) + (IF U[x].kind = "INCREASED"
                                            THEN Abs(U[x].after) ELSE 0)
    BY <1>2, <1>3, <1>4, <1>5, <1>6, <1>7, Zenon
  <1> QED
    BY <1>8, Zenon DEF R, MoreSums

LEMMA ClearedMore ==
    ASSUME NEW A, NEW B, NEW S, IsFiniteSet(S), NEW x, x \notin S, B[x].qty \in Int,
           \A y \in S : A[y].qty \in Int /\ B[y] = A[y]
    PROVE  /\ ClearedIn(B, S \cup {x}) = ClearedIn(A, S) + B[x].qty
           /\ ClearedIn(B, S) = ClearedIn(A, S) /\ ClearedIn(A, S) \in Int
  <1> DEFINE R == S \cup {x}
             f == [y \in S |-> A[y].qty]
             g == [y \in R |-> B[y].qty]
             h == [y \in S |-> B[y].qty]
  <1>1. /\ \A y \in S : f[y] \in Int /\ g[y] = f[y]
        /\ g[x] \in Int /\ g[x] = B[x].qty /\ h = f
    OBVIOUS
  <1> HIDE DEF f, g, h
  <1>2. SumFunctionOnSet(g, S \cup {x}) = SumFunctionOnSet(f, S) + g[x]
    BY <1>1, SumMore
  <1>3. SumFunctionOnSet(f, S) \in Int
    BY <1>1, SumType
  <1> QED
    BY <1>1, <1>2, <1>3, Zenon DEF ClearedIn, f, g, h

LEMMA GrossSame ==
    ASSUME NEW T, NEW U, NEW S, IsFiniteSet(S), \A x \in S : U[x].gross = T[x].gross
    PROVE  GrossIn(U, S) = GrossIn(T, S)
  <1>1. [x \in S |-> U[x].gross] = [x \in S |-> T[x].gross]
    OBVIOUS
  <1> QED
    BY <1>1, Zenon DEF GrossIn

\* One trade of a set took a profit or loss.
LEMMA GrossMoved ==
    ASSUME NEW T, NEW U, NEW S, IsFiniteSet(S), NEW x \in S, U[x].gross \in Int,
           \A y \in S : T[y].gross \in Int, \A y \in S \ {x} : U[y] = T[y]
    PROVE  GrossIn(U, S) = GrossIn(T, S) + (U[x].gross - T[x].gross)
  <1> DEFINE f == [y \in S |-> T[y].gross]
             g == [y \in S |-> U[y].gross]
  <1>1. /\ \A y \in S : f[y] \in Int /\ f[y] = T[y].gross
        /\ \A y \in S \ {x} : g[y] = f[y]
        /\ g[x] \in Int /\ g[x] = U[x].gross
    OBVIOUS
  <1> HIDE DEF f, g
  <1>2. SumFunctionOnSet(g, S) = SumFunctionOnSet(f, S) + (g[x] - f[x])
    BY <1>1, SumMoved
  <1>3. f[x] = T[x].gross
    BY <1>1
  <1> QED
    BY <1>1, <1>2, <1>3, Zenon DEF GrossIn, f, g

LEMMA GrossMore ==
    ASSUME NEW T, NEW S, IsFiniteSet(S), NEW x, x \notin S, T[x].gross = 0,
           \A y \in S : T[y].gross \in Int
    PROVE  GrossIn(T, S \cup {x}) = GrossIn(T, S) /\ GrossIn(T, S) \in Int
  <1> DEFINE R == S \cup {x}
             f == [y \in S |-> T[y].gross]
             g == [y \in R |-> T[y].gross]
  <1>1. (\A y \in S : f[y] \in Int /\ g[y] = f[y]) /\ g[x] = 0
    OBVIOUS
  <1> HIDE DEF f, g
  <1>2. SumFunctionOnSet(g, S \cup {x}) = SumFunctionOnSet(f, S) + 0
    BY <1>1, SumMore
  <1>3. SumFunctionOnSet(f, S) \in Int
    BY <1>1, SumType
  <1>4. SumFunctionOnSet(g, S \cup {x}) = SumFunctionOnSet(f, S)
    BY <1>2, <1>3
  <1> QED
    BY <1>3, <1>4, Zenon DEF GrossIn, f, g

-----------------------------------------------------------------------------
(***************************************************************************)
(* Quantity, realized P&L and cash of a row                                *)
(***************************************************************************)

\* The quantity of a row, or what a clear is about to report.
Known(r) == IF Cleared(r) THEN clear.qty ELSE rows[r].qty

QtyInv ==
    \A r \in RowIds \ broken :
        Known(r) = QtyIn(fills, FillsIn(fills, r, rows[r].paper))
                      - ClearedIn(audit, ClearsIn(audit, r, rows[r].paper))

\* Realized P&L is that of the row's trades, and a live row's can be worked out
\* from its events alone.
GrossInv ==
    \A r \in RowIds :
        /\ rows[r].realized = GrossIn(trades, TradesIn(trades, r, rows[r].paper))
        /\ ~rows[r].paper => rows[r].realized = DeltaIn(fills, LiveIn(fills, r))

\* Realized P&L less the open quantity at its average is the cash, but for the
\* rounding of the average.
CashInv ==
    \A r \in RowIds \ broken :
        ~Cleared(r) /\ ClearsIn(audit, r, rows[r].paper) = {} =>
            LET mine == FillsIn(fills, r, rows[r].paper)
            IN  2 * Abs(rows[r].realized - CashIn(fills, mine) - rows[r].qty * rows[r].avg)
                    <= RoundIn(fills, mine)

SumsInv == QtyInv /\ GrossInv /\ CashInv

\* A step that leaves every book that is still there as it was.
LEMMA KeepSums ==
    ASSUME TypeOK, TypeOK', BaseInv, SumsInv, audit' = audit, broken \subseteq broken',
           RowIds' \subseteq RowIds,
           \A r \in RowIds' : /\ rows'[r].paper = rows[r].paper
                              /\ rows'[r].realized = rows[r].realized
                              /\ rows'[r].avg = rows[r].avg,
           \A r \in RowIds' \ broken' :
              /\ Known(r)' = Known(r)
              /\ ~Cleared(r)' => ~Cleared(r) /\ rows'[r].qty = rows[r].qty,
           \A r \in RowIds', p \in BOOLEAN : FillsIn(fills', r, p) = FillsIn(fills, r, p),
           \A r \in RowIds' : LiveIn(fills', r) = LiveIn(fills, r),
           \A f \in FillIds : /\ fills'[f].qty = fills[f].qty /\ fills'[f].delta = fills[f].delta
                              /\ fills'[f].price = fills[f].price
                              /\ fills'[f].kind = fills[f].kind
                              /\ fills'[f].after = fills[f].after,
           \A r \in RowIds' :
              /\ TradesIn(trades', r, rows[r].paper) = TradesIn(trades, r, rows[r].paper)
              /\ \A t \in TradesIn(trades, r, rows[r].paper) : trades'[t].gross = trades[t].gross
    PROVE  SumsInv'
  <1>1. /\ \A r, p : IsFiniteSet(FillsIn(fills, r, p)) /\ FillsIn(fills, r, p) \subseteq FillIds
        /\ \A r : IsFiniteSet(LiveIn(fills, r)) /\ LiveIn(fills, r) \subseteq FillIds
        /\ \A r, p : IsFiniteSet(TradesIn(trades, r, p))
    <2>1. /\ \A r, p : FillsIn(fills, r, p) \subseteq FillIds
          /\ \A r : LiveIn(fills, r) \subseteq FillIds
          /\ \A r, p : TradesIn(trades, r, p) \subseteq DOMAIN trades
      BY DEF FillsIn, LiveIn, TradesIn, FillIds
    <2> QED
      BY <2>1, Shapes, FS_Subset
  <1>2. ASSUME NEW S \in SUBSET FillIds, IsFiniteSet(S)
        PROVE  /\ QtyIn(fills', S) = QtyIn(fills, S) /\ DeltaIn(fills', S) = DeltaIn(fills, S)
               /\ CashIn(fills', S) = CashIn(fills, S) /\ RoundIn(fills', S) = RoundIn(fills, S)
    <2>1. \A x \in S : /\ fills'[x].qty = fills[x].qty /\ fills'[x].delta = fills[x].delta
                       /\ fills'[x].price = fills[x].price /\ fills'[x].kind = fills[x].kind
                       /\ fills'[x].after = fills[x].after
      OBVIOUS
    <2> QED
      BY <1>2, <2>1, FillSumsSame
  <1>3. \A r \in RowIds' : rows[r].paper \in BOOLEAN
    BY Shapes DEF Row, RowIds
  <1>4. QtyInv'
    <2>1. ASSUME NEW r \in RowIds' \ broken'
          PROVE  Known(r)' = QtyIn(fills', FillsIn(fills', r, rows'[r].paper))
                                - ClearedIn(audit', ClearsIn(audit', r, rows'[r].paper))
      <3> DEFINE p == rows[r].paper
                 S == FillsIn(fills, r, p)
      <3>1. r \in RowIds \ broken /\ p \in BOOLEAN
        BY <1>3
      <3>2. Known(r) = QtyIn(fills, S) - ClearedIn(audit, ClearsIn(audit, r, p))
        BY <3>1 DEF SumsInv, QtyInv
      <3>3. rows'[r].paper = p /\ FillsIn(fills', r, p) = S /\ Known(r)' = Known(r)
        BY <3>1
      <3>4. QtyIn(fills', S) = QtyIn(fills, S)
        BY <1>1, <1>2
      <3> HIDE DEF p, S
      <3> QED
        BY <3>2, <3>3, <3>4
    <2> QED
      BY <2>1 DEF QtyInv
  <1>5. GrossInv'
    <2>1. ASSUME NEW r \in RowIds'
          PROVE  /\ rows'[r].realized = GrossIn(trades', TradesIn(trades', r, rows'[r].paper))
                 /\ ~rows'[r].paper => rows'[r].realized = DeltaIn(fills', LiveIn(fills', r))
      <3> DEFINE p == rows[r].paper
                 S == TradesIn(trades, r, p)
                 L == LiveIn(fills, r)
      <3>1. /\ rows[r].realized = GrossIn(trades, S)
            /\ ~p => rows[r].realized = DeltaIn(fills, L)
        BY DEF SumsInv, GrossInv
      <3>2. /\ rows'[r].paper = p /\ rows'[r].realized = rows[r].realized
            /\ TradesIn(trades', r, p) = S /\ LiveIn(fills', r) = L
        OBVIOUS
      <3>3. DeltaIn(fills', L) = DeltaIn(fills, L)
        BY <1>1, <1>2
      <3>4. GrossIn(trades', S) = GrossIn(trades, S)
        <4>1. IsFiniteSet(S) /\ \A t \in S : trades'[t].gross = trades[t].gross
          BY <1>1
        <4> HIDE DEF S
        <4> QED
          BY <4>1, GrossSame
      <3> HIDE DEF p, S, L
      <3> QED
        BY <3>1, <3>2, <3>3, <3>4
    <2> QED
      BY <2>1 DEF GrossInv
  <1>6. CashInv'
    <2>1. ASSUME NEW r \in RowIds' \ broken', ~Cleared(r)',
                 ClearsIn(audit', r, rows'[r].paper) = {}
          PROVE  2 * Abs(rows'[r].realized - CashIn(fills', FillsIn(fills', r, rows'[r].paper))
                            - rows'[r].qty * rows'[r].avg)
                     <= RoundIn(fills', FillsIn(fills', r, rows'[r].paper))
      <3> DEFINE p == rows[r].paper
                 S == FillsIn(fills, r, p)
      <3>1. /\ r \in RowIds \ broken /\ p \in BOOLEAN /\ ~Cleared(r)
            /\ rows'[r].qty = rows[r].qty /\ rows'[r].avg = rows[r].avg
            /\ rows'[r].realized = rows[r].realized /\ rows'[r].paper = p
            /\ FillsIn(fills', r, p) = S
        BY <1>3, <2>1
      <3>2. 2 * Abs(rows[r].realized - CashIn(fills, S) - rows[r].qty * rows[r].avg)
                <= RoundIn(fills, S)
        BY <2>1, <3>1 DEF SumsInv, CashInv
      <3>3. CashIn(fills', S) = CashIn(fills, S) /\ RoundIn(fills', S) = RoundIn(fills, S)
        BY <1>1, <1>2
      <3> HIDE DEF p, S
      <3> QED
        BY <3>1, <3>2, <3>3, Zenon
    <2> QED
      BY <2>1 DEF CashInv
  <1> QED
    BY <1>4, <1>5, <1>6 DEF SumsInv

\* The UPDATE of the open trades reports what the row held.
LEMMA TradesSums ==
    ASSUME TypeOK, BaseInv, AloneInv, SumsInv, ClearTrades
    PROVE  SumsInv'
  <1> DEFINE c == clear.row
             n == Len(audit) + 1
  <1>1. /\ clear.pc = "trades" /\ c \in RowIds /\ DOMAIN trades' = DOMAIN trades
        /\ \A t \in DOMAIN trades : /\ trades'[t].row = trades[t].row
                                    /\ trades'[t].paper = trades[t].paper
                                    /\ trades'[t].gross = trades[t].gross
                                    /\ trades'[t].gone = trades[t].gone
        /\ DOMAIN audit' = DOMAIN audit \cup {n} /\ n \notin DOMAIN audit
        /\ \A e \in DOMAIN audit : audit'[e] = audit[e]
        /\ audit'[n].row = c /\ audit'[n].qty = clear.qty
        /\ audit'[n].paper = rows[c].paper /\ clear' = IdleClear
        /\ UNCHANGED <<fills, rows, worker, broken, clears, failures>>
    BY TradesCleared
  <1>2. rows[c].qty = 0 /\ c \notin broken /\ \A r : ~Cleared(r)' /\ clear.qty \in Int
    <2>1. clear'.pc = "idle"
      BY <1>1 DEF IdleClear
    <2> QED
      BY <1>1, <2>1 DEF AloneInv, BooksInv, ClearOk, Cleared, TypeOK
  <1> HIDE DEF n
  <1>3. \A r, p : /\ ClearsIn(audit, r, p) \subseteq DOMAIN audit
                  /\ IsFiniteSet(ClearsIn(audit, r, p))
                  /\ ClearsIn(audit', r, p) = IF r = c /\ p = rows[c].paper
                                              THEN ClearsIn(audit, r, p) \cup {n}
                                              ELSE ClearsIn(audit, r, p)
    <2>1. \A r, p : ClearsIn(audit, r, p) \subseteq DOMAIN audit
      BY DEF ClearsIn
    <2>2. \A r, p : IsFiniteSet(ClearsIn(audit, r, p))
      BY <2>1, Shapes, FS_Subset
    <2>3. \A r, p : ClearsIn(audit', r, p) = IF r = c /\ p = rows[c].paper
                                             THEN ClearsIn(audit, r, p) \cup {n}
                                             ELSE ClearsIn(audit, r, p)
      <3> HIDE DEF c
      <3> QED
        BY <1>1 DEF ClearsIn
    <2> QED
      BY <2>1, <2>2, <2>3
  <1>4. \A r, p : LET S == ClearsIn(audit, r, p)
                  IN  /\ ClearedIn(audit', S \cup {n}) = ClearedIn(audit, S) + clear.qty
                      /\ ClearedIn(audit', S) = ClearedIn(audit, S)
                      /\ ClearedIn(audit, S) \in Int
    <2> TAKE r, p
    <2> DEFINE S == ClearsIn(audit, r, p)
    <2>1. /\ IsFiniteSet(S) /\ n \notin S /\ audit'[n].qty \in Int
          /\ \A y \in S : audit[y].qty \in Int /\ audit'[y] = audit[y]
      BY <1>1, <1>2, <1>3, Shapes
    <2> HIDE DEF S
    <2>2. /\ ClearedIn(audit', S \cup {n}) = ClearedIn(audit, S) + audit'[n].qty
          /\ ClearedIn(audit', S) = ClearedIn(audit, S) /\ ClearedIn(audit, S) \in Int
      <3>1. \A A, B : B[n].qty \in Int /\ (\A y \in S : A[y].qty \in Int /\ B[y] = A[y]) =>
                /\ ClearedIn(B, S \cup {n}) = ClearedIn(A, S) + B[n].qty
                /\ ClearedIn(B, S) = ClearedIn(A, S) /\ ClearedIn(A, S) \in Int
        <4> SUFFICES ASSUME NEW A, NEW B, B[n].qty \in Int,
                            \A y \in S : A[y].qty \in Int /\ B[y] = A[y]
                     PROVE  /\ ClearedIn(B, S \cup {n}) = ClearedIn(A, S) + B[n].qty
                            /\ ClearedIn(B, S) = ClearedIn(A, S) /\ ClearedIn(A, S) \in Int
          OBVIOUS
        <4>1. IsFiniteSet(S) /\ n \notin S
          BY <2>1
        <4> QED
          BY <4>1, ClearedMore
      <3> QED
        BY <2>1, <3>1
    <2> QED
      BY <1>1, <2>2 DEF S
  <1>5. QtyInv'
    <2>1. ASSUME NEW r \in RowIds \ broken
          PROVE  rows[r].qty = QtyIn(fills, FillsIn(fills, r, rows[r].paper))
                                  - ClearedIn(audit', ClearsIn(audit', r, rows[r].paper))
      <3> DEFINE q == QtyIn(fills, FillsIn(fills, r, rows[r].paper))
                 S == ClearsIn(audit, r, rows[r].paper)
      <3>1. Known(r) = q - ClearedIn(audit, S)
        BY DEF SumsInv, QtyInv
      <3>2. q \in Int
        <4>1. FillsIn(fills, r, rows[r].paper) \subseteq FillIds
          BY DEF FillsIn, FillIds
        <4> QED
          BY <4>1, Shapes, FS_Subset, FillSumsType
      <3> HIDE DEF q
      <3>3. CASE r = c
        <4>1. Known(r) = clear.qty
          BY <1>1, <3>3 DEF Known, Cleared
        <4>2. ClearedIn(audit', ClearsIn(audit', r, rows[r].paper)) = ClearedIn(audit, S) + clear.qty
          <5>1. ClearsIn(audit', r, rows[r].paper) = S \cup {n}
            BY <1>3, <3>3
          <5> QED
            BY <1>4, <5>1
        <4>3. ClearedIn(audit, S) \in Int
          BY <1>4
        <4> HIDE DEF S
        <4> QED
          BY <1>2, <3>1, <3>2, <3>3, <4>1, <4>2, <4>3 DEF q
      <3>4. CASE r # c
        <4>1. Known(r) = rows[r].qty
          BY <3>4 DEF Known, Cleared
        <4>2. ClearedIn(audit', ClearsIn(audit', r, rows[r].paper)) = ClearedIn(audit, S)
          BY <1>3, <1>4, <3>4
        <4> HIDE DEF S
        <4> QED
          BY <3>1, <4>1, <4>2 DEF q
      <3> QED
        BY <3>3, <3>4
    <2> QED
      BY <1>1, <1>2, <2>1 DEF QtyInv, Known, RowIds
  <1>6. GrossInv'
    <2>1. ASSUME NEW r \in RowIds
          PROVE  GrossIn(trades', TradesIn(trades', r, rows[r].paper))
                     = GrossIn(trades, TradesIn(trades, r, rows[r].paper))
      <3> DEFINE S == TradesIn(trades, r, rows[r].paper)
      <3>1. TradesIn(trades', r, rows[r].paper) = S
        BY <1>1 DEF TradesIn
      <3>2. S \subseteq DOMAIN trades
        BY DEF TradesIn
      <3>3. IsFiniteSet(S) /\ \A t \in S : trades'[t].gross = trades[t].gross
        BY <1>1, <3>2, Shapes, FS_Subset
      <3> HIDE DEF S
      <3>4. GrossIn(trades', S) = GrossIn(trades, S)
        BY <3>3, GrossSame
      <3> QED
        BY <3>1, <3>4 DEF S
    <2> QED
      BY <1>1, <2>1 DEF SumsInv, GrossInv, RowIds
  <1>7. CashInv'
    <2>1. ASSUME NEW r \in RowIds \ broken, ClearsIn(audit', r, rows[r].paper) = {}
          PROVE  2 * Abs(rows[r].realized - CashIn(fills, FillsIn(fills, r, rows[r].paper))
                            - rows[r].qty * rows[r].avg)
                     <= RoundIn(fills, FillsIn(fills, r, rows[r].paper))
      <3>1. r # c /\ ClearsIn(audit, r, rows[r].paper) = {}
        BY <1>3, <2>1
      <3>2. ~Cleared(r)
        BY <3>1 DEF Cleared
      <3> QED
        BY <3>1, <3>2 DEF SumsInv, CashInv
    <2> QED
      BY <1>1, <2>1 DEF CashInv, RowIds
  <1> QED
    BY <1>5, <1>6, <1>7 DEF SumsInv

\* Money is rounded by at most half a unit per share (moneyDivQty).
LEMMA DivNear ==
    ASSUME NEW value \in Int, NEW n \in Nat \ {0}
    PROVE  LET m == moneyDivQty(value, n)
           IN  m \in Int /\ 2 * (n * m - value) <= n /\ -n <= 2 * (n * m - value)
  <1> DEFINE a == Abs(value)
             h == n \div 2
             k == (a + h) \div n
             m == moneyDivQty(value, n)
  <1>1. a \in Nat /\ (value < 0 => a = -value) /\ (value >= 0 => a = value)
    BY DEF Abs
  <1>2. h \in Int /\ 2 * h <= n /\ n <= 2 * h + 1
    OBVIOUS
  <1>3. m = IF value < 0 THEN -k ELSE k
    BY DEF moneyDivQty
  <1> HIDE DEF a, h, m
  <1>4. k \in Int /\ n * k <= a + h /\ a + h < n * k + n
    <2>1. \A x \in Int : (x \div n) \in Int /\ n * (x \div n) <= x /\ x < n * (x \div n) + n
      OBVIOUS
    <2>2. a + h \in Int
      BY <1>1, <1>2
    <2> QED
      BY <2>1, <2>2
  <1> HIDE DEF k
  <1>5. PICK z \in Int : z = n * k
    BY <1>4
  <1>6. 2 * (z - a) <= n /\ -n <= 2 * (z - a)
    BY <1>1, <1>2, <1>4, <1>5
  <1>7. m \in Int /\ n * m = IF value < 0 THEN -z ELSE z
    BY <1>3, <1>4, <1>5
  <1>8. PICK y \in Int : y = n * m
    BY <1>7
  <1>9. 2 * (y - value) <= n /\ -n <= 2 * (y - value)
    BY <1>1, <1>6, <1>7, <1>8
  <1> QED
    BY <1>7, <1>8, <1>9 DEF m

\* An application moves money between cash, open position and realized P&L and
\* loses what averaging rounds off.
LEMMA CashMove ==
    ASSUME NEW pos, NEW q \in Int, pos.qty = q, NEW a \in Int, pos.avg = a,
           NEW s \in Int, s # 0, NEW p \in Int
    PROVE  LET e == realizedDelta(pos, s, p) + s * p + q * a - (q + s) * averageAfter(pos, s, p)
               k == IF fillKind(q, s) = "INCREASED" THEN Abs(q + s) ELSE 0
           IN  e \in Int /\ k \in Int /\ 2 * e <= k /\ -k <= 2 * e
  <1> DEFINE d == realizedDelta(pos, s, p)
             m == averageAfter(pos, s, p)
             e == d + s * p + q * a - (q + s) * m
             c == closedQty(q, s)
             k == IF fillKind(q, s) = "INCREASED" THEN Abs(q + s) ELSE 0
  <1>1. d = IF q > 0 THEN (p - a) * c ELSE (a - p) * c
    BY DEF realizedDelta, realizedOnClose
  <1>2. CASE fillKind(q, s) = "INCREASED"
    <2> DEFINE n == Abs(q) + Abs(s)
               v == a * Abs(q) + p * Abs(s)
    <2>1. /\ c = 0 /\ (q > 0) = (q + s > 0) /\ q # 0 /\ Abs(q + s) = n
          /\ n \in Nat \ {0} /\ Abs(q) \in Nat /\ Abs(s) \in Nat /\ v \in Int
          /\ (q > 0) = (s > 0)
      <3>1. c = 0 /\ (q > 0) = (q + s > 0) /\ q # 0 /\ Abs(q + s) = n
        BY <1>2, Kinds
      <3>2. Abs(q) \in Nat /\ Abs(s) \in Nat /\ n \in Nat \ {0}
        BY DEF Abs
      <3>3. v \in Int
        BY <3>2
      <3>4. (q > 0) = (s > 0)
        BY <1>2 DEF fillKind, SignOf
      <3> QED
        BY <3>1, <3>2, <3>3, <3>4
    <2>2. m = moneyDivQty(v, n)
      BY <1>2 DEF averageAfter
    <2> HIDE DEF c, m, d, n, v
    <2>3. m \in Int /\ 2 * (n * m - v) <= n /\ -n <= 2 * (n * m - v)
      BY <2>1, <2>2, DivNear
    <2>4. d = 0
      BY <1>1, <2>1
    <2>5. e = IF q > 0 THEN v - n * m ELSE -(v - n * m)
      <3>1. CASE q > 0
        <4>1. n = q + s /\ v = a * q + p * s
          BY <2>1, <3>1 DEF n, v, Abs
        <4> QED
          BY <2>3, <2>4, <3>1, <4>1
      <3>2. CASE ~(q > 0)
        <4>1. n = -q + -s /\ v = a * (-q) + p * (-s)
          BY <2>1, <3>2 DEF n, v, Abs
        <4> QED
          BY <2>3, <2>4, <3>2, <4>1
      <3> QED
        BY <3>1, <3>2
    <2>6. k = n
      BY <1>2, <2>1
    <2>7. PICK y \in Int : y = n * m
      BY <2>1, <2>3
    <2>8. e \in Int /\ k \in Int /\ 2 * e <= k /\ -k <= 2 * e
      BY <2>1, <2>3, <2>5, <2>6, <2>7
    <2> QED
      BY <2>8 DEF d, m
  <1>3. CASE fillKind(q, s) \in {"OPENED", "REDUCED", "CLOSED", "REVERSED"}
    <2>1. k = 0
      BY <1>3
    <2>2. e = 0
      <3>1. CASE fillKind(q, s) = "OPENED"
        <4>1. q = 0 /\ c = 0 /\ m = p
          BY <3>1, Kinds DEF averageAfter
        <4> HIDE DEF c, m, d
        <4>2. d = 0
          BY <1>1, <4>1
        <4> QED
          BY <4>1, <4>2
      <3>2. CASE fillKind(q, s) = "REDUCED"
        <4>1. c = Abs(s) /\ m = a /\ (q > 0) = (s < 0)
          BY <3>2, Kinds DEF averageAfter
        <4> HIDE DEF c, m, d
        <4>2. d = (a - p) * s
          BY <1>1, <4>1 DEF Abs
        <4> QED
          BY <4>1, <4>2
      <3>3. CASE fillKind(q, s) = "CLOSED"
        <4>1. c = Abs(q) /\ m = 0 /\ q + s = 0
          BY <3>3, Kinds DEF averageAfter, closedQty
        <4> HIDE DEF c, m, d
        <4>2. d = (p - a) * q
          BY <1>1, <4>1 DEF Abs
        <4> QED
          BY <4>1, <4>2
      <3>4. CASE fillKind(q, s) = "REVERSED"
        <4>1. c = Abs(q) /\ m = p
          BY <3>4 DEF averageAfter, closedQty
        <4> HIDE DEF c, m, d
        <4>2. d = (p - a) * q
          BY <1>1, <4>1 DEF Abs
        <4> QED
          BY <4>1, <4>2
      <3> QED
        BY <1>3, <3>1, <3>2, <3>3, <3>4
    <2> HIDE DEF e, k
    <2>3. e \in Int /\ k \in Int /\ 2 * e <= k /\ -k <= 2 * e
      BY <2>1, <2>2
    <2> QED
      BY <2>3 DEF e, k
  <1>4. fillKind(q, s) \in FillKinds
    BY Kinds
  <1> QED
    BY <1>2, <1>3, <1>4 DEF FillKinds

\* The book a fill is added to: that of the row, or an empty one, when the row is new
\* or changes from paper to live.
NewBook(r, p, row, b) ==
    /\ FillsIn(fills, r, p) = {} /\ ClearsIn(audit, r, p) = {}
    /\ TradesIn(trades, r, p) = {} /\ OpenTrades(r) = {}
    /\ (~p => LiveIn(fills, r) = {})
    /\ row.qty = 0 /\ b.realized = 0

OwnBook(r, p, row, b) ==
    /\ r \in RowIds /\ row = rows[r] /\ row.paper = p
    /\ b.avg = row.avg /\ b.realized = row.realized

LEMMA BookedBook ==
    ASSUME TypeOK, BaseInv, AloneInv, NEW w \in Workers, NEW f \in FillIds,
           NEW r \in Nat \ {0}, NEW row \in Row, NEW next \in Row, NEW done \in Fill,
           Booked(w, f, r, row, next, done)
    PROVE  LET p == next.paper
               b == PositionBefore(row, fills[f].paper)
           IN  /\ p = fills[f].paper /\ p \in BOOLEAN
               /\ b.qty = row.qty /\ b.qty \in Int /\ b.avg \in Int /\ b.realized \in Int
               /\ next.qty = row.qty + fills[f].qty
               /\ next.avg = averageAfter(b, fills[f].qty, fills[f].price)
               /\ next.realized = b.realized + realizedDelta(b, fills[f].qty, fills[f].price)
               /\ NewBook(r, p, row, b) \/ OwnBook(r, p, row, b)
  <1> DEFINE p == next.paper
             b == PositionBefore(row, fills[f].paper)
  <1>0. /\ fills[f] \in Fill /\ fills[f].qty # 0 /\ next = RowAfter(row, fills[f])
        /\ row.qty \in Int /\ row.paper \in BOOLEAN /\ fills[f].paper \in BOOLEAN
        /\ next.paper \in BOOLEAN
    <2>1. fills[f] \in Fill /\ fills[f].qty # 0
      BY Shapes DEF BaseInv, FillsOk
    <2>2. next = RowAfter(row, fills[f])
      BY DEF Booked
    <2> QED
      BY <2>1, <2>2 DEF Row, Fill
  <1>1. /\ b.qty = row.qty /\ b.avg \in Int /\ b.realized \in Int
        /\ row.qty # 0 \/ (row.opened /\ ~resetsBookOnFill(row, fills[f].paper)) =>
              b.avg = row.avg /\ b.realized = row.realized
        /\ row.qty = 0 /\ (~row.opened \/ resetsBookOnFill(row, fills[f].paper)) =>
              b.avg = 0 /\ b.realized = 0
        /\ next.qty = row.qty + fills[f].qty
        /\ next.avg = averageAfter(b, fills[f].qty, fills[f].price)
        /\ next.realized = b.realized + realizedDelta(b, fills[f].qty, fills[f].price)
    BY <1>0, RowFields
  <1>2. /\ p = fills[f].paper
        /\ row.paper = fills[f].paper \/ (row.paper /\ row.qty = 0)
    BY SameBook DEF AloneInv, BooksInv
  <1>3. /\ (r \in RowIds /\ row = rows[r]) \/ (r \notin DOMAIN rows /\ row = NewRow(fills[f]))
        /\ row.qty = 0 => OpenTrades(r) = {}
    BY DEF Booked
  <1> HIDE DEF b
  <1>4. CASE r \notin DOMAIN rows /\ row = NewRow(fills[f])
    <2>1. row.qty = 0 /\ ~row.opened
      BY <1>0, <1>4, NewRowType
    <2>2. /\ FillsIn(fills, r, p) = {} /\ ClearsIn(audit, r, p) = {}
          /\ TradesIn(trades, r, p) = {} /\ LiveIn(fills, r) = {}
      <3>1. /\ \A g \in DOMAIN fills : fills[g].row # r
            /\ \A t \in DOMAIN trades : trades[t].row # r
            /\ \A e \in DOMAIN audit : audit[e].row # r
        BY <1>4 DEF BaseInv, FillsOk, LinksOk, FillIds
      <3> QED
        BY <3>1 DEF FillsIn, ClearsIn, TradesIn, LiveIn
    <2> QED
      BY <1>0, <1>1, <1>2, <1>3, <2>1, <2>2 DEF b, NewBook
  <1>5. CASE r \in RowIds /\ row = rows[r] /\ row.paper = fills[f].paper
    <2>1. row.opened
      BY <1>5 DEF BaseInv, RowsOk, RowIds
    <2>2. ~resetsBookOnFill(row, fills[f].paper)
      BY <1>0, <1>5 DEF resetsBookOnFill, paperAfterFill
    <2>3. b.avg = row.avg /\ b.realized = row.realized
      BY <1>1, <2>1, <2>2
    <2> QED
      BY <1>0, <1>1, <1>2, <1>5, <2>3 DEF b, OwnBook
  <1>6. CASE r \in RowIds /\ row = rows[r] /\ row.paper # fills[f].paper
    <2>1. row.paper /\ ~fills[f].paper /\ row.qty = 0 /\ ~p
      BY <1>0, <1>2, <1>6
    <2>2. resetsBookOnFill(row, fills[f].paper)
      BY <2>1 DEF resetsBookOnFill, paperAfterFill
    <2>3. b.realized = 0
      BY <1>1, <2>1, <2>2
    <2>4. /\ \A g \in DOMAIN fills : fills[g].row = r => fills[g].paper
          /\ \A t \in DOMAIN trades : trades[t].row = r => trades[t].paper
          /\ \A e \in DOMAIN audit : audit[e].row = r => audit[e].paper
      BY <1>6, <2>1 DEF AloneInv, BooksInv, OwnBooks, FillIds
    <2>5. /\ FillsIn(fills, r, FALSE) = {} /\ ClearsIn(audit, r, FALSE) = {}
          /\ TradesIn(trades, r, FALSE) = {} /\ LiveIn(fills, r) = {}
      BY <2>4 DEF FillsIn, ClearsIn, TradesIn, LiveIn
    <2>6. p = FALSE
      BY <1>0, <2>1
    <2> QED
      BY <1>0, <1>1, <1>2, <1>3, <2>1, <2>3, <2>5, <2>6 DEF b, NewBook
  <1> QED
    BY <1>3, <1>4, <1>5, <1>6

\* What the book held before the fill, by its own fills, trades and clears.
LEMMA BookBefore ==
    ASSUME TypeOK, BaseInv, AloneInv, SumsInv, NEW w \in Workers, NEW f \in FillIds,
           NEW r \in Nat \ {0}, NEW row \in Row, NEW next \in Row, NEW done \in Fill,
           Booked(w, f, r, row, next, done)
    PROVE  LET p == next.paper
               b == PositionBefore(row, fills[f].paper)
               F == FillsIn(fills, r, p)
               C == ClearsIn(audit, r, p)
           IN  /\ row.qty = QtyIn(fills, F) - ClearedIn(audit, C)
               /\ b.realized = GrossIn(trades, TradesIn(trades, r, p))
               /\ ~p => b.realized = DeltaIn(fills, LiveIn(fills, r))
               /\ C = {} => /\ b.realized - CashIn(fills, F) - row.qty * b.avg \in Int
                            /\ 2 * Abs(b.realized - CashIn(fills, F) - row.qty * b.avg)
                                  <= RoundIn(fills, F)
               /\ OpenTrades(r) \subseteq TradesIn(trades, r, p)
  <1> DEFINE p == next.paper
             b == PositionBefore(row, fills[f].paper)
             F == FillsIn(fills, r, p)
             C == ClearsIn(audit, r, p)
             G == TradesIn(trades, r, p)
             L == LiveIn(fills, r)
  <1>1. /\ p \in BOOLEAN /\ b.qty = row.qty /\ b.qty \in Int /\ b.avg \in Int
        /\ b.realized \in Int
        /\ NewBook(r, p, row, b) \/ OwnBook(r, p, row, b)
    BY BookedBook
  <1>2. clear.pc = "idle" /\ r \notin broken
    BY CommitFits
  <1>3. CashIn(fills, F) \in Int
    <2>1. F \subseteq FillIds
      BY DEF FillsIn, FillIds
    <2> HIDE DEF F
    <2> QED
      BY <2>1, Shapes, FS_Subset, FillSumsType
  <1>4. CASE OwnBook(r, p, row, b)
    <2>0. /\ r \in RowIds /\ row = rows[r] /\ row.paper = p
          /\ b.avg = row.avg /\ b.realized = row.realized
      BY <1>4 DEF OwnBook
    <2>1. ~Cleared(r) /\ Known(r) = rows[r].qty
      BY <1>2 DEF Cleared, Known
    <2>2. rows[r].qty = QtyIn(fills, F) - ClearedIn(audit, C)
      BY <1>2, <2>0, <2>1 DEF SumsInv, QtyInv
    <2>3. /\ rows[r].realized = GrossIn(trades, G)
          /\ ~p => rows[r].realized = DeltaIn(fills, L)
      BY <2>0 DEF SumsInv, GrossInv
    <2>4. C = {} => 2 * Abs(rows[r].realized - CashIn(fills, F) - rows[r].qty * rows[r].avg)
                        <= RoundIn(fills, F)
      BY <1>2, <2>0, <2>1 DEF SumsInv, CashInv
    <2>5. OpenTrades(r) \subseteq G
      BY <2>0 DEF AloneInv, BooksInv, OwnBooks, OpenTrades, TradesIn
    <2> HIDE DEF p, b, F, C, G, L
    <2>6. b.realized - CashIn(fills, F) - row.qty * b.avg \in Int
      BY <1>1, <1>3
    <2>7. /\ row.qty = QtyIn(fills, F) - ClearedIn(audit, C)
          /\ b.realized = GrossIn(trades, G) /\ (~p => b.realized = DeltaIn(fills, L))
          /\ C = {} => /\ b.realized - CashIn(fills, F) - row.qty * b.avg \in Int
                       /\ 2 * Abs(b.realized - CashIn(fills, F) - row.qty * b.avg)
                              <= RoundIn(fills, F)
          /\ OpenTrades(r) \subseteq G
      BY <2>0, <2>2, <2>3, <2>4, <2>5, <2>6, Zenon
    <2> QED
      BY <2>7 DEF p, b, F, C, G, L
  <1>5. CASE NewBook(r, p, row, b)
    <2>0. /\ F = {} /\ C = {} /\ G = {} /\ OpenTrades(r) = {} /\ (~p => L = {})
          /\ row.qty = 0 /\ b.realized = 0
      BY <1>5 DEF NewBook
    <2>1. /\ QtyIn(fills, {}) = 0 /\ DeltaIn(fills, {}) = 0 /\ CashIn(fills, {}) = 0
          /\ RoundIn(fills, {}) = 0 /\ GrossIn(trades, {}) = 0 /\ ClearedIn(audit, {}) = 0
      BY SumsNone
    <2>2. QtyIn(fills, F) = 0 /\ ClearedIn(audit, C) = 0 /\ GrossIn(trades, G) = 0
          /\ CashIn(fills, F) = 0 /\ RoundIn(fills, F) = 0
          /\ (~p => DeltaIn(fills, L) = 0)
      BY <2>0, <2>1, Zenon
    <2> HIDE DEF p, b, F, C, G, L
    <2>3. b.realized - CashIn(fills, F) - row.qty * b.avg = 0
      BY <1>1, <2>0, <2>2
    <2>4. 2 * Abs(0) <= 0
      BY DEF Abs
    <2>5. /\ row.qty = QtyIn(fills, F) - ClearedIn(audit, C)
          /\ b.realized = GrossIn(trades, G) /\ (~p => b.realized = DeltaIn(fills, L))
          /\ OpenTrades(r) \subseteq G
      BY <2>0, <2>2
    <2>6. /\ b.realized - CashIn(fills, F) - row.qty * b.avg \in Int
          /\ 2 * Abs(b.realized - CashIn(fills, F) - row.qty * b.avg) <= RoundIn(fills, F)
      BY <2>2, <2>3, <2>4
    <2> QED
      BY <2>5, <2>6 DEF p, b, F, C, G, L
  <1> HIDE DEF p, b, F, C, G, L
  <1> QED
    BY <1>1, <1>4, <1>5

\* The trades of the book take exactly the P&L the position realized.
TakesGross(U, r, p, delta) ==
    GrossIn(U, TradesIn(U, r, p)) = GrossIn(trades, TradesIn(trades, r, p)) + delta

LEMMA BookedGross ==
    ASSUME TypeOK, NEW r, NEW fill \in Fill, NEW delta \in Int, NEW U \in Seq(Trade),
           Traded(U, r, fill, delta), NEW p, p = fill.paper,
           OpenTrades(r) \subseteq TradesIn(trades, r, p),
           OpenTrades(r) = {} \/ \E t : OpenTrades(r) = {t}
    PROVE  TakesGross(U, r, p, delta)
  <1> DEFINE G == TradesIn(trades, r, p)
  <1>1. PICK n \in Nat \ DOMAIN trades :
            /\ DOMAIN U \in {DOMAIN trades, DOMAIN trades \cup {n}}
            /\ \A i \in DOMAIN trades \ OpenTrades(r) : U[i] = trades[i]
            /\ \A i \in OpenTrades(r) : /\ U[i].row = r /\ U[i].paper = trades[i].paper
                                        /\ ~U[i].gone /\ U[i].gross = trades[i].gross + delta
            /\ n \in DOMAIN U => /\ U[n].row = r /\ U[n].paper = fill.paper
                                 /\ ~U[n].gone /\ U[n].gross = 0
            /\ OpenTrades(r) = {} => delta = 0
    BY DEF Traded
  <1>2. /\ G \subseteq DOMAIN trades /\ IsFiniteSet(G) /\ n \notin G
        /\ \A i \in G : trades[i].gross \in Int /\ U[i].gross \in Int
    <2>1. G \subseteq DOMAIN trades
      BY DEF TradesIn
    <2>2. \A i \in DOMAIN trades : trades[i].gross \in Int
      BY Shapes DEF Trade
    <2>3. \A i \in G : U[i].gross \in Int
      BY <1>1, <2>1, <2>2
    <2>4. IsFiniteSet(G)
      BY <2>1, Shapes, FS_Subset
    <2> HIDE DEF G
    <2> QED
      BY <1>1, <2>1, <2>2, <2>3, <2>4
  <1>3. TradesIn(U, r, p) = IF n \in DOMAIN U THEN G \cup {n} ELSE G
    <2>1. \A i \in DOMAIN trades : i \in TradesIn(U, r, p) <=> i \in G
      <3> TAKE i \in DOMAIN trades
      <3>1. CASE i \in OpenTrades(r)
        <4>1. i \in G /\ i \in DOMAIN U
          BY <1>1, <3>1
        <4>2. U[i].row = r /\ U[i].paper = p /\ ~U[i].gone
          BY <1>1, <3>1, <4>1 DEF TradesIn
        <4> QED
          BY <4>1, <4>2 DEF TradesIn
      <3>2. CASE i \notin OpenTrades(r)
        BY <1>1, <3>2 DEF TradesIn
      <3> QED
        BY <3>1, <3>2
    <2>2. n \in DOMAIN U => n \in TradesIn(U, r, p)
      BY <1>1 DEF TradesIn
    <2>3. TradesIn(U, r, p) \subseteq DOMAIN U
      BY DEF TradesIn
    <2> HIDE DEF G
    <2> QED
      BY <1>1, <1>2, <2>1, <2>2, <2>3
  <1> HIDE DEF G
  <1>4. GrossIn(U, G) = GrossIn(trades, G) + delta /\ GrossIn(trades, G) \in Int
    <2>0. GrossIn(trades, G) \in Int
      <3> DEFINE g == [y \in G |-> trades[y].gross]
      <3>1. \A y \in G : g[y] \in Int
        BY <1>2
      <3> HIDE DEF g
      <3>2. SumFunctionOnSet(g, G) \in Int
        BY <1>2, <3>1, SumType
      <3> QED
        BY <3>2 DEF GrossIn, g
    <2>1. CASE OpenTrades(r) = {}
      <3>1. \A i \in G : U[i].gross = trades[i].gross
        BY <1>1, <1>2, <2>1
      <3>2. GrossIn(U, G) = GrossIn(trades, G)
        BY <1>2, <3>1, GrossSame
      <3> QED
        BY <1>1, <2>0, <2>1, <3>2
    <2>2. CASE \E t : OpenTrades(r) = {t}
      <3>1. PICK t : OpenTrades(r) = {t}
        BY <2>2
      <3>2. t \in G /\ U[t].gross = trades[t].gross + delta
        BY <1>1, <3>1 DEF G
      <3>3. \A i \in G \ {t} : U[i] = trades[i]
        BY <1>1, <1>2, <3>1
      <3>4. GrossIn(U, G) = GrossIn(trades, G) + (U[t].gross - trades[t].gross)
        <4>1. \A y \in G : trades[y].gross \in Int
          BY <1>2
        <4>2. U[t].gross \in Int
          BY <1>2, <3>2
        <4>3. ASSUME NEW A, NEW B, B[t].gross \in Int, \A y \in G : A[y].gross \in Int,
                     \A y \in G \ {t} : B[y] = A[y]
              PROVE  GrossIn(B, G) = GrossIn(A, G) + (B[t].gross - A[t].gross)
          BY <1>2, <3>2, <4>3, GrossMoved
        <4> QED
          BY <3>3, <4>1, <4>2, <4>3
      <3>5. U[t].gross - trades[t].gross = delta
        BY <1>2, <3>2
      <3> QED
        BY <2>0, <3>4, <3>5
    <2> QED
      BY <2>1, <2>2
  <1>5. n \in DOMAIN U => GrossIn(U, G \cup {n}) = GrossIn(U, G)
    BY <1>1, <1>2, GrossMore
  <1> QED
    BY <1>3, <1>4, <1>5 DEF G, TakesGross

\* The sums of a row the fill does not touch.
LEMMA OtherRow ==
    ASSUME TypeOK, BaseInv, AloneInv, SumsInv, NEW w \in Workers, NEW f \in FillIds,
           NEW r \in Nat \ {0}, NEW row \in Row, NEW next \in Row, NEW done \in Fill,
           Booked(w, f, r, row, next, done), NEW q \in RowIds' \ {r}
    PROVE  LET p == rows[q].paper
               F == FillsIn(fills', q, p)
           IN  /\ rows'[q] = rows[q] /\ q \in RowIds
               /\ q \notin broken =>
                     rows[q].qty = QtyIn(fills', F) - ClearedIn(audit, ClearsIn(audit, q, p))
               /\ rows[q].realized = GrossIn(trades', TradesIn(trades', q, p))
               /\ ~p => rows[q].realized = DeltaIn(fills', LiveIn(fills', q))
               /\ q \notin broken /\ ClearsIn(audit, q, p) = {} =>
                     2 * Abs(rows[q].realized - CashIn(fills', F) - rows[q].qty * rows[q].avg)
                        <= RoundIn(fills', F)
  <1> DEFINE p == rows[q].paper
             F == FillsIn(fills, q, p)
             L == LiveIn(fills, q)
             G == TradesIn(trades, q, p)
  <1>1. /\ fills[f].state = "new" /\ fills[f].row = 0 /\ done.row = r
        /\ FillIds' = FillIds /\ fills'[f] = done
        /\ \A g \in FillIds \ {f} : fills'[g] = fills[g]
        /\ RowIds' = RowIds \cup {r}
        /\ \A k \in RowIds \ {r} : rows'[k] = rows[k]
    BY BookedTables
  <1>2. /\ rows'[q] = rows[q] /\ q \in RowIds /\ q # r /\ q # 0
    BY <1>1, Shapes DEF RowIds
  <1>3. PICK n \in Nat \ DOMAIN trades :
           /\ DOMAIN trades' \in {DOMAIN trades, DOMAIN trades \cup {n}}
           /\ \A t \in DOMAIN trades \ OpenTrades(r) : trades'[t] = trades[t]
           /\ \A t \in OpenTrades(r) : trades'[t].row = r
           /\ n \in DOMAIN trades' => trades'[n].row = r
    <2>1. Traded(trades', r, fills[f], done.delta)
      BY CommitFits
    <2> QED
      BY <2>1 DEF Traded
  <1>4. FillsIn(fills', q, p) = F /\ LiveIn(fills', q) = L
        /\ \A x \in F \cup L : x \in FillIds /\ fills'[x] = fills[x]
    BY <1>1, <1>2 DEF FillsIn, LiveIn, FillIds
  <1>5. TradesIn(trades', q, p) = G /\ \A t \in G : trades'[t] = trades[t]
    <2>1. \A t \in DOMAIN trades : trades[t].row = q => trades'[t] = trades[t]
      BY <1>2, <1>3 DEF OpenTrades
    <2>2. \A t \in DOMAIN trades' :
              trades'[t].row = q => t \in DOMAIN trades /\ trades'[t] = trades[t]
      BY <1>2, <1>3
    <2>3. DOMAIN trades \subseteq DOMAIN trades'
      BY <1>3
    <2> QED
      BY <2>1, <2>2, <2>3 DEF TradesIn
  <1>6. IsFiniteSet(F) /\ IsFiniteSet(L) /\ IsFiniteSet(G)
    <2>1. F \subseteq FillIds /\ L \subseteq FillIds /\ G \subseteq DOMAIN trades
      BY DEF FillsIn, LiveIn, TradesIn, FillIds
    <2> QED
      BY <2>1, Shapes, FS_Subset
  <1>7. ~Cleared(q) /\ Known(q) = rows[q].qty
    <2>1. clear.pc = "idle"
      BY CommitFits
    <2> QED
      BY <2>1 DEF Cleared, Known
  <1>8. /\ q \notin broken =>
              rows[q].qty = QtyIn(fills, F) - ClearedIn(audit, ClearsIn(audit, q, p))
        /\ rows[q].realized = GrossIn(trades, G)
        /\ ~p => rows[q].realized = DeltaIn(fills, L)
        /\ q \notin broken /\ ClearsIn(audit, q, p) = {} =>
              2 * Abs(rows[q].realized - CashIn(fills, F) - rows[q].qty * rows[q].avg)
                 <= RoundIn(fills, F)
    BY <1>2, <1>7 DEF SumsInv, QtyInv, GrossInv, CashInv
  <1> HIDE DEF F, L, G
  <1>9. /\ QtyIn(fills', F) = QtyIn(fills, F) /\ CashIn(fills', F) = CashIn(fills, F)
        /\ RoundIn(fills', F) = RoundIn(fills, F)
    <2>1. \A x \in F : fills'[x] = fills[x]
      BY <1>4
    <2> QED
      BY <1>6, <2>1, FillSumsSame
  <1>10. DeltaIn(fills', L) = DeltaIn(fills, L)
    <2>1. \A x \in L : fills'[x] = fills[x]
      BY <1>4
    <2> QED
      BY <1>6, <2>1, FillSumsSame
  <1>11. GrossIn(trades', G) = GrossIn(trades, G)
    BY <1>5, <1>6, GrossSame
  <1> HIDE DEF p
  <1>12. /\ q \notin broken =>
               rows[q].qty = QtyIn(fills', F) - ClearedIn(audit, ClearsIn(audit, q, p))
         /\ rows[q].realized = GrossIn(trades', G)
         /\ ~p => rows[q].realized = DeltaIn(fills', L)
         /\ q \notin broken /\ ClearsIn(audit, q, p) = {} =>
               2 * Abs(rows[q].realized - CashIn(fills', F) - rows[q].qty * rows[q].avg)
                  <= RoundIn(fills', F)
    BY <1>8, <1>9, <1>10, <1>11, Zenon
  <1> QED
    BY <1>2, <1>4, <1>5, <1>12 DEF p

\* What averaging loses adds up.
LEMMA RoundsAdd ==
    ASSUME NEW x \in Int, NEW e \in Int, NEW m \in Int, NEW k \in Int,
           2 * Abs(x) <= m, 2 * e <= k, -k <= 2 * e
    PROVE  2 * Abs(x + e) <= m + k
  BY DEF Abs

\* The sums of the row the fill moves.
LEMMA MovedRow ==
    ASSUME TypeOK, TypeOK', BaseInv, AloneInv, SumsInv, NEW w \in Workers, NEW f \in FillIds,
           NEW r \in Nat \ {0}, NEW row \in Row, NEW next \in Row, NEW done \in Fill,
           Booked(w, f, r, row, next, done)
    PROVE  LET p == next.paper
               F == FillsIn(fills', r, p)
               C == ClearsIn(audit, r, p)
           IN  /\ next.qty = QtyIn(fills', F) - ClearedIn(audit, C)
               /\ next.realized = GrossIn(trades', TradesIn(trades', r, p))
               /\ ~p => next.realized = DeltaIn(fills', LiveIn(fills', r))
               /\ C = {} => 2 * Abs(next.realized - CashIn(fills', F) - next.qty * next.avg)
                                 <= RoundIn(fills', F)
  <1> DEFINE p == next.paper
             b == PositionBefore(row, fills[f].paper)
             F == FillsIn(fills, r, p)
             C == ClearsIn(audit, r, p)
             G == TradesIn(trades, r, p)
             L == LiveIn(fills, r)
             s == fills[f].qty
             x == fills[f].price
             d == realizedDelta(b, s, x)
             k == IF done.kind = "INCREASED" THEN Abs(done.after) ELSE 0
  <1>1. /\ fills[f].state = "new" /\ fills[f].row = 0
        /\ done.paper = fills[f].paper /\ done.qty = s /\ done.price = x
        /\ done.state = "applied" /\ done.row = r
        /\ FillIds' = FillIds /\ fills'[f] = done
        /\ \A g \in FillIds \ {f} : fills'[g] = fills[g]
    BY BookedTables
  <1>2. /\ done.delta = d /\ done.kind = fillKind(row.qty, s) /\ done.after = next.qty
        /\ Fits(trades, r, row.qty) /\ Traded(trades', r, fills[f], done.delta)
    BY CommitFits
  <1>3. /\ p = fills[f].paper /\ p \in BOOLEAN
        /\ b.qty = row.qty /\ b.qty \in Int /\ b.avg \in Int /\ b.realized \in Int
        /\ next.qty = row.qty + s
        /\ next.avg = averageAfter(b, s, x)
        /\ next.realized = b.realized + d
    BY BookedBook
  <1>4. /\ row.qty = QtyIn(fills, F) - ClearedIn(audit, C)
        /\ b.realized = GrossIn(trades, G)
        /\ ~p => b.realized = DeltaIn(fills, L)
        /\ C = {} => /\ b.realized - CashIn(fills, F) - row.qty * b.avg \in Int
                     /\ 2 * Abs(b.realized - CashIn(fills, F) - row.qty * b.avg)
                           <= RoundIn(fills, F)
        /\ OpenTrades(r) \subseteq G
    BY BookBefore
  <1>5. /\ F \subseteq FillIds \ {f} /\ L \subseteq FillIds \ {f}
        /\ FillsIn(fills', r, p) = F \cup {f}
        /\ ~p => LiveIn(fills', r) = L \cup {f}
    BY <1>1, <1>3 DEF FillsIn, LiveIn, FillIds
  <1>6. /\ s \in Int /\ s # 0 /\ x \in Int /\ done.delta \in Int /\ next.qty \in Int
        /\ fills[f] \in Fill
    <2>1. fills[f] \in Fill /\ s # 0
      BY Shapes DEF BaseInv, FillsOk
    <2> QED
      BY <2>1 DEF Fill, Row
  <1>7. \A S \in SUBSET (FillIds \ {f}) :
            /\ IsFiniteSet(S) /\ \A y \in S : fills[y] \in Fill /\ fills'[y] = fills[y]
    BY <1>1, Shapes, FS_Subset DEF FillIds
  <1>8. \A S \in SUBSET (FillIds \ {f}) :
            /\ QtyIn(fills', S \cup {f}) = QtyIn(fills, S) + done.qty
            /\ DeltaIn(fills', S \cup {f}) = DeltaIn(fills, S) + done.delta
            /\ CashIn(fills', S \cup {f}) = CashIn(fills, S) + -(done.qty * done.price)
            /\ RoundIn(fills', S \cup {f}) = RoundIn(fills, S) + k
            /\ QtyIn(fills, S) \in Int /\ CashIn(fills, S) \in Int /\ RoundIn(fills, S) \in Int
    <2> TAKE S \in SUBSET (FillIds \ {f})
    <2>1. IsFiniteSet(S) /\ \A y \in S : fills[y] \in Fill /\ fills'[y] = fills[y]
      BY <1>7
    <2>2. MoreSums(fills, fills', S, f)
      <3>1. ASSUME NEW T, NEW U, U[f] \in Fill, \A y \in S : T[y] \in Fill /\ U[y] = T[y]
            PROVE  MoreSums(T, U, S, f)
        <4>1. IsFiniteSet(S) /\ f \notin S
          BY <2>1
        <4> QED
          BY <3>1, <4>1, FillSumsMore
      <3>2. fills'[f] \in Fill
        BY <1>1
      <3> QED
        BY <2>1, <3>1, <3>2
    <2>3. /\ QtyIn(fills, S) \in Int /\ CashIn(fills, S) \in Int /\ RoundIn(fills, S) \in Int
      BY <2>1, FillSumsType
    <2> QED
      BY <1>1, <2>2, <2>3, Zenon DEF MoreSums
  <1>9. /\ QtyIn(fills', F \cup {f}) = QtyIn(fills, F) + s
        /\ CashIn(fills', F \cup {f}) = CashIn(fills, F) + -(s * x)
        /\ RoundIn(fills', F \cup {f}) = RoundIn(fills, F) + k
        /\ DeltaIn(fills', L \cup {f}) = DeltaIn(fills, L) + d
        /\ QtyIn(fills, F) \in Int /\ CashIn(fills, F) \in Int /\ RoundIn(fills, F) \in Int
    <2>1. F \in SUBSET (FillIds \ {f}) /\ L \in SUBSET (FillIds \ {f})
      BY <1>5
    <2> HIDE DEF F, L, k, d, s, x
    <2> QED
      BY <1>1, <1>2, <1>8, <2>1
  <1>10. GrossIn(trades', TradesIn(trades', r, p)) = GrossIn(trades, G) + done.delta
    <2>1. OpenTrades(r) = {} \/ \E t : OpenTrades(r) = {t}
      BY <1>2 DEF Fits, OpenIn, OpenTrades
    <2>2. trades' \in Seq(Trade)
      BY DEF TypeOK
    <2>3. ASSUME NEW U \in Seq(Trade), Traded(U, r, fills[f], done.delta)
          PROVE  GrossIn(U, TradesIn(U, r, p)) = GrossIn(trades, G) + done.delta
      <3> DEFINE fill == fills[f]
                 dd   == done.delta
      <3>1. fill \in Fill /\ dd \in Int /\ p = fill.paper /\ Traded(U, r, fill, dd)
        BY <1>3, <1>6, <2>3
      <3>2. OpenTrades(r) \subseteq TradesIn(trades, r, p)
        BY <1>4
      <3> HIDE DEF fill, dd, p, G
      <3>3. TakesGross(U, r, p, dd)
        BY <2>1, <3>1, <3>2, BookedGross
      <3> QED
        BY <3>3 DEF dd, G, TakesGross
    <2> QED
      BY <1>2, <2>2, <2>3
  <1>11. ClearedIn(audit, C) \in Int
    <2>1. C \subseteq DOMAIN audit
      BY DEF ClearsIn
    <2> DEFINE g == [y \in C |-> audit[y].qty]
    <2>2. IsFiniteSet(C) /\ \A y \in C : g[y] \in Int
      BY <2>1, Shapes, FS_Subset
    <2> HIDE DEF C, g
    <2>3. SumFunctionOnSet(g, C) \in Int
      BY <2>2, SumType
    <2> QED
      BY <2>3 DEF ClearedIn, g
  <1>12. k = (IF fillKind(row.qty, s) = "INCREASED" THEN Abs(row.qty + s) ELSE 0)
    BY <1>2, <1>3
  <1>13. LET e == d + s * x + row.qty * b.avg - (row.qty + s) * next.avg
         IN  e \in Int /\ k \in Int /\ 2 * e <= k /\ -k <= 2 * e
    <2> DEFINE q == row.qty
               a == b.avg
    <2>1. b.qty = q /\ b.avg = a /\ q \in Int /\ a \in Int /\ s \in Int /\ s # 0 /\ x \in Int
      BY <1>3, <1>6
    <2> HIDE DEF b, s, x, q, a
    <2>2. LET e == realizedDelta(b, s, x) + s * x + q * a - (q + s) * averageAfter(b, s, x)
              m == IF fillKind(q, s) = "INCREASED" THEN Abs(q + s) ELSE 0
          IN  e \in Int /\ m \in Int /\ 2 * e <= m /\ -m <= 2 * e
      BY <2>1, CashMove
    <2>3. next.avg = averageAfter(b, s, x)
      BY <1>3 DEF b, s, x
    <2> QED
      BY <1>12, <2>2, <2>3 DEF q, a, s, x, b
  <1>14. d \in Int /\ next.avg \in Int
    BY <1>2, <1>6 DEF Row
  <1> HIDE DEF p, b, F, C, G, L, s, x, d, k
  <1>15. C = {} => 2 * Abs(next.realized - CashIn(fills', F \cup {f}) - next.qty * next.avg)
                      <= RoundIn(fills', F \cup {f})
    <2> SUFFICES ASSUME C = {}
                 PROVE  2 * Abs(next.realized - CashIn(fills', F \cup {f}) - next.qty * next.avg)
                            <= RoundIn(fills', F \cup {f})
      OBVIOUS
    <2> DEFINE y == b.realized - CashIn(fills, F) - row.qty * b.avg
               e == d + s * x + row.qty * b.avg - (row.qty + s) * next.avg
    <2>1. y \in Int /\ 2 * Abs(y) <= RoundIn(fills, F)
      BY <1>4
    <2>2. e \in Int /\ k \in Int /\ 2 * e <= k /\ -k <= 2 * e
      BY <1>13
    <2>3. next.realized - CashIn(fills', F \cup {f}) - next.qty * next.avg = y + e
      <3>1. PICK u \in Int : u = s * x
        BY <1>6
      <3>2. PICK v \in Int : v = row.qty * b.avg
        BY <1>3
      <3>3. PICK z \in Int : z = (row.qty + s) * next.avg
        BY <1>3, <1>6, <1>14
      <3>4. CashIn(fills', F \cup {f}) = CashIn(fills, F) + -u /\ CashIn(fills, F) \in Int
        BY <1>9, <3>1
      <3>5. next.realized = b.realized + d /\ b.realized \in Int
        BY <1>3
      <3>6. next.qty * next.avg = z
        BY <1>3, <3>3
      <3>7. e = d + u + v - z /\ y = b.realized - CashIn(fills, F) - v
        BY <3>1, <3>2, <3>3
      <3> HIDE DEF e, y
      <3> QED
        BY <1>14, <3>4, <3>5, <3>6, <3>7
    <2>4. RoundIn(fills, F) \in Int
      BY <1>9
    <2> HIDE DEF y, e
    <2>5. 2 * Abs(y + e) <= RoundIn(fills, F) + k
      BY <2>1, <2>2, <2>4, RoundsAdd
    <2> QED
      BY <1>9, <2>3, <2>5, Zenon
  <1>16. next.qty = QtyIn(fills', F \cup {f}) - ClearedIn(audit, C)
    BY <1>3, <1>4, <1>6, <1>9, <1>11
  <1>17. /\ next.realized = GrossIn(trades, G) + done.delta
         /\ ~p => next.realized = DeltaIn(fills', L \cup {f})
    BY <1>2, <1>3, <1>4, <1>9
  <1> QED
    BY <1>5, <1>10, <1>15, <1>16, <1>17 DEF p, C

LEMMA CommitSums ==
    ASSUME TypeOK, TypeOK', BaseInv, AloneInv, SumsInv, NEW w \in Workers, NEW f \in FillIds,
           NEW r \in Nat \ {0}, NEW row \in Row, NEW next \in Row, NEW done \in Fill,
           Booked(w, f, r, row, next, done)
    PROVE  SumsInv'
  <1>1. /\ RowIds' = RowIds \cup {r} /\ rows'[r] = next
        /\ UNCHANGED <<mode, clear, audit, broken>>
    BY BookedTables
  <1>2. clear.pc = "idle"
    BY CommitFits
  <1>3. \A q : ~Cleared(q)' /\ Known(q)' = rows'[q].qty
    BY <1>1, <1>2 DEF Cleared, Known
  <1>4. /\ next.qty = QtyIn(fills', FillsIn(fills', r, next.paper))
                         - ClearedIn(audit, ClearsIn(audit, r, next.paper))
        /\ next.realized = GrossIn(trades', TradesIn(trades', r, next.paper))
        /\ ~next.paper => next.realized = DeltaIn(fills', LiveIn(fills', r))
        /\ ClearsIn(audit, r, next.paper) = {} =>
              2 * Abs(next.realized - CashIn(fills', FillsIn(fills', r, next.paper))
                         - next.qty * next.avg)
                 <= RoundIn(fills', FillsIn(fills', r, next.paper))
    BY MovedRow
  <1>5. ASSUME NEW q \in RowIds' \ {r}
        PROVE  LET p == rows[q].paper
                   F == FillsIn(fills', q, p)
               IN  /\ rows'[q] = rows[q]
                   /\ q \notin broken =>
                         rows[q].qty = QtyIn(fills', F) - ClearedIn(audit, ClearsIn(audit, q, p))
                   /\ rows[q].realized = GrossIn(trades', TradesIn(trades', q, p))
                   /\ ~p => rows[q].realized = DeltaIn(fills', LiveIn(fills', q))
                   /\ q \notin broken /\ ClearsIn(audit, q, p) = {} =>
                         2 * Abs(rows[q].realized - CashIn(fills', F) - rows[q].qty * rows[q].avg)
                            <= RoundIn(fills', F)
    BY <1>5, OtherRow
  <1>6. QtyInv'
    <2>1. ASSUME NEW q \in RowIds', q \notin broken
          PROVE  rows'[q].qty = QtyIn(fills', FillsIn(fills', q, rows'[q].paper))
                                   - ClearedIn(audit, ClearsIn(audit, q, rows'[q].paper))
      <3>1. CASE q = r
        BY <1>1, <1>4, <3>1
      <3>2. CASE q # r
        BY <1>5, <2>1, <3>2
      <3> QED
        BY <3>1, <3>2
    <2> QED
      BY <1>1, <1>3, <2>1 DEF QtyInv
  <1>7. GrossInv'
    <2>1. ASSUME NEW q \in RowIds'
          PROVE  /\ rows'[q].realized = GrossIn(trades', TradesIn(trades', q, rows'[q].paper))
                 /\ ~rows'[q].paper => rows'[q].realized = DeltaIn(fills', LiveIn(fills', q))
      <3>1. CASE q = r
        BY <1>1, <1>4, <3>1
      <3>2. CASE q # r
        BY <1>5, <3>2
      <3> QED
        BY <3>1, <3>2
    <2> QED
      BY <2>1 DEF GrossInv
  <1>8. CashInv'
    <2>1. ASSUME NEW q \in RowIds', q \notin broken, ClearsIn(audit, q, rows'[q].paper) = {}
          PROVE  2 * Abs(rows'[q].realized - CashIn(fills', FillsIn(fills', q, rows'[q].paper))
                            - rows'[q].qty * rows'[q].avg)
                    <= RoundIn(fills', FillsIn(fills', q, rows'[q].paper))
      <3>1. CASE q = r
        BY <1>1, <1>4, <2>1, <3>1
      <3>2. CASE q # r
        <4>1. rows'[q] = rows[q]
          BY <1>5, <3>2
        <4>2. 2 * Abs(rows[q].realized - CashIn(fills', FillsIn(fills', q, rows[q].paper))
                         - rows[q].qty * rows[q].avg)
                 <= RoundIn(fills', FillsIn(fills', q, rows[q].paper))
          BY <1>5, <2>1, <3>2, <4>1
        <4> QED
          BY <4>1, <4>2, Zenon
      <3> QED
        BY <3>1, <3>2
    <2> QED
      BY <1>1, <2>1 DEF CashInv
  <1> QED
    BY <1>6, <1>7, <1>8 DEF SumsInv

\* Deleting the paper book works a live row out anew, from events that were in it.
LEMMA DeleteSums ==
    ASSUME TypeOK, TypeOK', BaseInv, AloneInv, SumsInv, PaperDelete
    PROVE  SumsInv'
  <1>1. /\ clear.pc = "delete" /\ DOMAIN rows' = DOMAIN rows
        /\ \A r \in DOMAIN rows :
              /\ rows'[r].paper = rows[r].paper
              /\ rows'[r].qty = rows[r].qty /\ rows'[r].avg = rows[r].avg
              /\ rows'[r].gone = (rows[r].gone \/ (rows[r].paper /\ rows[r].qty = 0))
              /\ rows'[r].realized =
                    IF r \in RowIds /\ ~rows[r].paper /\ \E f \in EventsOf(r) : fills[f].paper
                    THEN LiveRealized(r) ELSE rows[r].realized
        /\ DOMAIN fills' = DOMAIN fills
        /\ \A f \in FillIds :
              /\ fills'[f].qty = fills[f].qty
              /\ fills'[f].price = fills[f].price /\ fills'[f].paper = fills[f].paper
              /\ fills'[f].row = fills[f].row /\ fills'[f].delta = fills[f].delta
              /\ fills'[f].kind = fills[f].kind /\ fills'[f].after = fills[f].after
              /\ fills'[f].state = IF fills[f].paper THEN "deleted" ELSE fills[f].state
        /\ DOMAIN trades' = DOMAIN trades
        /\ \A t \in DOMAIN trades :
              /\ trades'[t].row = trades[t].row /\ trades'[t].gross = trades[t].gross
              /\ trades'[t].paper = trades[t].paper
              /\ trades'[t].gone = (trades[t].gone \/ trades[t].paper)
        /\ clear' = IdleClear
        /\ UNCHANGED <<mode, worker, audit, broken, clears, failures>>
    BY Deleted
  <1>2. \A r \in RowIds : rows[r].paper => rows[r].qty = 0
    BY <1>1 DEF AloneInv, BooksInv, ClearOk
  <1>3. RowIds' = {r \in RowIds : ~rows[r].paper} /\ RowIds \subseteq DOMAIN rows
    BY <1>1, <1>2, Shapes DEF RowIds, Row
  <1>4. \A r : ~Cleared(r) /\ ~Cleared(r)'
    <2>1. clear'.pc = "idle"
      BY <1>1 DEF IdleClear
    <2> QED
      BY <1>1, <2>1 DEF Cleared
  <1>5. \A r \in RowIds' : rows'[r].realized = rows[r].realized
    <2> TAKE r \in RowIds'
    <2>1. r \in RowIds /\ ~rows[r].paper /\ r \in DOMAIN rows
      BY <1>3
    <2>2. rows[r].realized = DeltaIn(fills, LiveIn(fills, r))
      BY <2>1 DEF SumsInv, GrossInv
    <2>3. {f \in EventsOf(r) : ~fills[f].paper} = LiveIn(fills, r)
      BY DEF EventsOf, LiveIn, FillIds
    <2>4. LiveRealized(r) = DeltaIn(fills, LiveIn(fills, r))
      BY <2>3, Zenon DEF LiveRealized, DeltaOf, DeltaIn
    <2> QED
      BY <1>1, <2>1, <2>2, <2>4
  <1>6. \A r, p : FillsIn(fills', r, p) = FillsIn(fills, r, p)
    BY <1>1 DEF FillsIn, FillIds
  <1>7. \A r : LiveIn(fills', r) = LiveIn(fills, r)
    BY <1>1 DEF LiveIn, FillIds
  <1>8. \A r : TradesIn(trades', r, FALSE) = TradesIn(trades, r, FALSE)
    <2>1. \A t \in DOMAIN trades : trades[t].gone \in BOOLEAN /\ trades[t].paper \in BOOLEAN
      BY Shapes DEF Trade
    <2> QED
      BY <1>1, <2>1 DEF TradesIn
  <1>9. \A r \in RowIds' : rows[r].paper = FALSE /\ rows'[r].paper = FALSE
    BY <1>1, <1>3, Shapes DEF Row
  <1>10. \A r \in RowIds' : /\ rows'[r].paper = rows[r].paper
                            /\ rows'[r].realized = rows[r].realized
                            /\ rows'[r].avg = rows[r].avg /\ rows'[r].qty = rows[r].qty
                            /\ Known(r)' = Known(r)
    BY <1>1, <1>3, <1>4, <1>5 DEF Known
  <1>11. \A r \in RowIds' :
            /\ TradesIn(trades', r, rows[r].paper) = TradesIn(trades, r, rows[r].paper)
            /\ \A t \in TradesIn(trades, r, rows[r].paper) : trades'[t].gross = trades[t].gross
    BY <1>1, <1>8, <1>9 DEF TradesIn
  <1> QED
    BY <1>1, <1>3, <1>4, <1>6, <1>7, <1>10, <1>11, KeepSums

LEMMA SumsStep ==
    ASSUME TypeOK, BaseInv, OneBook, AloneInv, SumsInv, [Next]_vars
    PROVE  SumsInv'
  <1>0. TypeOK' /\ ClearOk
    BY BaseStep DEF AloneInv, BooksInv
  <1>1. ASSUME NEW tag \in Tags, NEW qty \in Quantities, Executes(tag, qty)
        PROVE  SumsInv'
    <2> DEFINE n == Len(fills) + 1
               e == NewFill(tag, qty)
    <2>1. /\ e.state = "new" /\ e.row = 0 /\ n \notin DOMAIN fills
          /\ DOMAIN fills' = DOMAIN fills \cup {n} /\ fills'[n] = e
          /\ \A g \in DOMAIN fills : fills'[g] = fills[g]
          /\ UNCHANGED <<mode, rows, trades, worker, clear, audit, broken, clears, failures>>
      BY <1>1, Executed
    <2> HIDE DEF n, e
    <2>2. \A r \in RowIds : r # 0
      BY Shapes DEF RowIds
    <2>3. \A r \in RowIds, p \in BOOLEAN : FillsIn(fills', r, p) = FillsIn(fills, r, p)
      BY <2>1, <2>2 DEF FillsIn
    <2>4. \A r \in RowIds : LiveIn(fills', r) = LiveIn(fills, r)
      BY <2>1 DEF LiveIn
    <2>5. RowIds' = RowIds /\ \A r : (Cleared(r)' <=> Cleared(r)) /\ Known(r)' = Known(r)
      BY <2>1 DEF RowIds, Cleared, Known
    <2> QED
      BY <1>0, <2>1, <2>3, <2>4, <2>5, KeepSums DEF FillIds
  <1>2. ASSUME UNCHANGED <<fills, rows, trades, audit>>, broken \subseteq broken',
               \A r \in RowIds \ broken' :
                  Known(r)' = Known(r) /\ (~Cleared(r)' => ~Cleared(r))
        PROVE  SumsInv'
    <2>1. RowIds' = RowIds
      BY <1>2 DEF RowIds
    <2> QED
      BY <1>0, <1>2, <2>1, KeepSums
  <1>3. ASSUME UNCHANGED <<fills, rows, trades, clear, audit, broken>>
        PROVE  SumsInv'
    <2>1. \A r : (Cleared(r)' <=> Cleared(r)) /\ Known(r)' = Known(r)
      BY <1>3 DEF Cleared, Known
    <2> QED
      BY <1>2, <1>3, <2>1
  <1>4. ASSUME NEW w \in Workers, NEW f \in FillIds, ApplySelect(w, f)
        PROVE  SumsInv'
    BY <1>3, <1>4 DEF ApplySelect
  <1>5. ASSUME NEW w \in Workers, ApplyCommit(w)
        PROVE  SumsInv'
    <2>1. PICK f \in FillIds, r \in Nat \ {0}, row \in Row, next \in Row, done \in Fill :
              Booked(w, f, r, row, next, done)
      BY <1>5, Commit
    <2> QED
      BY <1>0, <2>1, CommitSums
  <1>6. ASSUME NEW w \in Workers, ApplyRefused(w) \/ ApplyFails(w)
        PROVE  SumsInv'
    BY <1>3, <1>6 DEF ApplyRefused, ApplyFails
  <1>7. ASSUME NEW r \in RowIds, NEW then \in Tags, ClearPhantom(r, then)
        PROVE  SumsInv'
    <2>1. /\ clear'.pc = "zero" /\ clear.pc = "idle"
          /\ UNCHANGED <<mode, fills, rows, trades, worker, audit, broken, failures>>
      BY <1>7, Phantom
    <2>2. \A q : ~Cleared(q)' /\ ~Cleared(q) /\ Known(q)' = Known(q)
      BY <2>1 DEF Cleared, Known
    <2> QED
      BY <1>2, <2>1, <2>2
  <1>8. ASSUME ClearZero PROVE SumsInv'
    <2>1. /\ clear.pc = "zero" /\ RowIds' = RowIds
          /\ \A r \in DOMAIN rows : /\ rows'[r].paper = rows[r].paper
                                    /\ rows'[r].avg = rows[r].avg
                                    /\ rows'[r].realized = rows[r].realized
                                    /\ r # clear.row => rows'[r] = rows[r]
          /\ clear'.pc = "trades" /\ clear'.row = clear.row /\ clear'.qty = clear.qty
          /\ UNCHANGED <<mode, fills, trades, worker, audit, broken, clears, failures>>
      BY <1>8, Zeroed
    <2>2. clear.qty = rows[clear.row].qty
      BY <1>0, <2>1 DEF ClearOk
    <2>3. RowIds \subseteq DOMAIN rows
      BY Shapes
    <2>4. \A r \in RowIds : /\ ~Cleared(r) /\ Known(r)' = Known(r)
                            /\ ~Cleared(r)' => rows'[r].qty = rows[r].qty
      BY <2>1, <2>2, <2>3 DEF Cleared, Known
    <2> QED
      BY <1>0, <2>1, <2>3, <2>4, KeepSums
  <1>9. ASSUME ClearTrades PROVE SumsInv'
    BY <1>9, TradesSums
  <1>10. ASSUME ClearStops PROVE SumsInv'
    <2>1. /\ clear' = IdleClear /\ clear.pc \in {"zero", "trades"}
          /\ broken' = IF clear.pc = "trades" THEN broken \cup {clear.row} ELSE broken
          /\ UNCHANGED <<mode, fills, rows, trades, worker, audit, clears>>
      BY <1>10 DEF ClearStops
    <2>2. clear'.pc = "idle"
      BY <2>1 DEF IdleClear
    <2>3. \A r : r \notin broken' => ~Cleared(r)' /\ ~Cleared(r) /\ Known(r)' = Known(r)
      BY <2>1, <2>2 DEF Cleared, Known
    <2> QED
      BY <1>2, <2>1, <2>3
  <1>11. ASSUME NEW s \in Strategies, GoLive(s) PROVE SumsInv'
    <2>1. CASE \E r \in PaperRows(s) : ClearPhantom(r, s)
      <3>1. PICK r \in PaperRows(s) : ClearPhantom(r, s)
        BY <2>1
      <3>2. r \in RowIds /\ s \in Tags
        BY DEF PaperRows, Tags
      <3> QED
        BY <1>7, <3>1, <3>2
    <2>2. CASE UNCHANGED <<fills, rows, trades, worker, clear, audit, broken, failures>>
      BY <1>3, <2>2
    <2> QED
      BY <1>11, <2>1, <2>2 DEF GoLive
  <1>12. ASSUME NEW s \in Strategies, GoPaper(s) PROVE SumsInv'
    BY <1>3, <1>12 DEF GoPaper
  <1>13. ASSUME PaperCheck PROVE SumsInv'
    <2>1. /\ clear' = [IdleClear EXCEPT !.pc = "delete"] /\ clear.pc = "idle"
          /\ UNCHANGED <<mode, fills, rows, trades, worker, audit, broken, failures>>
      BY <1>13 DEF PaperCheck, ClearBegins
    <2>2. clear'.pc = "delete"
      BY <2>1 DEF IdleClear
    <2>3. \A q : ~Cleared(q)' /\ ~Cleared(q) /\ Known(q)' = Known(q)
      BY <2>1, <2>2 DEF Cleared, Known
    <2> QED
      BY <1>2, <2>1, <2>3
  <1>14. ASSUME PaperDelete PROVE SumsInv'
    BY <1>0, <1>14, DeleteSums
  <1>15. CASE UNCHANGED vars
    BY <1>3, <1>15 DEF vars
  <1>16. NoStrategy \in Tags
    BY DEF Tags
  <1> QED
    BY <1>1, <1>4, <1>5, <1>6, <1>7, <1>8, <1>9, <1>10, <1>11, <1>12, <1>13, <1>14, <1>15,
       <1>16, Zenon DEF Next

LEMMA SumsInit ==
    ASSUME Init
    PROVE  SumsInv
  <1>1. RowIds = {}
    BY DEF Init, RowIds
  <1> QED
    BY <1>1 DEF SumsInv, QtyInv, GrossInv, CashInv

\* The books of every row add up: its quantity to its fills less its clears, its
\* realized P&L to its trades, and a live one's to its events.
LEMMA BooksAddUp == OneBook => (Spec => [](TypeOK /\ BaseInv /\ AloneInv /\ SumsInv))
  <1>1. Init => TypeOK /\ BaseInv /\ AloneInv /\ SumsInv
    BY BaseInit, AloneInit, SumsInit
  <1>2. OneBook /\ TypeOK /\ BaseInv /\ AloneInv /\ SumsInv /\ [Next]_vars
            => TypeOK' /\ BaseInv' /\ AloneInv' /\ SumsInv'
    BY BaseStep, AloneStep, SumsStep
  <1> SUFFICES ASSUME OneBook
               PROVE  Spec => [](TypeOK /\ BaseInv /\ AloneInv /\ SumsInv)
    OBVIOUS
  <1>3. TypeOK /\ BaseInv /\ AloneInv /\ SumsInv /\ [Next]_vars
            => TypeOK' /\ BaseInv' /\ AloneInv' /\ SumsInv'
    BY <1>2
  <1> QED
    BY <1>1, <1>3, PTL DEF Spec

\* When clears run on a quiet contract of one book, the quantity of a row is what
\* the fills of its own book, each counted once, bought and sold, less what clears
\* took off it (applyFillById, its failures and clearPhantomPosition).
THEOREM BookOwnsQuantityHolds == OneBook => (Spec => []BookOwnsQuantity)
  <1>1. SumsInv => BookOwnsQuantity
    <2>1. \A r, p : FillsIn(fills, r, p) = FillsOf(r, p)
      BY DEF FillsIn, FillsOf, FillIds
    <2>2. \A r : ClearsIn(audit, r, rows[r].paper) = ClearsOf(r)
      BY DEF ClearsIn, ClearsOf
    <2>3. \A ids : QtyIn(fills, ids) = QtyOf(ids) /\ ClearedIn(audit, ids) = ClearedQty(ids)
      BY DEF QtyIn, QtyOf, ClearedIn, ClearedQty
    <2>4. Settled => \A r : Known(r) = rows[r].qty
      BY DEF Settled, Known, Cleared
    <2> QED
      BY <2>1, <2>2, <2>3, <2>4 DEF SumsInv, QtyInv, BookOwnsQuantity
  <1> SUFFICES ASSUME OneBook PROVE Spec => []BookOwnsQuantity
    OBVIOUS
  <1>2. Spec => [](TypeOK /\ BaseInv /\ AloneInv /\ SumsInv)
    BY BooksAddUp
  <1> QED
    BY <1>1, <1>2, PTL

\* When clears run on a quiet contract of one book, the realized P&L of a row is the
\* gross P&L of the trades of its own book: the position (applyFillToPosition), the
\* trades (syncTrade) and the paper clean-up (clearPaperBook) agree.
THEOREM RealizedIsTradesHolds == OneBook => (Spec => []RealizedIsTrades)
  <1>1. TypeOK /\ SumsInv => \A r \in RowIds :
            rows[r].realized = GrossOf(TradesOf(r, rows[r].paper))
    <2>1. \A r, p : TradesIn(trades, r, p) = TradesOf(r, p)
      BY DEF TradesIn, TradesOf
    <2>2. \A ids : GrossIn(trades, ids) = GrossOf(ids)
      BY DEF GrossIn, GrossOf
    <2> QED
      BY <2>1, <2>2 DEF SumsInv, GrossInv
  <1>2. TypeOK /\ SumsInv => RealizedIsTrades
    BY <1>1 DEF RealizedIsTrades
  <1> SUFFICES ASSUME OneBook PROVE Spec => []RealizedIsTrades
    OBVIOUS
  <1>3. Spec => [](TypeOK /\ BaseInv /\ AloneInv /\ SumsInv)
    BY BooksAddUp
  <1> QED
    BY <1>2, <1>3, PTL

\* When clears run on a quiet contract of one book, a flat row that was never
\* cleared realized exactly the cash of its fills, up to the rounding of the
\* average price (applyFillToPosition, moneyDivQty), in whatever order fills were
\* applied.
THEOREM FlatIsCashHolds == OneBook => (Spec => []FlatIsCash)
  <1>1. TypeOK /\ SumsInv => FlatIsCash
    <2> SUFFICES ASSUME TypeOK, SumsInv, Settled, NEW r \in RowIds, rows[r].qty = 0,
                        ClearsOf(r) = {}, r \notin broken
                 PROVE  2 * Abs(rows[r].realized - Cash(FillsOf(r, rows[r].paper)))
                            <= Rounding(FillsOf(r, rows[r].paper))
      BY DEF FlatIsCash
    <2> DEFINE F == FillsIn(fills, r, rows[r].paper)
    <2>1. F = FillsOf(r, rows[r].paper) /\ F \subseteq FillIds
      BY DEF FillsIn, FillsOf, FillIds
    <2>2. ClearsIn(audit, r, rows[r].paper) = {} /\ ~Cleared(r)
      BY DEF ClearsIn, ClearsOf, Settled, Cleared
    <2>3. 2 * Abs(rows[r].realized - CashIn(fills, F) - rows[r].qty * rows[r].avg)
              <= RoundIn(fills, F)
      BY <2>2 DEF SumsInv, CashInv
    <2>4. CashIn(fills, F) = Cash(F) /\ RoundIn(fills, F) = Rounding(F)
      BY DEF CashIn, RoundIn, Cash, Rounding
    <2> HIDE DEF F
    <2>5. CashIn(fills, F) \in Int /\ rows[r].realized \in Int /\ rows[r].avg \in Int
      BY <2>1, Shapes, FS_Subset, FillSumsType DEF Row, RowIds
    <2>6. rows[r].realized - CashIn(fills, F) - rows[r].qty * rows[r].avg
              = rows[r].realized - CashIn(fills, F)
      BY <2>5
    <2>7. 2 * Abs(rows[r].realized - CashIn(fills, F)) <= RoundIn(fills, F)
      BY <2>3, <2>6, Zenon
    <2> QED
      BY <2>1, <2>4, <2>7, Zenon
  <1> SUFFICES ASSUME OneBook PROVE Spec => []FlatIsCash
    OBVIOUS
  <1>2. Spec => [](TypeOK /\ BaseInv /\ AloneInv /\ SumsInv)
    BY BooksAddUp
  <1> QED
    BY <1>1, <1>2, PTL

=============================================================================
