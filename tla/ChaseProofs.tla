---------------------------- MODULE ChaseProofs -----------------------------
(***************************************************************************)
(* Theorems about Chase, for every number of orders, hours, days and       *)
(* signals, while no call fails, the positions feed is prompt and the      *)
(* broker executes what it triggers.                                       *)
(***************************************************************************)
EXTENDS Chase, SumLemmas

\* The surroundings the theorems are about.
Prompt == \A e \in Settings : ~e.lag /\ ~e.gaps /\ e.failures = 0

(***************************************************************************)
(* The inductive invariant                                                 *)
(***************************************************************************)
LiveIds == {i \in Ids : orders[i].st \in Live}

\* What a read of the book returns: the ledger stands in for a flat position.
Net == IF feed # 0 THEN feed ELSE Led

\* Nothing works at the broker; nothing has happened that the ledger does not show.
Clear == LiveIds = {}
Calm == Clear /\ Led = pos

\* An order that is over is in its ledger row, or the list still tells.
OrderOk(i) ==
    LET o == orders[i] IN
    /\ o.st = "none" => ~o.listed /\ ~o.booked
    /\ o.st \in Live => o.listed /\ ~o.booked /\ o.qty = 1 /\ o.st # "open"
    /\ o.st = "done" => o.listed \/ o.booked

\* The position is what was executed; the ledger may be a round trip behind.
BookOk ==
    /\ pos \in -1..1 /\ feed = pos
    /\ Led \in -1..1
    /\ pos = QtyOf(Done)

\* After the close nothing works and everything is booked.
ClosedOk == phase = "closed" => Clear /\ \A i \in Done : orders[i].booked

Numbered == orders \in [Ids -> Order]
OrdersOk == \A i \in Ids : OrderOk(i)
Book == Numbered /\ OrdersOk /\ BookOk /\ ClosedOk

\* At most one order works: the entry of the signal over an empty book, or one
\* that closes the position.
EntryOk(i) ==
    /\ status.st = "AWAIT" /\ orders[i].side = status.side
    /\ pos = 0 /\ Led # status.side
CloserOk(i) == status.st = "IN" /\ pos = -orders[i].side
WorkOk ==
    /\ \A i, j \in LiveIds : i = j
    /\ \A i \in LiveIds : IF orders[i].role = "ENTRY" THEN EntryOk(i) ELSE CloserOk(i)

\* The row and the position.
RowOk ==
    /\ status.st # "SIGNAL" => pos \in {0, status.side}
    /\ status.st = "AWAIT" => status.known
    /\ status.st = "SIGNAL" /\ pos # 0
       => paused \/ (status.known /\ job.pc \in {"sig", "gsig"})
    /\ status.stale /\ status.st # "AWAIT" /\ job.pc # "msettle" => Calm

OpOk ==
    op.pc = "apply" =>
        /\ job.pc = "idle"
        /\ \A i \in LiveIds : orders[i].st = "pending"
        /\ status.st # "SIGNAL" => pos = 0
        /\ status.st = "AWAIT" => op.side = status.side

\* What the job under way may rely on after its last await.
For(st) == status.st = st /\ job.row.side = status.side
Wants == Has(job.row.side, job.net)
Behind == Led = job.row.side

MorningOk ==
    /\ job.pc = "adopt" => status.st = "SIGNAL" /\ (job.row.stale => Calm)
    /\ job.pc \in {"morning", "mexit", "mplace", "msettle"} => For("IN")
    /\ job.pc \in {"morning", "mexit", "mplace"} => Calm
    /\ job.pc = "mplace" => job.qty = 1 /\ pos = job.row.side
    /\ job.pc = "candle" => /\ job.row.st \in {"IN", "AWAIT"} /\ For(job.row.st)
                            /\ job.row.st = "IN" => ~status.stale

CoverOk ==
    /\ job.pc \in {"cov1", "cov2", "cov3", "cov4"} => For("IN") /\ ~status.stale
    /\ job.pc = "cov2" => LiveIds \subseteq job.work
    /\ job.pc = "cov3" /\ job.plan = "place" => Clear /\ job.qty = 1 /\ pos = job.row.side

EnterOk ==
    /\ job.pc \in {"ent1", "ent2", "ent3", "ent4", "ent5", "ent6"} => For("AWAIT")
    /\ job.pc \in {"ent2", "ent3"} => /\ job.known
                                      /\ Wants => Clear /\ ~Hourly
    /\ job.pc = "ent2" /\ ~Wants => ~Behind /\ (pos = 0 \/ OpenEntryRow(job.row.side))
    /\ job.pc = "ent3" /\ ~Wants /\ ~job.flag => Clear /\ ~Behind /\ pos = 0
    /\ job.pc = "ent4" => Clear /\ ~Behind /\ pos = 0
    /\ job.pc = "ent5" => pos # 0 \/ ~Behind
    /\ job.pc = "ent7" => For("IN") /\ ~status.stale
    /\ job.pc \in {"ent6", "ent7"} => Clear /\ (pos # 0 \/ Led = 0)

HoldOk ==
    /\ job.pc \in {"hold1", "hold2", "sl1", "sl2", "sl3", "gtrail"} => For("IN") /\ ~status.stale
    /\ job.pc = "hold2" => job.net \in -1..1 /\ (Wants \/ pos = 0)
    /\ job.pc \in {"sl1", "sl2", "sl3"} => job.qty = 1
    /\ job.pc \in {"sl2", "sl3"} => pos = job.row.side
    /\ job.pc = "sl3" => Clear

HourOk ==
    /\ job.pc = "sig" => ~job.flag /\ (status.st = "SIGNAL" /\ pos # 0 => paused \/ job.kind # "eod")
    /\ job.pc \in {"cancel", "drop"} => /\ For("AWAIT")
                                        /\ IF job.flag THEN job.kind # "eod" ELSE paused
    /\ job.pc = "drop" => LiveIds \subseteq job.work
    /\ job.pc = "gin" => For("IN")
    /\ job.pc = "gsig" => status.st = "SIGNAL" /\ (job.row.known \/ pos = 0)
    /\ job.pc = "gawait" => For("AWAIT")
    /\ job.pc # "idle" /\ job.kind = "eod" => phase = "closed"

\* A market order works only after its job has let go of it.
JobOk ==
    /\ MorningOk /\ CoverOk /\ EnterOk /\ HoldOk /\ HourOk
    /\ job.pc \notin {"idle", "cov4", "ent5", "msettle"}
       => \A i \in LiveIds : orders[i].st = "pending"

\* A night is begun only within the bound.
CountOk ==
    /\ count \in [signals: 0..env.signals, prices: Nat, hours: 0..MaxHours,
                  days: 0..MaxDays, failures: 0..env.failures, resets: 0..1]
    /\ phase = "closed" => count.days < MaxDays

\* The rest of the type.
Locals ==
    /\ status \in Status
    /\ job \in Job
    /\ op \in [pc: {"idle", "apply"}, side: Sides]
    /\ paused \in BOOLEAN
    /\ phase \in {"open", "closed"}
    /\ CountOk
    /\ env \in Settings

Inv == Locals /\ Book /\ WorkOk /\ RowOk /\ OpOk /\ JobOk

-----------------------------------------------------------------------------
(***************************************************************************)
(* Orders and sums                                                         *)
(***************************************************************************)
LEMMA IdsFinite ==
    IsFiniteSet(Ids) /\ Ids \subseteq Nat \ {0} /\ \A S \in SUBSET Ids : IsFiniteSet(S)
  <1>1. MaxOrders \in Nat
    BY ChaseAssumption
  <1>2. IsFiniteSet(Ids)
    BY <1>1, FS_Interval DEF Ids
  <1>3. \A S \in SUBSET Ids : IsFiniteSet(S)
    BY <1>2, FS_Subset
  <1>4. Ids \subseteq Nat \ {0}
    BY <1>1 DEF Ids
  <1> QED
    BY <1>2, <1>3, <1>4

\* A set of ids has a least and a greatest.
LEMMA MinIds ==
    ASSUME NEW S \in SUBSET Ids, S # {}
    PROVE  Min(S) \in S
  <1>1. S \subseteq Nat
    BY IdsFinite
  <1>2. PICK n \in S : \A m \in S : ~(<<m, n>> \in OpToRel(<, Nat))
    BY <1>1, NatLessThanWellFounded, WFMin
  <1>3. \A m \in S : m < n => <<m, n>> \in OpToRel(<, Nat)
    BY <1>1 DEF OpToRel
  <1>4. \A m \in S : ~(m < n)
    BY <1>2, <1>3
  <1>5. \A m \in S : n <= m
    BY <1>1, <1>4
  <1> QED
    BY <1>5 DEF Min

LEMMA MaxIds ==
    ASSUME NEW S \in SUBSET Ids, S # {}
    PROVE  Max(S) \in S
  <1>1. S \subseteq 1..MaxOrders /\ MaxOrders \in Nat
    BY ChaseAssumption DEF Ids
  <1> DEFINE T == {n \in Nat : MaxOrders - n \in S}
  <1>2. T \subseteq Nat /\ T # {}
    <2>1. PICK m \in S : TRUE
      OBVIOUS
    <2>2. MaxOrders - m \in Nat /\ MaxOrders - (MaxOrders - m) = m
      BY <1>1, <2>1
    <2> QED
      BY <2>1, <2>2
  <1>3. PICK n \in T : \A m \in T : ~(<<m, n>> \in OpToRel(<, Nat))
    BY <1>2, NatLessThanWellFounded, WFMin
  <1>4. \A m \in S : MaxOrders - m \in T
    BY <1>1
  <1>5. \A m \in T : m < n => <<m, n>> \in OpToRel(<, Nat)
    BY DEF OpToRel
  <1>6. n \in Nat /\ MaxOrders - n \in S
    OBVIOUS
  <1>7. \A m \in T : ~(m < n)
    BY <1>3, <1>5
  <1>8. \A m \in S : MaxOrders - m \in Nat /\ n <= MaxOrders - m
    BY <1>1, <1>4, <1>6, <1>7
  <1>9. \A m \in S : MaxOrders - n >= m
    BY <1>1, <1>6, <1>8
  <1> QED
    BY <1>6, <1>9 DEF Max

LEMMA SignedType ==
    ASSUME Numbered
    PROVE  \A i \in Ids : Signed(i) \in -2..2
  <1> SUFFICES ASSUME NEW i \in Ids PROVE Signed(i) \in -2..2
    OBVIOUS
  <1>1. orders[i].side \in {-1, 1} /\ orders[i].qty \in {1, 2}
    BY DEF Numbered, Order, Sides
  <1>2. CASE orders[i].side = 1
    BY <1>1, <1>2 DEF Signed
  <1>3. CASE orders[i].side = -1
    BY <1>1, <1>3 DEF Signed
  <1> QED
    BY <1>1, <1>2, <1>3

LEMMA QtyType ==
    ASSUME Numbered, NEW S \in SUBSET Ids
    PROVE  QtyOf(S) \in Int
  <1> DEFINE f == [i \in S |-> Signed(i)]
  <1>1. \A i \in S : f[i] \in Int
    BY SignedType
  <1> HIDE DEF f
  <1>2. SumFunctionOnSet(f, S) \in Int
    BY <1>1, IdsFinite, SumType
  <1> QED
    BY <1>2 DEF QtyOf, f

\* What does not touch executed orders does not touch what they add up to.
LEMMA QtySame ==
    ASSUME NEW S \in SUBSET Ids, \A i \in S : Signed(i)' = Signed(i)
    PROVE  QtyOf(S)' = QtyOf(S)
  <1> DEFINE f == [i \in S |-> Signed(i)]
             g == [i \in S |-> Signed(i)']
  <1>1. \A i \in S : g[i] = f[i]
    OBVIOUS
  <1> HIDE DEF f, g
  <1>2. SumFunctionOnSet(g, S) = SumFunctionOnSet(f, S)
    BY <1>1, IdsFinite, SumSame
  <1> QED
    BY <1>2 DEF QtyOf, f, g

LEMMA QtyMore ==
    ASSUME Numbered, Numbered', NEW S \in SUBSET Ids, NEW n \in Ids \ S,
           \A i \in S : Signed(i)' = Signed(i)
    PROVE  QtyOf(S \cup {n})' = QtyOf(S) + Signed(n)'
  <1> DEFINE T == S \cup {n}
             f == [i \in S |-> Signed(i)]
             g == [i \in T |-> Signed(i)']
  <1>1. \A i \in S : f[i] \in Int /\ g[i] = f[i]
    BY SignedType
  <1>2. g[n] = Signed(n)' /\ Signed(n)' \in Int
    <2>1. orders'[n].side \in {-1, 1} /\ orders'[n].qty \in {1, 2}
      BY DEF Numbered, Order, Sides
    <2> QED
      BY <2>1 DEF Signed
  <1> HIDE DEF f, g
  <1>3. IsFiniteSet(S)
    BY IdsFinite
  <1>4. SumFunctionOnSet(g, S \cup {n}) = SumFunctionOnSet(f, S) + g[n]
    BY <1>3, <1>1, <1>2, SumMore
  <1> QED
    BY <1>2, <1>4 DEF QtyOf, f, g

-----------------------------------------------------------------------------
(***************************************************************************)
(* What a step does to the orders, the ledger and the position             *)
(***************************************************************************)
Booked == {i \in Done : orders[i].booked}

\* Orders that are not executed do not count.
LEMMA SumsSame ==
    ASSUME Done' = Done, Booked' = Booked, \A i \in Done : Signed(i)' = Signed(i)
    PROVE  Led' = Led /\ QtyOf(Done)' = QtyOf(Done)
  <1>1. PICK D : D = Done
    OBVIOUS
  <1>2. PICK B : B = Booked
    OBVIOUS
  <1>3. D \in SUBSET Ids /\ B \in SUBSET D
    BY <1>1, <1>2 DEF Done, Booked
  <1>4. QtyOf(D)' = QtyOf(D) /\ QtyOf(B)' = QtyOf(B)
    BY <1>1, <1>3, QtySame
  <1>5. Led = QtyOf(Booked) /\ Led' = QtyOf(Booked)'
    BY DEF Led, Booked
  <1>6. QtyOf(Done)' = QtyOf(D)' /\ QtyOf(Booked)' = QtyOf(B)'
    BY <1>1, <1>2 DEF QtyOf
  <1> QED
    BY <1>1, <1>2, <1>4, <1>5, <1>6

LEMMA AllBooked ==
    /\ Booked = Done => Led = QtyOf(Done)
    /\ Booked' = Done' => Led' = QtyOf(Done)'
  <1>1. Led = QtyOf(Booked) /\ Led' = QtyOf(Booked)'
    BY DEF Led, Booked
  <1> QED
    BY <1>1 DEF QtyOf

LEMMA SyncEffect ==
    ASSUME Book, UNCHANGED <<pos, feed, phase>>, orders' = Synced
    PROVE  /\ Book' /\ Led' = pos /\ LiveIds' = LiveIds
           /\ \A i \in LiveIds : orders'[i] = orders[i]
  <1>1. \A i \in Ids : /\ orders[i] \in Order
                       /\ orders'[i] = IF orders[i].listed /\ orders[i].st \in {"done", "cancelled"}
                                       THEN [orders[i] EXCEPT !.booked = TRUE] ELSE orders[i]
    BY DEF Book, Numbered, Synced
  <1>2. Numbered'
    BY <1>1, ZenonT(60) DEF Synced, Numbered, Order
  <1>3. \A i \in Ids : /\ orders'[i].st = orders[i].st /\ orders'[i].listed = orders[i].listed
                       /\ orders'[i].side = orders[i].side /\ orders'[i].qty = orders[i].qty
                       /\ orders'[i].booked =
                              (orders[i].booked \/ (orders[i].listed /\ orders[i].st \in {"done", "cancelled"}))
                       /\ orders[i].st \in Live => orders'[i] = orders[i]
    BY <1>1 DEF Order, Live
  <1>4. OrdersOk'
    <2>1. \A i \in Ids : OrderOk(i)
      BY DEF Book, OrdersOk
    <2> QED
      BY <1>3, <2>1, ZenonT(60) DEF OrdersOk, OrderOk, Live
  <1>5. Done' = Done /\ Booked' = Done' /\ LiveIds' = LiveIds
    <2>1. \A i \in Ids : orders[i].st = "done" => orders[i].listed \/ orders[i].booked
      BY DEF Book, OrdersOk, OrderOk
    <2>2. Done' = Done
      BY <1>3 DEF Done
    <2>3. \A i \in Done : orders'[i].booked
      BY <1>3, <2>1 DEF Done
    <2>4. LiveIds' = LiveIds
      BY <1>3 DEF LiveIds
    <2>5. Booked' = Done'
      BY <2>2, <2>3 DEF Booked
    <2> QED
      BY <2>2, <2>4, <2>5
  <1>6. \A i \in Done : Signed(i)' = Signed(i)
    BY <1>3 DEF Signed, Done
  <1>7. QtyOf(Done)' = QtyOf(Done)
    <2>1. PICK D : D = Done
      OBVIOUS
    <2>2. QtyOf(D)' = QtyOf(D)
      BY <1>6, <2>1, QtySame DEF Done
    <2> QED
      BY <1>5, <2>1, <2>2 DEF QtyOf
  <1>8. Led' = pos
    BY <1>5, <1>7, AllBooked DEF Book, BookOk
  <1>9. BookOk'
    BY <1>7, <1>8 DEF Book, BookOk
  <1>10. ClosedOk'
    <2>1. \A i \in Done' : orders'[i].booked
      BY <1>5 DEF Booked
    <2> QED
      BY <1>5, <2>1 DEF Book, ClosedOk, Clear
  <1> QED
    BY <1>2, <1>3, <1>4, <1>5, <1>8, <1>9, <1>10 DEF Book, LiveIds

\* Any step that leaves executed and booked orders as they are.
LEMMA StayEffect ==
    ASSUME Book, UNCHANGED <<pos, feed>>, Numbered', OrdersOk', ClosedOk',
           \A i \in Ids : orders'[i].st = "done" <=> orders[i].st = "done",
           \A i \in Done : /\ orders'[i].booked = orders[i].booked
                           /\ orders'[i].side = orders[i].side /\ orders'[i].qty = orders[i].qty
    PROVE  Book' /\ Led' = Led
  <1>1. Done' = Done /\ Booked' = Booked /\ \A i \in Done : Signed(i)' = Signed(i)
    BY DEF Done, Booked, Signed
  <1>2. Led' = Led /\ QtyOf(Done)' = QtyOf(Done)
    BY <1>1, SumsSame
  <1> QED
    BY <1>2 DEF Book, BookOk

LEMMA PlaceEffect ==
    ASSUME Book, UNCHANGED <<pos, feed, phase>>, NEW side \in Sides,
           NEW role \in {"ENTRY", "SL", "EXIT"}, NEW price \in Int, NEW qty, qty = 1,
           Place(side, role, price, qty)
    PROVE  /\ Book' /\ Led' = Led
           /\ \/ orders' = orders
              \/ /\ phase = "open"
                 /\ \E n \in Ids : /\ n \notin LiveIds /\ LiveIds' = LiveIds \cup {n}
                                   /\ orders'[n].side = side /\ orders'[n].role = role
                                   /\ orders'[n].st = IF price \in {0, Fresh} THEN "market" ELSE "pending"
                                   /\ \A i \in LiveIds : orders'[i] = orders[i]
  <1>1. CASE orders' = orders
    <2>1. Numbered' /\ OrdersOk' /\ ClosedOk'
      BY <1>1 DEF Book, Numbered, OrdersOk, OrderOk, ClosedOk, Clear, LiveIds, Done
    <2> QED
      BY <1>1, <2>1, StayEffect
  <1>2. CASE orders' # orders
    <2> DEFINE n == Min(Ids \ Sent)
               o == [st |-> IF price \in {0, Fresh} THEN "market" ELSE "pending", side |-> side,
                     role |-> role, price |-> price, qty |-> qty, listed |-> TRUE,
                     booked |-> FALSE]
    <2>1. Sent # Ids /\ phase = "open" /\ orders' = [orders EXCEPT ![n] = o]
      BY <1>2 DEF Place
    <2>2. n \in Ids \ Sent
      <3>1. Ids \ Sent \in SUBSET Ids /\ Ids \ Sent # {}
        BY <2>1 DEF Sent
      <3> QED
        BY <3>1, MinIds
    <2>3. o \in Order /\ o.st \in Live /\ o.st # "open" /\ o.qty = 1 /\ o.listed /\ ~o.booked
          /\ o.side = side /\ o.role = role
          /\ o.st = IF price \in {0, Fresh} THEN "market" ELSE "pending"
      BY DEF Order, Live, Sides
    <2> HIDE DEF n, o
    <2>4. Numbered' /\ orders'[n] = o /\ \A i \in Ids \ {n} : orders'[i] = orders[i]
      BY <2>1, <2>2, <2>3 DEF Book, Numbered
    <2>5. orders[n].st = "none"
      BY <2>2 DEF Sent
    <2>6. OrdersOk'
      <3> SUFFICES ASSUME NEW i \in Ids PROVE OrderOk(i)'
        BY DEF OrdersOk
      <3>1. CASE i # n
        BY <2>4, <3>1 DEF Book, OrdersOk, OrderOk
      <3>2. CASE i = n
        <4>1. orders'[i] = o /\ o.st \notin {"none", "done"}
          BY <2>3, <2>4, <3>2 DEF Live
        <4> QED
          BY <2>3, <4>1 DEF OrderOk
      <3> QED
        BY <3>1, <3>2
    <2>7. Book' /\ Led' = Led
      <3>1. \A i \in Ids : orders'[i].st = "done" <=> orders[i].st = "done"
        BY <2>3, <2>4, <2>5 DEF Live
      <3>2. \A i \in Done : i # n
        BY <2>5 DEF Done
      <3>3. \A i \in Done : orders'[i] = orders[i]
        BY <2>4, <3>2 DEF Done
      <3> QED
        BY <2>1, <2>4, <2>6, <3>1, <3>3, StayEffect DEF ClosedOk
    <2>8. n \notin LiveIds /\ LiveIds' = LiveIds \cup {n} /\ \A i \in LiveIds : orders'[i] = orders[i]
      BY <2>2, <2>3, <2>4, <2>5 DEF LiveIds, Live
    <2> QED
      BY <2>1, <2>2, <2>3, <2>4, <2>7, <2>8
  <1> QED
    BY <1>1, <1>2

\* Orders that are cancelled, or turned into market orders, are not executed.
LEMMA AmendEffect ==
    ASSUME Book, UNCHANGED <<pos, feed, phase>>, NEW W, W \subseteq LiveIds,
           NEW st \in {"market", "cancelled"}, Numbered',
           \A i \in W : orders'[i] = [orders[i] EXCEPT !.st = st],
           \A i \in Ids \ W : orders'[i] = orders[i]
    PROVE  /\ Book' /\ Led' = Led
           /\ LiveIds' = IF st = "market" THEN LiveIds ELSE LiveIds \ W
           /\ \A i \in LiveIds : /\ orders'[i].side = orders[i].side
                                 /\ orders'[i].role = orders[i].role
           /\ \A i \in LiveIds \ W : orders'[i] = orders[i]
  <1>1. \A i \in Ids : orders[i] \in Order
    BY DEF Book, Numbered
  <1>2. \A i \in W : /\ i \in Ids /\ orders[i].st \in Live /\ orders'[i].st = st
                     /\ orders'[i].listed = orders[i].listed /\ orders'[i].booked = orders[i].booked
                     /\ orders'[i].side = orders[i].side /\ orders'[i].role = orders[i].role
                     /\ orders'[i].qty = orders[i].qty
    BY <1>1, ZenonT(60) DEF LiveIds, Order
  <1>3. OrdersOk'
    <2> SUFFICES ASSUME NEW i \in Ids PROVE OrderOk(i)'
      BY DEF OrdersOk
    <2>1. OrderOk(i)
      BY DEF Book, OrdersOk
    <2>2. CASE i \in W
      BY <1>2, <2>1, <2>2 DEF OrderOk, Live
    <2>3. CASE i \notin W
      BY <2>1, <2>3 DEF OrderOk
    <2> QED
      BY <2>2, <2>3
  <1>4. \A i \in Ids : orders'[i].st = "done" <=> orders[i].st = "done"
    BY <1>2 DEF Live
  <1>5. \A i \in Done : i \in Ids \ W
    BY <1>2 DEF Done, Live
  <1>6. \A i \in Done : orders'[i] = orders[i]
    BY <1>5
  <1>7. Book' /\ Led' = Led
    <2>1. ClosedOk'
      <3> SUFFICES ASSUME phase = "closed" PROVE Clear' /\ \A i \in Done' : orders'[i].booked
        BY DEF ClosedOk
      <3>1. LiveIds = {} /\ \A i \in Done : orders[i].booked
        BY DEF Book, ClosedOk, Clear
      <3>2. \A i \in Ids : orders'[i] = orders[i]
        BY <3>1
      <3> QED
        BY <3>1, <3>2 DEF Clear, LiveIds, Done
    <2> QED
      BY <1>3, <1>4, <1>6, <2>1, StayEffect
  <1>8. LiveIds' = IF st = "market" THEN LiveIds ELSE LiveIds \ W
    BY <1>2 DEF LiveIds, Live
  <1>9. \A i \in LiveIds \ W : orders'[i] = orders[i]
    BY DEF LiveIds
  <1> QED
    BY <1>2, <1>7, <1>8, <1>9

LEMMA FillEffect ==
    ASSUME Book, NEW i \in LiveIds, phase' = phase, orders' = [orders EXCEPT ![i].st = "done"],
           pos' = pos + Signed(i), feed' = pos', pos' \in -1..1
    PROVE  /\ Book' /\ Led' = Led /\ LiveIds' = LiveIds \ {i}
           /\ \A j \in LiveIds \ {i} : orders'[j] = orders[j]
           /\ orders'[i] = [orders[i] EXCEPT !.st = "done"]
  <1>1. i \in Ids /\ orders[i].st \in Live /\ orders[i] \in Order /\ OrderOk(i)
    BY DEF LiveIds, Book, Numbered, OrdersOk
  <1>2. /\ orders'[i] = [orders[i] EXCEPT !.st = "done"]
        /\ \A j \in Ids \ {i} : orders'[j] = orders[j]
    BY <1>1 DEF Book, Numbered
  <1>3. /\ orders'[i].st = "done" /\ orders'[i].side = orders[i].side /\ orders'[i].qty = orders[i].qty
        /\ orders'[i].listed /\ ~orders'[i].booked
    BY <1>1, <1>2 DEF Order, OrderOk
  <1>4. Numbered'
    <2>1. [orders[i] EXCEPT !.st = "done"] \in Order
      BY <1>1 DEF Order
    <2> QED
      BY <1>1, <2>1 DEF Book, Numbered
  <1>5. OrdersOk'
    <2> SUFFICES ASSUME NEW j \in Ids PROVE OrderOk(j)'
      BY DEF OrdersOk
    <2>1. CASE j = i
      BY <1>3, <2>1 DEF OrderOk, Live
    <2>2. CASE j # i
      BY <1>2, <2>2 DEF OrderOk, Book, OrdersOk
    <2> QED
      BY <2>1, <2>2
  <1>6. Done' = Done \cup {i} /\ i \notin Done /\ Booked' = Booked /\ LiveIds' = LiveIds \ {i}
    <2>1. i \notin Done
      BY <1>1 DEF Done, Live
    <2>2. Done' = Done \cup {i}
      BY <1>1, <1>2, <1>3 DEF Done
    <2>3. \A j \in Done : orders'[j] = orders[j]
      BY <1>2, <2>1 DEF Done
    <2>4. Booked' = Booked
      BY <1>3, <2>2, <2>3 DEF Booked
    <2>5. LiveIds' = LiveIds \ {i}
      BY <1>1, <1>2, <1>3 DEF LiveIds, Live
    <2> QED
      BY <2>1, <2>2, <2>4, <2>5
  <1>7. \A j \in Done : Signed(j)' = Signed(j)
    BY <1>2, <1>6 DEF Signed, Done
  <1>8. Signed(i)' = Signed(i)
    BY <1>3 DEF Signed
  <1>9. QtyOf(Done)' = QtyOf(Done) + Signed(i)
    <2>1. PICK D : D = Done
      OBVIOUS
    <2>2. PICK n : n = i
      OBVIOUS
    <2>3. D \in SUBSET Ids /\ n \in Ids \ D
      BY <1>1, <1>6, <2>1, <2>2 DEF Done
    <2>4. QtyOf(D \cup {n})' = QtyOf(D) + Signed(n)'
      BY <1>4, <1>7, <2>1, <2>3, QtyMore DEF Book
    <2>5. QtyOf(Done)' = QtyOf(D \cup {n})'
      BY <1>6, <2>1, <2>2 DEF QtyOf
    <2> QED
      BY <1>8, <2>1, <2>2, <2>4, <2>5
  <1>10. Led' = Led
    <2>1. PICK B : B = Booked
      OBVIOUS
    <2>2. QtyOf(B)' = QtyOf(B)
      BY <1>7, <2>1, QtySame DEF Booked, Done
    <2>3. Led = QtyOf(Booked) /\ Led' = QtyOf(Booked)'
      BY DEF Led, Booked
    <2>4. QtyOf(Booked)' = QtyOf(B)'
      BY <1>6, <2>1 DEF QtyOf
    <2> QED
      BY <2>1, <2>2, <2>3, <2>4
  <1>11. BookOk'
    BY <1>9, <1>10 DEF BookOk, Book
  <1>12. ClosedOk'
    BY DEF Book, ClosedOk, Clear
  <1> QED
    BY <1>2, <1>4, <1>5, <1>6, <1>10, <1>11, <1>12 DEF Book, LiveIds

LEMMA CloseEffect ==
    ASSUME Book, UNCHANGED <<pos, feed>>,
           orders' = [i \in Ids |->
               LET o == orders[i]
                   end == IF o.st \in Live THEN "cancelled" ELSE o.st
               IN [o EXCEPT !.st = end, !.booked = @ \/ end # "none"]]
    PROVE  Book' /\ Led' = pos /\ Clear'
  <1>1. \A i \in Ids : orders[i] \in Order /\ OrderOk(i)
    BY DEF Book, Numbered, OrdersOk
  <1>2. \A i \in Ids :
           /\ orders'[i] = [orders[i] EXCEPT
                                !.st = IF orders[i].st \in Live THEN "cancelled" ELSE orders[i].st,
                                !.booked = orders[i].booked \/ orders[i].st # "none"]
           /\ orders'[i] \in Order
    BY <1>1, ZenonT(60) DEF Order, Live
  <1>3. \A i \in Ids :
           /\ orders'[i].st = IF orders[i].st \in Live THEN "cancelled" ELSE orders[i].st
           /\ orders'[i].side = orders[i].side /\ orders'[i].qty = orders[i].qty
           /\ orders'[i].listed = orders[i].listed
           /\ orders'[i].booked <=> orders[i].booked \/ orders[i].st # "none"
    <2> SUFFICES ASSUME NEW i \in Ids
                 PROVE  /\ orders'[i].st = IF orders[i].st \in Live THEN "cancelled" ELSE orders[i].st
                        /\ orders'[i].side = orders[i].side /\ orders'[i].qty = orders[i].qty
                        /\ orders'[i].listed = orders[i].listed
                        /\ orders'[i].booked <=> orders[i].booked \/ orders[i].st # "none"
      OBVIOUS
    <2>1. PICK end, booked :
             /\ end = IF orders[i].st \in Live THEN "cancelled" ELSE orders[i].st
             /\ booked = (orders[i].booked \/ orders[i].st # "none")
             /\ orders'[i] = [orders[i] EXCEPT !.st = end, !.booked = booked]
      BY <1>2
    <2>2. /\ orders'[i].st = end /\ orders'[i].booked = booked
          /\ orders'[i].side = orders[i].side /\ orders'[i].qty = orders[i].qty
          /\ orders'[i].listed = orders[i].listed
      BY <1>1, <2>1, ZenonT(60) DEF Order
    <2> QED
      BY <2>1, <2>2
  <1>4. Numbered'
    BY <1>2 DEF Numbered
  <1>5. \A i \in Ids : IF orders[i].st \in Live THEN orders'[i].st = "cancelled" /\ orders'[i].st \notin Live
                       ELSE orders'[i].st = orders[i].st
    <2>1. \A i \in Ids : orders'[i].st = IF orders[i].st \in Live THEN "cancelled" ELSE orders[i].st
      BY <1>3
    <2>2. "cancelled" \notin Live
      BY DEF Live
    <2> QED
      BY <2>1, <2>2
  <1>6. OrdersOk'
    <2> SUFFICES ASSUME NEW i \in Ids PROVE OrderOk(i)'
      BY DEF OrdersOk
    <2>1. CASE orders[i].st \in Live
      BY <1>5, <2>1 DEF OrderOk
    <2>2. CASE orders[i].st \notin Live
      BY <1>5, <1>1, <1>3, <2>2 DEF OrderOk
    <2> QED
      BY <2>1, <2>2
  <1>7. Done' = Done /\ (\A i \in Done' : orders'[i].booked) /\ LiveIds' = {}
    <2>1. \A i \in Ids : orders'[i].st = "done" <=> orders[i].st = "done"
      BY <1>5 DEF Live
    <2>2. \A i \in Ids : orders[i].st = "done" => orders'[i].booked
      BY <1>3
    <2>3. LiveIds' = {}
      BY <1>5 DEF LiveIds
    <2> QED
      BY <2>1, <2>2, <2>3 DEF Done
  <1>8. \A i \in Done : Signed(i)' = Signed(i)
    BY <1>3 DEF Signed, Done
  <1>9. QtyOf(Done)' = QtyOf(Done)
    <2>1. PICK D : D = Done
      OBVIOUS
    <2>2. QtyOf(D)' = QtyOf(D)
      BY <1>8, <2>1, QtySame DEF Done
    <2> QED
      BY <1>7, <2>1, <2>2 DEF QtyOf
  <1>10. Led' = pos
    <2>1. Booked' = Done'
      BY <1>7 DEF Booked
    <2> QED
      BY <1>9, <2>1, AllBooked DEF Book, BookOk
  <1> QED
    BY <1>4, <1>6, <1>7, <1>9, <1>10 DEF Book, BookOk, ClosedOk, Clear

LEMMA NightEffect ==
    ASSUME Book, phase = "closed", phase' = "open", pos' = pos, feed' = pos,
           orders' = [i \in Ids |-> [orders[i] EXCEPT !.listed = FALSE]]
    PROVE  Book' /\ Led' = pos /\ Clear'
  <1>1. Clear /\ \A i \in Done : orders[i].booked
    BY DEF Book, ClosedOk
  <1>2. \A i \in Ids : orders[i] \in Order /\ OrderOk(i)
    BY DEF Book, Numbered, OrdersOk
  <1>3. \A i \in Ids : orders'[i] = [orders[i] EXCEPT !.listed = FALSE] /\ orders'[i] \in Order
    BY <1>2 DEF Order
  <1>4. \A i \in Ids :
           /\ orders'[i].st = orders[i].st /\ orders'[i].booked = orders[i].booked
           /\ orders'[i].side = orders[i].side /\ orders'[i].qty = orders[i].qty
           /\ ~orders'[i].listed
    BY <1>2, <1>3 DEF Order
  <1>5. Numbered'
    BY <1>3 DEF Numbered
  <1>6. OrdersOk'
    BY <1>1, <1>2, <1>4 DEF OrdersOk, OrderOk, Done, Clear, LiveIds
  <1>7. Done' = Done /\ LiveIds' = {} /\ \A i \in Done' : orders'[i].booked
    BY <1>1, <1>4 DEF Done, LiveIds, Clear
  <1>8. Book' /\ Led' = Led
    <2>1. UNCHANGED <<pos, feed>>
      BY DEF Book, BookOk
    <2> QED
      BY <1>4, <1>5, <1>6, <2>1, StayEffect DEF Done, ClosedOk
  <1>9. Led = pos
    <2>1. Booked = Done
      BY <1>1 DEF Booked
    <2> QED
      BY <2>1, AllBooked DEF Book, BookOk
  <1> QED
    BY <1>7, <1>8, <1>9 DEF Clear

-----------------------------------------------------------------------------
(***************************************************************************)
(* Reads                                                                   *)
(***************************************************************************)
LEMMA NothingFails ==
    ASSUME Prompt, Locals
    PROVE  ~env.lag /\ ~env.gaps /\ ~Fails /\ ~(count.failures < env.failures)
  <1>1. ~env.lag /\ ~env.gaps /\ env.failures = 0
    BY DEF Prompt, Locals
  <1>2. count.failures \in 0..0
    BY <1>1 DEF Locals, CountOk
  <1> QED
    BY <1>1, <1>2 DEF Fails

LEMMA HasOf ==
    ASSUME NEW s \in Sides, NEW n \in -1..1
    PROVE  /\ Has(s, n) <=> n = s
           /\ Has(-s, n) <=> n = -s
           /\ n # 0 => Abs(n) = 1 /\ Sgn(n) = n /\ Sgn(n) \in Sides
           /\ Abs(n) \in 0..1
  <1>1. s = 1 \/ s = -1
    BY DEF Sides
  <1>2. n = -1 \/ n = 0 \/ n = 1
    OBVIOUS
  <1> QED
    BY <1>1, <1>2 DEF Has, Abs, Sgn, Sides

\* A read shows the position, the ledger when there is none.
LEMMA ReadsOf ==
    ASSUME Prompt, Locals, Book
    PROVE  /\ \A b \in Books : b.kite = pos /\ b.net = Net /\ b.known
           /\ \A b \in Books : Read(b) => count' = count
           /\ Net \in -1..1 /\ (pos # 0 => Net = pos) /\ (pos = 0 => Net = Led)
  <1>1. feed = pos /\ pos \in -1..1 /\ Led \in -1..1
    BY DEF Book, BookOk
  <1>2. \A b \in Books : b = [kite |-> feed, net |-> Net, known |-> TRUE]
    BY NothingFails DEF Books, Net
  <1>3. \A b \in Books : b.kite = pos /\ b.net = Net /\ b.known = TRUE
    BY <1>1, <1>2
  <1>4. count = [count EXCEPT !.failures = @]
    BY DEF Locals, CountOk
  <1>5. \A b \in Books : Read(b) => count' = count
    BY <1>3, <1>4 DEF Read
  <1> QED
    BY <1>1, <1>3, <1>5 DEF Net

\* The books of the job under way.
LEMMA RowSides ==
    ASSUME Locals
    PROVE  /\ job.row.side \in Sides /\ status.side \in Sides /\ op.side \in Sides
           /\ job.row \in Status /\ status \in Status /\ job \in Job
  BY DEF Locals, Job, Status, Sides

LEMMA IdleType ==
    /\ Idle \in Job /\ Idle.pc = "idle" /\ Idle.kind = "minute" /\ Idle.flag = FALSE
    /\ NoSignal \in Status /\ NoSignal.st = "SIGNAL" /\ ~NoSignal.stale
  BY DEF Idle, Job, PCs, Plans, NoSignal, Status, Sides

\* An idle worker has nothing to rely on.
LEMMA IdleOk ==
    ASSUME job' = Idle
    PROVE  JobOk' /\ job' \in Job /\ job'.pc = "idle"
  BY IdleType DEF JobOk, MorningOk, CoverOk, EnterOk, HoldOk, HourOk

-----------------------------------------------------------------------------
(***************************************************************************)
(* Steps of a job                                                          *)
(***************************************************************************)

\* A step that changes no order that works, and the position neither.
Steady ==
    /\ Book' /\ LiveIds' = LiveIds /\ (\A i \in LiveIds : orders'[i] = orders[i])
    /\ Led' \in {Led, pos}
    /\ UNCHANGED <<world, env>>

LEMMA SameOrders ==
    ASSUME Book, UNCHANGED <<orders, world, env>>
    PROVE  Steady /\ Led' = Led /\ (\A s : OpenEntryRow(s)' <=> OpenEntryRow(s)) /\ Net' = Net
  <1>1. UNCHANGED <<pos, feed, phase>>
    BY DEF world
  <1>2. Numbered' /\ OrdersOk' /\ ClosedOk'
    BY <1>1 DEF Book, Numbered, OrdersOk, OrderOk, ClosedOk, Clear, LiveIds, Done
  <1>3. Book' /\ Led' = Led
    BY <1>1, <1>2, StayEffect
  <1>4. LiveIds' = LiveIds /\ \A i \in LiveIds : orders'[i] = orders[i]
    BY DEF LiveIds
  <1>5. Net' = Net
    BY <1>1, <1>3 DEF Net
  <1>6. \A s : OpenEntryRow(s)' <=> OpenEntryRow(s)
    BY DEF OpenEntryRow, On, Sent
  <1> QED
    BY <1>3, <1>4, <1>5, <1>6 DEF Steady

LEMMA SyncedOrders ==
    ASSUME Book, UNCHANGED <<world, env>>, orders' = Synced
    PROVE  Steady /\ Led' = pos
  <1>1. UNCHANGED <<pos, feed, phase>>
    BY DEF world
  <1> QED
    BY <1>1, SyncEffect DEF Steady

LEMMA SteadyRow ==
    ASSUME Inv, Steady, UNCHANGED status, job.pc \notin {"idle", "sig", "gsig", "msettle"}
    PROVE  WorkOk' /\ RowOk' /\ OpOk'
  <1>1. UNCHANGED <<pos, feed, op, paused, phase, env>>
    BY DEF Steady, world
  <1>2. LiveIds' = LiveIds /\ (\A i \in LiveIds : orders'[i] = orders[i]) /\ Led' \in {Led, pos}
    BY DEF Steady
  <1>3. WorkOk'
    BY <1>1, <1>2, RowSides DEF Inv, WorkOk, EntryOk, CloserOk, Sides
  <1>4. RowOk'
    BY <1>1, <1>2 DEF Inv, RowOk, Calm, Clear
  <1>5. OpOk'
    BY <1>1 DEF Inv, OpOk
  <1> QED
    BY <1>3, <1>4, <1>5

\* A step that writes the row of an empty or settled book.
LEMMA SteadyWrite ==
    ASSUME Inv, Steady, ~status'.stale, job.pc # "idle",
           \/ Clear
           \/ status'.st = status.st /\ status'.side = status.side,
           status'.st # "SIGNAL" => pos \in {0, status'.side},
           status'.st = "AWAIT" => status'.known,
           status'.st = "SIGNAL" => pos = 0 \/ paused \/ (status'.known /\ job'.pc \in {"sig", "gsig"})
    PROVE  WorkOk' /\ RowOk' /\ OpOk'
  <1>1. UNCHANGED <<pos, feed, op, paused, phase, env>>
    BY DEF Steady, world
  <1>2. LiveIds' = LiveIds /\ (\A i \in LiveIds : orders'[i] = orders[i]) /\ Led' \in {Led, pos}
    BY DEF Steady
  <1>3. WorkOk'
    <2>1. CASE Clear
      BY <1>2, <2>1 DEF WorkOk, Clear
    <2>2. CASE status'.st = status.st /\ status'.side = status.side
      BY <1>1, <1>2, <2>2, RowSides DEF Inv, WorkOk, EntryOk, CloserOk, Sides
    <2> QED
      BY <2>1, <2>2
  <1>4. RowOk'
    BY <1>1 DEF RowOk
  <1>5. OpOk'
    BY <1>1 DEF Inv, OpOk
  <1> QED
    BY <1>3, <1>4, <1>5

LEMMA LocalsStay ==
    ASSUME Locals, UNCHANGED <<world, env, count>>, status' \in Status, job' \in Job
    PROVE  Locals'
  BY DEF Locals, CountOk, world

LEMMA GoesTo ==
    ASSUME Locals, NEW pc \in PCs, NEW qty \in 0..2
    PROVE  /\ Goes(pc) => /\ job' \in Job /\ job'.pc = pc
                          /\ job'.kind = job.kind /\ job'.row = job.row /\ job'.net = job.net
                          /\ job'.known = job.known /\ job'.work = job.work
                          /\ job'.flag = job.flag /\ job'.plan = job.plan /\ job'.qty = job.qty
           /\ GoesWith(pc, qty) => /\ job' \in Job /\ job'.pc = pc /\ job'.qty = qty
                                   /\ job'.kind = job.kind /\ job'.row = job.row
  <1>1. job \in Job
    BY RowSides
  <1>2. ASSUME Goes(pc)
        PROVE  /\ job' \in Job /\ job'.pc = pc
               /\ job'.kind = job.kind /\ job'.row = job.row /\ job'.net = job.net
               /\ job'.known = job.known /\ job'.work = job.work
               /\ job'.flag = job.flag /\ job'.plan = job.plan /\ job'.qty = job.qty
    BY <1>1, <1>2 DEF Goes, Job
  <1>3. ASSUME GoesWith(pc, qty)
        PROVE  /\ job' \in Job /\ job'.pc = pc /\ job'.qty = qty
               /\ job'.kind = job.kind /\ job'.row = job.row
    BY <1>1, <1>3 DEF GoesWith, Job
  <1> QED
    BY <1>2, <1>3

LEMMA MinuteStartInv ==
    ASSUME Prompt, Inv, MinuteStart, UNCHANGED <<world, env>>
    PROVE  Inv'
  <1>1. Locals /\ Book /\ job.pc = "idle" /\ op.pc = "idle" /\ UNCHANGED <<status, orders, count>>
    BY DEF Inv, MinuteStart, Settled
  <1>2. Steady /\ Led' = Led
    BY <1>1, SameOrders
  <1> DEFINE pc == CASE status.st = "SIGNAL" -> "adopt"
                     [] status.st = "IN" /\ status.stale -> "morning"
                     [] OTHER -> "candle"
  <1>3. job' = [Idle EXCEPT !.row = status, !.pc = pc] /\ pc \in {"adopt", "morning", "candle"}
    BY DEF MinuteStart
  <1>4. status.st = "SIGNAL" \/ status.st = "IN" \/ status.st = "AWAIT"
    BY RowSides, <1>1 DEF Status
  <1>5. /\ pc = "adopt" => status.st = "SIGNAL"
        /\ pc = "morning" => status.st = "IN" /\ status.stale
        /\ pc = "candle" => status.st = "AWAIT" \/ (status.st = "IN" /\ ~status.stale)
    BY <1>4
  <1> HIDE DEF pc
  <1>6. job' \in Job /\ job'.pc = pc /\ job'.row = status /\ job'.kind = "minute"
    <2>1. pc \in PCs
      BY <1>3 DEF PCs
    <2> QED
      BY <1>1, <1>3, <2>1, RowSides, IdleType DEF Job, Idle
  <1>7. Locals'
    BY <1>1, <1>6, RowSides, LocalsStay
  <1>8. WorkOk' /\ RowOk' /\ OpOk'
    BY <1>1, <1>2, <1>3, <1>6 DEF Inv, Steady, world, WorkOk, EntryOk, CloserOk, RowOk, OpOk, Calm, Clear
  <1>9. \A i \in LiveIds' : orders'[i].st = "pending"
    <2>1. \A i \in LiveIds : i \in Ids /\ OrderOk(i) /\ orders[i].st \in Live /\ orders[i].st # "none"
      BY <1>1 DEF LiveIds, Live, Book, OrdersOk
    <2>2. \A i \in LiveIds : orders[i].st # "market"
      BY <2>1 DEF MinuteStart, Settled, Sent
    <2>3. \A i \in LiveIds : orders[i].st = "pending"
      BY <2>1, <2>2 DEF OrderOk, Live
    <2> QED
      BY <1>2, <2>3 DEF Steady
  <1>10. JobOk'
    <2>1. status.stale /\ status.st # "AWAIT" => Calm
      BY <1>1 DEF Inv, RowOk
    <2>2. Calm => Calm'
      BY <1>2 DEF Calm, Clear, Steady, world
    <2> QED
      BY <1>1, <1>3, <1>5, <1>6, <1>9, <2>1, <2>2
      DEF JobOk, MorningOk, CoverOk, EnterOk, HoldOk, HourOk, For
  <1> QED
    BY <1>2, <1>7, <1>8, <1>10 DEF Inv, Steady

LEMMA AdoptInv ==
    ASSUME Prompt, Inv, Adopt, UNCHANGED <<world, env>>
    PROVE  Inv'
  <1>1. Locals /\ Book /\ job.pc = "adopt" /\ UNCHANGED orders
    BY DEF Inv, Adopt
  <1>2. Steady /\ Led' = Led
    BY <1>1, SameOrders
  <1>3. status.st = "SIGNAL" /\ Clear /\ (job.row.stale => Calm)
    BY <1>1, RowSides DEF Inv, JobOk, MorningOk, WorkOk, EntryOk, CloserOk, Clear
  <1>4. PICK b \in Books :
          /\ Read(b)
          /\ \/ b.net = 0 /\ Ends /\ UNCHANGED status
             \/ /\ b.net # 0
                /\ Writes([status EXCEPT !.st = "IN", !.side = Sgn(b.net), !.breach = FALSE])
                /\ job' = [job EXCEPT !.row.st = "IN", !.row.side = Sgn(b.net),
                                  !.pc = IF job.row.stale THEN "morning" ELSE "candle"]
    BY DEF Adopt
  <1>5. count' = count /\ b.net = Net /\ Net \in -1..1 /\ (pos # 0 => Net = pos)
    BY <1>1, <1>4, ReadsOf
  <1>6. CASE b.net = 0 /\ Ends /\ UNCHANGED status
    <2>1. WorkOk' /\ RowOk' /\ OpOk'
      BY <1>1, <1>2, <1>6, SteadyRow
    <2>2. JobOk' /\ job' \in Job
      BY <1>6, IdleOk DEF Ends
    <2>3. Locals'
      BY <1>1, <1>5, <1>6, <2>2, RowSides, LocalsStay
    <2> QED
      BY <1>2, <2>1, <2>2, <2>3 DEF Inv, Steady
  <1>7. CASE /\ b.net # 0
             /\ Writes([status EXCEPT !.st = "IN", !.side = Sgn(b.net), !.breach = FALSE])
             /\ job' = [job EXCEPT !.row.st = "IN", !.row.side = Sgn(b.net),
                               !.pc = IF job.row.stale THEN "morning" ELSE "candle"]
    <2>1. Sgn(b.net) = Net /\ Net \in Sides /\ (pos = 0 \/ Net = pos)
      BY <1>5, <1>7 DEF Sgn, Sides
    <2>2. status' \in Status /\ status'.st = "IN" /\ status'.side = Net /\ ~status'.stale
      BY <1>1, <1>7, <2>1, RowSides DEF Writes, Status
    <2>3. /\ job' \in Job /\ job'.row.st = "IN" /\ job'.row.side = Net /\ job'.row.stale = job.row.stale
          /\ job'.pc = IF job.row.stale THEN "morning" ELSE "candle"
          /\ job'.kind = job.kind
      BY <1>1, <1>7, <2>1, RowSides DEF Job, PCs, Status
    <2>4. Locals'
      BY <1>1, <1>5, <2>2, <2>3, LocalsStay
    <2>5. WorkOk' /\ RowOk' /\ OpOk'
      BY <1>1, <1>2, <1>3, <2>1, <2>2, SteadyWrite
    <2>6. JobOk'
      <3>1. LiveIds' = {} /\ (Calm => Calm')
        BY <1>2, <1>3 DEF Calm, Clear, Steady, world
      <3>2. job.kind = "eod" => phase' = "closed"
        BY <1>1, <1>2 DEF Inv, JobOk, HourOk, Steady, world
      <3> QED
        BY <1>3, <2>2, <2>3, <3>1, <3>2 DEF JobOk, MorningOk, CoverOk, EnterOk, HoldOk, HourOk, For
    <2> QED
      BY <1>2, <2>4, <2>5, <2>6 DEF Inv, Steady
  <1> QED
    BY <1>4, <1>6, <1>7

\* A step that only moves the job on, or ends it.
LEMMA JobMoves ==
    ASSUME Inv, Steady, UNCHANGED <<status, count>>, job' \in Job, JobOk',
           job.pc \notin {"idle", "sig", "gsig", "msettle"}
    PROVE  Inv'
  <1>1. Locals'
    BY RowSides, LocalsStay DEF Inv, Steady
  <1>2. WorkOk' /\ RowOk' /\ OpOk'
    BY SteadyRow
  <1> QED
    BY <1>1, <1>2 DEF Inv, Steady

LEMMA JobEnds ==
    ASSUME Inv, Steady, Ends, UNCHANGED <<status, count>>,
           job.pc \notin {"idle", "sig", "gsig", "msettle"}
    PROVE  Inv'
  BY IdleOk, JobMoves DEF Ends

\* A step that writes the row and moves the job on.
LEMMA JobWrites ==
    ASSUME Inv, Steady, Locals', JobOk', ~status'.stale, job.pc # "idle",
           \/ Clear
           \/ status'.st = status.st /\ status'.side = status.side,
           status'.st # "SIGNAL" => pos \in {0, status'.side},
           status'.st = "AWAIT" => status'.known,
           status'.st = "SIGNAL" => pos = 0 \/ paused \/ (status'.known /\ job'.pc \in {"sig", "gsig"})
    PROVE  Inv'
  BY SteadyWrite DEF Inv, Steady

\* What a job keeps while it goes on.
LEMMA Kept ==
    ASSUME Inv, Steady, job.pc # "idle"
    PROVE  /\ job.kind = "eod" => phase' = "closed"
           /\ job.pc \notin {"cov4", "ent5", "msettle"} => \A i \in LiveIds' : orders'[i].st = "pending"
           /\ Clear => Clear'
           /\ Calm => Calm'
           /\ paused' = paused /\ pos' = pos /\ pos \in -1..1
  BY DEF Inv, Steady, world, JobOk, HourOk, Calm, Clear, Book, BookOk

LEMMA MorningInv ==
    ASSUME Prompt, Inv, Morning, UNCHANGED <<world, env>>
    PROVE  Inv'
  <1>1. Locals /\ Book /\ job.pc = "morning" /\ UNCHANGED orders
    BY DEF Inv, Morning
  <1>2. Steady /\ Led' = Led
    BY <1>1, SameOrders
  <1>3. For("IN") /\ Calm
    BY <1>1 DEF Inv, JobOk, MorningOk
  <1>4. ASSUME NEW b \in Books, NEW sl \in {job.row.sl, NewPrice},
               count' = [count EXCEPT !.failures = IF b.known THEN @ ELSE @ + 1,
                                      !.prices = IF sl = NewPrice THEN sl ELSE @],
               Writes([status EXCEPT !.sl = sl, !.known = TRUE]),
               IF Has(job.row.side, b.net)
               THEN job' = [job EXCEPT !.pc = "sl1", !.qty = Abs(b.net), !.row.sl = sl]
               ELSE Ends
        PROVE  Inv'
    <2>1. b.net = Net /\ b.known /\ Net \in -1..1
      BY <1>1, ReadsOf
    <2>2. sl \in Nat
      BY <1>1, RowSides DEF Locals, CountOk, NewPrice, Status
    <2>3. status' \in Status /\ status'.st = "IN" /\ status'.side = status.side /\ ~status'.stale
      BY <1>1, <1>3, <1>4, <2>2, RowSides DEF Writes, Status, For
    <2>4. /\ job' \in Job /\ job'.pc \in {"idle", "sl1"}
          /\ job'.pc = "sl1" => /\ job'.qty = 1 /\ job'.row.side = job.row.side
                                /\ job'.kind = job.kind
      <3>1. CASE Has(job.row.side, b.net)
        <4>1. Abs(b.net) = 1
          BY <1>1, <2>1, <3>1, RowSides, HasOf DEF Sides
        <4>2. PICK row : row = [job.row EXCEPT !.sl = sl]
          OBVIOUS
        <4>3. row \in Status /\ row.side = job.row.side
          BY <1>1, <2>2, <4>2, RowSides DEF Status
        <4>4. job \in Job
          BY <1>1, RowSides
        <4>5. PICK j : j = [job EXCEPT !.pc = "sl1", !.qty = 1]
          OBVIOUS
        <4>6. j \in Job /\ j.pc = "sl1" /\ j.qty = 1 /\ j.kind = job.kind
          <5>1. "sl1" \in PCs /\ 1 \in 0..2
            BY DEF PCs
          <5> QED
            BY <4>4, <4>5, <5>1 DEF Job
        <4>7. job' = [j EXCEPT !.row = row]
          BY <1>4, <3>1, <4>1, <4>2, <4>5
        <4>8. job' \in Job /\ job'.pc = "sl1" /\ job'.qty = 1 /\ job'.row = row /\ job'.kind = job.kind
          BY <4>3, <4>6, <4>7 DEF Job
        <4> QED
          BY <4>3, <4>8
      <3>2. CASE ~Has(job.row.side, b.net)
        BY <1>4, <3>2, IdleOk DEF Ends
      <3> QED
        BY <3>1, <3>2
    <2>5. Locals'
      <3>1. CountOk'
        BY <1>1, <1>4, <2>1, <2>2 DEF Locals, CountOk, world
      <3> QED
        BY <1>1, <2>3, <2>4, <3>1 DEF Locals, world
    <2>6. JobOk'
      BY <1>1, <1>2, <1>3, <2>3, <2>4, Kept
      DEF JobOk, MorningOk, CoverOk, EnterOk, HoldOk, HourOk, For
    <2> QED
      BY <1>1, <1>2, <1>3, <2>3, <2>5, <2>6, JobWrites DEF Inv, RowOk, For
  <1>5. ASSUME Goes("mexit"), UNCHANGED <<status, count>> PROVE Inv'
    <2>1. "mexit" \in PCs /\ 0 \in 0..2
      BY DEF PCs
    <2>2. job' \in Job /\ job'.pc = "mexit" /\ job'.row = job.row /\ job'.kind = job.kind
      BY <1>1, <1>5, <2>1, GoesTo
    <2>3. JobOk'
      BY <1>1, <1>2, <1>3, <1>5, <2>2, Kept
      DEF JobOk, MorningOk, CoverOk, EnterOk, HoldOk, HourOk, For
    <2> QED
      BY <1>1, <1>2, <1>5, <2>2, <2>3, JobMoves
  <1> QED
    BY <1>1, <1>4, <1>5, NothingFails DEF Morning

LEMMA MorningExitInv ==
    ASSUME Prompt, Inv, MorningExit, UNCHANGED <<world, env>>
    PROVE  Inv'
  <1>1. Locals /\ Book /\ job.pc = "mexit" /\ UNCHANGED <<orders, status>>
    BY DEF Inv, MorningExit
  <1>2. Steady /\ Led' = Led
    BY <1>1, SameOrders
  <1>3. For("IN") /\ Calm
    BY <1>1 DEF Inv, JobOk, MorningOk
  <1>4. PICK b \in Books :
          /\ Read(b)
          /\ IF ~b.known THEN Ends
             ELSE IF Has(job.row.side, b.net) THEN GoesWith("mplace", Abs(b.net))
             ELSE Goes("msettle")
    BY DEF MorningExit
  <1>5. count' = count /\ b.known /\ b.net = Net /\ Net \in -1..1
        /\ (pos # 0 => Net = pos) /\ (pos = 0 => Net = Led)
    BY <1>1, <1>4, ReadsOf
  <1>6. "mplace" \in PCs /\ "msettle" \in PCs /\ 0 \in 0..2 /\ 1 \in 0..2
    BY DEF PCs
  <1>7. CASE Has(job.row.side, b.net)
    <2>1. pos = job.row.side /\ Abs(b.net) = 1
      BY <1>1, <1>3, <1>5, <1>7, RowSides, HasOf DEF Calm, Sides
    <2>2. job' \in Job /\ job'.pc = "mplace" /\ job'.row = job.row /\ job'.kind = job.kind /\ job'.qty = 1
      BY <1>1, <1>4, <1>5, <1>6, <1>7, <2>1, GoesTo
    <2>3. JobOk'
      BY <1>1, <1>2, <1>3, <2>1, <2>2, Kept
      DEF JobOk, MorningOk, CoverOk, EnterOk, HoldOk, HourOk, For
    <2> QED
      BY <1>1, <1>2, <1>5, <2>2, <2>3, JobMoves
  <1>8. CASE ~Has(job.row.side, b.net)
    <2>1. job' \in Job /\ job'.pc = "msettle" /\ job'.row = job.row /\ job'.kind = job.kind
      BY <1>1, <1>4, <1>5, <1>6, <1>8, GoesTo
    <2>2. JobOk'
      BY <1>1, <1>2, <1>3, <2>1, Kept
      DEF JobOk, MorningOk, CoverOk, EnterOk, HoldOk, HourOk, For
    <2> QED
      BY <1>1, <1>2, <1>5, <2>1, <2>2, JobMoves
  <1> QED
    BY <1>7, <1>8

\* Where no order can work: an entry needs AWAITING with an empty book, any other
\* order an open position.
LEMMA NoWork ==
    ASSUME Inv
    PROVE  /\ status.st = "SIGNAL" => Clear
           /\ status.st = "IN" /\ pos = 0 => Clear
           /\ status.st = "AWAIT" /\ (pos # 0 \/ Led = status.side) => Clear
           /\ \A i \in LiveIds : /\ status.st = "IN" => orders[i].side = -status.side
                                 /\ status.st = "AWAIT" => /\ orders[i].side = status.side
                                                           /\ orders[i].role = "ENTRY"
  <1>1. status.side \in {-1, 1} /\ \A i \in LiveIds : orders[i].side \in {-1, 1}
    BY RowSides DEF Inv, Sides, Book, Numbered, Order, LiveIds
  <1>2. \A i \in LiveIds : IF orders[i].role = "ENTRY" THEN EntryOk(i) ELSE CloserOk(i)
    BY DEF Inv, WorkOk
  <1>3. \A i \in LiveIds : status.st # "SIGNAL" /\ (status.st = "IN" => pos # 0)
    BY <1>1, <1>2 DEF EntryOk, CloserOk
  <1>4. \A i \in LiveIds : status.st = "AWAIT" => pos = 0 /\ Led # status.side
    BY <1>2 DEF EntryOk, CloserOk
  <1>5. \A i \in LiveIds : status.st = "IN" => orders[i].side = -status.side
    <2> SUFFICES ASSUME NEW i \in LiveIds, status.st = "IN" PROVE orders[i].side = -status.side
      OBVIOUS
    <2>1. pos = -orders[i].side
      BY <1>2 DEF EntryOk, CloserOk
    <2>2. pos \in {0, status.side}
      BY DEF Inv, RowOk
    <2> QED
      BY <1>1, <2>1, <2>2
  <1>6. \A i \in LiveIds :
           status.st = "AWAIT" => orders[i].side = status.side /\ orders[i].role = "ENTRY"
    BY <1>2 DEF EntryOk, CloserOk
  <1> QED
    BY <1>3, <1>4, <1>5, <1>6 DEF Clear

\* An order that closes the position is sent while nothing works.
LEMMA CloserPlaced ==
    ASSUME Inv, UNCHANGED <<world, env, status>>, Clear, status.st = "IN", pos = status.side,
           NEW role \in {"SL", "EXIT"}, NEW price \in Int, NEW qty, qty = 1,
           Place(-job.row.side, role, price, qty), job.row.side = status.side,
           job.pc # "idle", ~status.stale \/ job'.pc = "msettle"
    PROVE  Book' /\ Led' = Led /\ WorkOk' /\ RowOk' /\ OpOk'
  <1>1. UNCHANGED <<pos, feed, op, paused, phase>>
    BY DEF world
  <1>2. -job.row.side \in Sides /\ status.side \in {-1, 1}
    BY RowSides DEF Inv, Sides
  <1>3. /\ Book' /\ Led' = Led
        /\ \/ orders' = orders
           \/ \E n \in Ids : /\ LiveIds' = LiveIds \cup {n}
                             /\ orders'[n].side = -job.row.side /\ orders'[n].role = role
    BY <1>1, <1>2, PlaceEffect DEF Inv
  <1>4. WorkOk'
    <2>1. CASE orders' = orders
      <3>1. LiveIds' = {}
        BY <2>1 DEF Clear, LiveIds
      <3> QED
        BY <3>1 DEF WorkOk
    <2>2. CASE orders' # orders
      <3>1. PICK n \in Ids : /\ LiveIds' = {n}
                             /\ orders'[n].side = -job.row.side /\ orders'[n].role = role
        BY <1>3, <2>2 DEF Clear
      <3>2. CloserOk(n)'
        BY <1>1, <1>2, <3>1 DEF CloserOk
      <3> QED
        BY <3>1, <3>2 DEF WorkOk
    <2> QED
      BY <2>1, <2>2
  <1>5. RowOk'
    BY <1>1 DEF RowOk, Inv
  <1>6. OpOk'
    BY <1>1 DEF Inv, OpOk
  <1> QED
    BY <1>3, <1>4, <1>5, <1>6

\* An entry is sent over an empty book while nothing works.
LEMMA EntryPlaced ==
    ASSUME Inv, UNCHANGED <<world, env, status>>, Clear, status.st = "AWAIT", pos = 0,
           Led # status.side, NEW price \in Int,
           Place(job.row.side, "ENTRY", price, 1), job.row.side = status.side, job.pc # "idle"
    PROVE  Book' /\ Led' = Led /\ WorkOk' /\ RowOk' /\ OpOk'
  <1>1. UNCHANGED <<pos, feed, op, paused, phase>>
    BY DEF world
  <1>2. job.row.side \in Sides
    BY RowSides DEF Inv
  <1>3. /\ Book' /\ Led' = Led
        /\ \/ orders' = orders
           \/ \E n \in Ids : /\ LiveIds' = LiveIds \cup {n}
                             /\ orders'[n].side = job.row.side /\ orders'[n].role = "ENTRY"
    BY <1>1, <1>2, PlaceEffect DEF Inv
  <1>4. WorkOk'
    <2>1. CASE orders' = orders
      <3>1. LiveIds' = {}
        BY <2>1 DEF Clear, LiveIds
      <3> QED
        BY <3>1 DEF WorkOk
    <2>2. CASE orders' # orders
      <3>1. PICK n \in Ids : /\ LiveIds' = {n}
                             /\ orders'[n].side = job.row.side /\ orders'[n].role = "ENTRY"
        BY <1>3, <2>2 DEF Clear
      <3>2. EntryOk(n)'
        BY <1>1, <1>3, <3>1 DEF EntryOk
      <3> QED
        BY <3>1, <3>2 DEF WorkOk
    <2> QED
      BY <2>1, <2>2
  <1>5. RowOk'
    BY <1>1 DEF RowOk, Inv
  <1>6. OpOk'
    BY <1>1 DEF Inv, OpOk
  <1> QED
    BY <1>3, <1>4, <1>5, <1>6

LEMMA MorningPlaceInv ==
    ASSUME Prompt, Inv, MorningPlace, UNCHANGED <<world, env>>
    PROVE  Inv'
  <1>1. /\ Locals /\ Book /\ job.pc = "mplace" /\ UNCHANGED <<status, count>>
        /\ Place(-job.row.side, "EXIT", 0, job.qty) /\ Goes("msettle")
    BY NothingFails DEF Inv, MorningPlace
  <1>2. For("IN") /\ Calm /\ job.qty = 1 /\ pos = job.row.side
    BY <1>1 DEF Inv, JobOk, MorningOk
  <1>3. "msettle" \in PCs /\ 0 \in 0..2
    BY DEF PCs
  <1>4. job' \in Job /\ job'.pc = "msettle" /\ job'.row = job.row /\ job'.kind = job.kind
    BY <1>1, <1>3, GoesTo
  <1>5. Book' /\ Led' = Led /\ WorkOk' /\ RowOk' /\ OpOk'
    BY <1>1, <1>2, <1>4, CloserPlaced DEF For, Calm
  <1>6. JobOk'
    <2>1. job.kind = "eod" => phase' = "closed"
      BY <1>1 DEF Inv, JobOk, HourOk, world
    <2> QED
      BY <1>1, <1>2, <1>4, <2>1 DEF JobOk, MorningOk, CoverOk, EnterOk, HoldOk, HourOk, For
  <1>7. Locals'
    BY <1>1, <1>4, RowSides, LocalsStay
  <1> QED
    BY <1>5, <1>6, <1>7 DEF Inv

LEMMA MorningSettleInv ==
    ASSUME Prompt, Inv, MorningSettle, UNCHANGED <<world, env>>
    PROVE  Inv'
  <1>1. Locals /\ Book /\ job.pc = "msettle" /\ UNCHANGED orders /\ Ends
    BY DEF Inv, MorningSettle
  <1>2. Steady
    BY <1>1, SameOrders
  <1>3. For("IN") /\ pos \in {0, status.side}
    BY <1>1 DEF Inv, JobOk, MorningOk, RowOk, For
  <1>4. PICK b \in Books :
          /\ Read(b)
          /\ Writes(IF Has(job.row.side, b.net) THEN [status EXCEPT !.known = TRUE]
                    ELSE [ToSignal EXCEPT !.known = TRUE, !.old = FALSE])
    BY DEF MorningSettle
  <1>5. count' = count /\ b.net = Net /\ Net \in -1..1 /\ (pos # 0 => Net = pos)
    BY <1>1, <1>4, ReadsOf
  <1>6. JobOk' /\ job' \in Job
    BY <1>1, IdleOk DEF Ends
  <1>7. CASE Has(job.row.side, b.net)
    <2>1. /\ status' \in Status /\ status'.st = "IN" /\ status'.side = status.side
          /\ ~status'.stale
      BY <1>1, <1>3, <1>4, <1>7, RowSides DEF Writes, Status, For
    <2>2. Locals'
      BY <1>1, <1>5, <1>6, <2>1, LocalsStay
    <2> QED
      BY <1>1, <1>2, <1>3, <1>6, <2>1, <2>2, JobWrites DEF For
  <1>8. CASE ~Has(job.row.side, b.net)
    <2>1. pos = 0 /\ Clear
      BY <1>1, <1>3, <1>5, <1>8, RowSides, HasOf, NoWork DEF For
    <2>2. status' \in Status /\ status'.st = "SIGNAL" /\ ~status'.stale
      BY <1>1, <1>4, <1>8, RowSides DEF Writes, ToSignal, Status
    <2>3. Locals'
      BY <1>1, <1>5, <1>6, <2>2, LocalsStay
    <2> QED
      BY <1>1, <1>2, <1>6, <2>1, <2>2, <2>3, JobWrites
  <1> QED
    BY <1>7, <1>8

LEMMA CandleInv ==
    ASSUME Prompt, Inv, Candle, UNCHANGED <<world, env>>
    PROVE  Inv'
  <1>1. Locals /\ Book /\ job.pc = "candle" /\ UNCHANGED <<status, orders>>
    BY DEF Inv, Candle
  <1>2. Steady
    BY <1>1, SameOrders
  <1>3. For(job.row.st) /\ (job.row.st = "IN" => ~status.stale)
    BY <1>1 DEF Inv, JobOk, MorningOk
  <1>4. {"cov1", "hold1", "ent1"} \subseteq PCs /\ 0 \in 0..2
    BY DEF PCs
  <1>5. ASSUME NEW pc \in {"cov1", "hold1", "ent1"}, Goes(pc), UNCHANGED count,
               IF pc = "ent1" THEN job.row.st = "AWAIT" ELSE job.row.st = "IN"
        PROVE  Inv'
    <2>1. job' \in Job /\ job'.pc = pc /\ job'.row = job.row /\ job'.kind = job.kind
      BY <1>1, <1>4, <1>5, GoesTo
    <2>2. JobOk'
      BY <1>1, <1>2, <1>3, <1>5, <2>1, Kept
      DEF JobOk, MorningOk, CoverOk, EnterOk, HoldOk, HourOk, For
    <2> QED
      BY <1>1, <1>2, <1>5, <2>1, <2>2, JobMoves
  <1>6. CASE /\ job.row.st = "IN"
             /\ \E touched \in Touches : Goes(IF touched THEN "cov1" ELSE "hold1")
             /\ UNCHANGED count
    <2>1. Goes("cov1") \/ Goes("hold1")
      BY <1>6
    <2> QED
      BY <1>5, <1>6, <2>1
  <1>7. CASE /\ job.row.st = "AWAIT"
             /\ \E b \in Books, crossed \in BOOLEAN :
                   /\ Read(b)
                   /\ IF crossed \/ Has(job.row.side, b.net) THEN Goes("ent1") ELSE Ends
    <2>1. UNCHANGED count
      BY <1>1, <1>7, ReadsOf
    <2>2. Goes("ent1") \/ Ends
      BY <1>7
    <2>3. CASE Ends
      BY <1>1, <1>2, <2>1, <2>3, JobEnds
    <2> QED
      BY <1>5, <1>7, <2>1, <2>2, <2>3
  <1> QED
    BY <1>1, <1>6, <1>7, NothingFails DEF Candle

LEMMA CoverOrdersInv ==
    ASSUME Prompt, Inv, CoverOrders, UNCHANGED <<world, env>>
    PROVE  Inv'
  <1>1. /\ Locals /\ Book /\ job.pc = "cov1" /\ UNCHANGED <<status, count>>
        /\ orders' = Synced
        /\ job' = [job EXCEPT !.pc = "cov2", !.done = Listed(-job.row.side) \cap Done,
                              !.work = Working(-job.row.side)]
    BY NothingFails DEF Inv, CoverOrders
  <1>2. Steady
    BY <1>1, SyncedOrders
  <1>3. For("IN") /\ ~status.stale
    BY <1>1 DEF Inv, JobOk, CoverOk
  <1>4. LiveIds \subseteq Working(-job.row.side) /\ Working(-job.row.side) \subseteq Ids
    <2>1. \A i \in LiveIds : orders[i].side = -job.row.side
      BY <1>3, NoWork DEF For
    <2>2. \A i \in LiveIds : i \in Ids /\ orders[i].st \in Live /\ orders[i].listed /\ orders[i].st # "none"
      BY <1>1 DEF LiveIds, Live, Book, OrdersOk, OrderOk
    <2> QED
      BY <2>1, <2>2 DEF Working, Listed, On, Sent
  <1>5. /\ job' \in Job /\ job'.pc = "cov2" /\ job'.row = job.row /\ job'.kind = job.kind
        /\ job'.work = Working(-job.row.side)
    <2>1. Listed(-job.row.side) \cap Done \subseteq Ids
      BY DEF Done
    <2>2. job \in Job /\ "cov2" \in PCs
      BY <1>1, RowSides DEF PCs
    <2> QED
      BY <1>1, <1>4, <2>1, <2>2 DEF Job
  <1>6. JobOk'
    <2>1. LiveIds' \subseteq job'.work
      BY <1>2, <1>4, <1>5 DEF Steady
    <2> QED
      BY <1>1, <1>2, <1>3, <1>5, <2>1, Kept
      DEF JobOk, MorningOk, CoverOk, EnterOk, HoldOk, HourOk, For
  <1> QED
    BY <1>1, <1>2, <1>5, <1>6, JobMoves

\* At most the open lot is covered.
LEMMA CoverSizes ==
    ASSUME NEW kite \in -1..1, NEW opened \in Int, NEW filled \in Nat
    PROVE  /\ CoverQty(kite, opened, filled) \in 0..1
           /\ CoverQty(kite, opened, filled) # 0 => CoverQty(kite, opened, filled) = 1
  <1>1. CASE kite = 0
    BY <1>1 DEF CoverQty, Abs
  <1>2. CASE kite # 0
    <2>1. Abs(kite) = 1
      BY <1>2 DEF Abs
    <2>2. CASE filled >= 1
      BY <2>1, <2>2 DEF CoverQty
    <2>3. CASE filled < 1
      <3>1. filled = 0
        BY <2>3
      <3>2. Abs(opened) \in Int /\ Pos(Abs(opened) - 1) \in Nat
        BY DEF Abs, Pos
      <3>3. Pos(0 - Pos(Abs(opened) - 1)) = 0
        BY <3>2 DEF Pos
      <3>4. Pos(1 - 0) = 1
        BY DEF Pos
      <3> QED
        BY <2>1, <3>1, <3>3, <3>4 DEF CoverQty
    <2> QED
      BY <2>2, <2>3
  <1> QED
    BY <1>1, <1>2

LEMMA CoverReads ==
    ASSUME Book, NEW fills \in SUBSET Ids
    PROVE  OpenedQty \in Int /\ EpisodeFills(fills) \in Nat
  <1>1. OpenedBy \in SUBSET Ids /\ Numbered
    BY DEF OpenedBy, Done, Book
  <1>2. OpenedQty \in Int
    BY <1>1, MaxIds, SignedType DEF OpenedQty
  <1>3. ASSUME NEW since PROVE Abs(QtyOf({i \in fills : i > since})) \in Nat
    <2>1. {i \in fills : i > since} \in SUBSET Ids
      OBVIOUS
    <2>2. QtyOf({i \in fills : i > since}) \in Int
      BY <1>1, <2>1, QtyType
    <2> QED
      BY <2>2 DEF Abs
  <1> QED
    BY <1>2, <1>3 DEF EpisodeFills

LEMMA CoverSizeInv ==
    ASSUME Prompt, Inv, CoverSize, UNCHANGED <<world, env>>
    PROVE  Inv'
  <1>1. Locals /\ Book /\ job.pc = "cov2" /\ UNCHANGED <<status, orders>>
    BY DEF Inv, CoverSize
  <1>2. Steady
    BY <1>1, SameOrders
  <1>3. For("IN") /\ ~status.stale /\ LiveIds \subseteq job.work
    BY <1>1 DEF Inv, JobOk, CoverOk
  <1>4. PICK b, cover, plan :
          /\ b \in Books
          /\ cover = CoverQty(b.kite, OpenedQty, EpisodeFills(job.done))
          /\ plan = CoverPlan(b, cover)
          /\ Read(b)
          /\ job' = [job EXCEPT !.pc = IF plan \in {"convert", "place"} THEN "cov3" ELSE "cov4",
                                !.plan = plan, !.qty = cover]
    BY DEF CoverSize
  <1>5. count' = count /\ b.kite = pos /\ pos \in -1..1
    BY <1>1, <1>4, ReadsOf DEF Book, BookOk
  <1>6. cover \in 0..1 /\ (cover # 0 => cover = 1)
    <2>1. job.done \in SUBSET Ids
      BY <1>1 DEF Locals, Job
    <2>2. OpenedQty \in Int /\ EpisodeFills(job.done) \in Nat
      BY <1>1, <2>1, CoverReads
    <2> QED
      BY <1>4, <1>5, <2>2, CoverSizes
  <1>7. /\ plan \in {"skip", "covered", "convert", "place"}
        /\ plan = "place" => cover = 1 /\ pos = job.row.side /\ Clear
    <2>1. plan \in {"skip", "covered", "convert", "place"}
          /\ (plan = "place" => cover # 0 /\ Has(job.row.side, b.kite) /\ job.work = {})
      BY <1>4 DEF CoverPlan
    <2>2. Has(job.row.side, b.kite) => pos = job.row.side
      BY <1>1, <1>5, RowSides, HasOf
    <2> QED
      BY <1>3, <1>6, <2>1, <2>2 DEF Clear
  <1>8. /\ job' \in Job /\ job'.pc \in {"cov3", "cov4"} /\ job'.plan = plan /\ job'.qty = cover
        /\ job'.row = job.row /\ job'.kind = job.kind
    <2>1. PICK pc : /\ pc \in {"cov3", "cov4"}
                    /\ job' = [job EXCEPT !.pc = pc, !.plan = plan, !.qty = cover]
      BY <1>4
    <2>2. pc \in PCs /\ plan \in Plans /\ cover \in 0..2
      BY <1>6, <1>7, <2>1 DEF PCs, Plans
    <2>3. job \in Job
      BY <1>1, RowSides
    <2> QED
      BY <2>1, <2>2, <2>3 DEF Job
  <1>9. JobOk'
    BY <1>1, <1>2, <1>3, <1>7, <1>8, Kept
    DEF JobOk, MorningOk, CoverOk, EnterOk, HoldOk, HourOk, For
  <1> QED
    BY <1>1, <1>2, <1>5, <1>8, <1>9, JobMoves

LEMMA CoverSendInv ==
    ASSUME Prompt, Inv, CoverSend, UNCHANGED <<world, env>>
    PROVE  Inv'
  <1>1. /\ Locals /\ Book /\ job.pc = "cov3" /\ UNCHANGED <<status, count>>
        /\ \/ \E i \in job.work :
                IF i \in Working(-job.row.side)
                THEN orders' = [orders EXCEPT ![i].st = "market"] /\ Goes("cov4")
                ELSE UNCHANGED orders /\ job' = [job EXCEPT !.pc = "cov4", !.plan = "skip"]
           \/ job.plan = "place" /\ Place(-job.row.side, "EXIT", 0, job.qty) /\ Goes("cov4")
    BY NothingFails DEF Inv, CoverSend
  <1>2. For("IN") /\ ~status.stale
        /\ (job.plan = "place" => Clear /\ job.qty = 1 /\ pos = job.row.side)
    BY <1>1 DEF Inv, JobOk, CoverOk
  <1>3. "cov4" \in PCs /\ 0 \in 0..2 /\ "skip" \in Plans
    BY DEF PCs, Plans
  <1>4. UNCHANGED <<pos, feed, op, paused, phase>> /\ (job.kind = "eod" => phase' = "closed")
    BY <1>1 DEF world, Inv, JobOk, HourOk
  <1>5. ASSUME job' \in Job, job'.pc = "cov4", job'.row = job.row, job'.kind = job.kind
        PROVE  JobOk' /\ Locals'
    <2>1. JobOk'
      BY <1>1, <1>2, <1>4, <1>5 DEF JobOk, MorningOk, CoverOk, EnterOk, HoldOk, HourOk, For
    <2> QED
      BY <1>1, <1>5, <2>1, RowSides, LocalsStay
  <1>6. ASSUME Goes("cov4") PROVE job' \in Job /\ job'.pc = "cov4" /\ job'.row = job.row /\ job'.kind = job.kind
    BY <1>1, <1>3, <1>6, GoesTo
  <1>7. ASSUME NEW i \in job.work, i \in Working(-job.row.side),
               orders' = [orders EXCEPT ![i].st = "market"], Goes("cov4")
        PROVE  Inv'
    <2>1. i \in Ids /\ i \in LiveIds /\ orders[i] \in Order
      BY <1>1, <1>7 DEF Working, Listed, On, Sent, LiveIds, Book, Numbered
    <2>2. /\ orders'[i] = [orders[i] EXCEPT !.st = "market"]
          /\ \A j \in Ids \ {i} : orders'[j] = orders[j]
      BY <1>1, <1>7, <2>1 DEF Book, Numbered
    <2>3. Numbered'
      <3>1. [orders[i] EXCEPT !.st = "market"] \in Order
        BY <2>1 DEF Order, Live
      <3> QED
        BY <1>1, <1>7, <2>1, <3>1 DEF Book, Numbered
    <2>4. /\ Book' /\ Led' = Led /\ LiveIds' = LiveIds
          /\ \A j \in LiveIds : orders'[j].side = orders[j].side /\ orders'[j].role = orders[j].role
      <3>1. PICK W : W = {i}
        OBVIOUS
      <3>2. W \subseteq LiveIds /\ "market" \in {"market", "cancelled"}
            /\ (\A j \in W : orders'[j] = [orders[j] EXCEPT !.st = "market"])
            /\ (\A j \in Ids \ W : orders'[j] = orders[j])
        BY <2>1, <2>2, <3>1
      <3> QED
        BY <1>1, <1>4, <2>3, <3>2, AmendEffect
    <2>5. WorkOk'
      BY <1>1, <1>4, <2>4 DEF Inv, WorkOk, EntryOk, CloserOk
    <2>6. RowOk' /\ OpOk'
      BY <1>1, <1>2, <1>4 DEF Inv, RowOk, OpOk, For
    <2> QED
      BY <1>5, <1>6, <1>7, <2>4, <2>5, <2>6 DEF Inv
  <1>8. ASSUME UNCHANGED orders, job' = [job EXCEPT !.pc = "cov4", !.plan = "skip"] PROVE Inv'
    <2>1. job' \in Job /\ job'.pc = "cov4" /\ job'.row = job.row /\ job'.kind = job.kind
      <3>1. job \in Job
        BY <1>1, RowSides
      <3> QED
        BY <1>3, <1>8, <3>1 DEF Job
    <2>2. Steady
      BY <1>1, <1>8, SameOrders
    <2> QED
      BY <1>1, <1>5, <2>1, <2>2, JobMoves
  <1>9. ASSUME job.plan = "place", Place(-job.row.side, "EXIT", 0, job.qty), Goes("cov4") PROVE Inv'
    <2>1. Book' /\ Led' = Led /\ WorkOk' /\ RowOk' /\ OpOk'
      BY <1>1, <1>2, <1>9, CloserPlaced DEF For
    <2> QED
      BY <1>5, <1>6, <1>9, <2>1 DEF Inv
  <1> QED
    BY <1>1, <1>7, <1>8, <1>9

LEMMA CoverClearInv ==
    ASSUME Prompt, Inv, CoverClear, UNCHANGED <<world, env>>
    PROVE  Inv'
  <1>1. Locals /\ Book /\ job.pc = "cov4" /\ UNCHANGED orders /\ Ends
    BY DEF Inv, CoverClear
  <1>2. Steady
    BY <1>1, SameOrders
  <1>3. For("IN") /\ pos \in {0, status.side}
    BY <1>1 DEF Inv, JobOk, CoverOk, RowOk, For
  <1>4. PICK b \in Books :
          /\ Read(b)
          /\ IF b.known /\ b.kite = 0 /\ job.plan # "skip" THEN Writes(ToSignal)
             ELSE UNCHANGED status
    BY DEF CoverClear
  <1>5. count' = count /\ b.kite = pos
    BY <1>1, <1>4, ReadsOf
  <1>6. JobOk' /\ job' \in Job
    BY <1>1, IdleOk DEF Ends
  <1>7. CASE UNCHANGED status
    BY <1>1, <1>2, <1>5, <1>7, JobEnds
  <1>8. CASE b.kite = 0 /\ Writes(ToSignal)
    <2>1. pos = 0 /\ Clear
      BY <1>3, <1>5, <1>8, NoWork DEF For
    <2>2. status' \in Status /\ status'.st = "SIGNAL" /\ ~status'.stale
      BY <1>1, <1>8, RowSides DEF Writes, ToSignal, Status
    <2>3. Locals'
      BY <1>1, <1>5, <1>6, <2>2, LocalsStay
    <2> QED
      BY <1>1, <1>2, <1>6, <2>1, <2>2, <2>3, JobWrites
  <1> QED
    BY <1>4, <1>7, <1>8

\* What the book tells a job about the signal it works on.
LEMMA AwaitReads ==
    ASSUME Prompt, Inv, For("AWAIT")
    PROVE  /\ Has(job.row.side, Net) => Clear /\ (pos # 0 \/ Led = job.row.side)
           /\ ~Has(job.row.side, Net) => pos = 0 /\ Led # job.row.side
           /\ pos \in {0, job.row.side}
  <1>1. pos \in {0, status.side} /\ job.row.side = status.side /\ status.st = "AWAIT"
    BY DEF Inv, RowOk, For
  <1>2. Net \in -1..1 /\ (pos # 0 => Net = pos) /\ (pos = 0 => Net = Led)
    BY ReadsOf DEF Inv
  <1>3. Has(job.row.side, Net) <=> Net = job.row.side
    BY <1>2, RowSides, HasOf DEF Inv
  <1> QED
    BY <1>1, <1>2, <1>3, NoWork

LEMMA EntryBookInv ==
    ASSUME Prompt, Inv, EntryBook, UNCHANGED <<world, env>>
    PROVE  Inv'
  <1>1. Locals /\ Book /\ job.pc = "ent1" /\ UNCHANGED <<status, orders>>
    BY DEF Inv, EntryBook
  <1>2. Steady /\ Led' = Led
    BY <1>1, SameOrders
  <1>3. For("AWAIT")
    BY <1>1 DEF Inv, JobOk, EnterOk
  <1>4. CASE Ends /\ UNCHANGED count
    BY <1>1, <1>2, <1>4, JobEnds
  <1>5. ASSUME NEW b \in Books, Read(b), ~(Hourly /\ Has(job.row.side, b.net)),
               job' = [job EXCEPT !.pc = "ent2", !.net = b.net, !.known = b.known]
        PROVE  Inv'
    <2>1. count' = count /\ b.net = Net /\ b.known = TRUE /\ Net \in -2..2
      <3>1. count' = count /\ b.net = Net /\ b.known /\ Net \in -1..1
        BY <1>1, <1>5, ReadsOf
      <3>2. b = [kite |-> feed, net |-> IF feed # 0 THEN feed ELSE Led, known |-> TRUE]
        BY <1>1, NothingFails DEF Books
      <3> QED
        BY <3>1, <3>2
    <2>2. /\ job' \in Job /\ job'.pc = "ent2" /\ job'.row = job.row /\ job'.kind = job.kind
          /\ job'.net = Net /\ job'.known
      <3>1. job \in Job /\ "ent2" \in PCs
        BY <1>1, RowSides DEF PCs
      <3>2. job' = [job EXCEPT !.pc = "ent2", !.net = Net, !.known = TRUE]
        BY <1>5, <2>1
      <3> QED
        BY <2>1, <3>1, <3>2 DEF Job
    <2>3. /\ Wants' => Clear /\ ~Hourly
          /\ ~Wants' => pos = 0 /\ ~Behind
      BY <1>3, <1>5, <2>1, <2>2, AwaitReads DEF Wants, Behind
    <2>4. (Behind' <=> Behind) /\ (Hourly' <=> Hourly)
      BY <1>2, <2>2 DEF Behind, Hourly
    <2>5. JobOk'
      BY <1>1, <1>2, <1>3, <2>2, <2>3, <2>4, Kept
      DEF JobOk, MorningOk, CoverOk, EnterOk, HoldOk, HourOk, For
    <2> QED
      BY <1>1, <1>2, <2>1, <2>2, <2>5, JobMoves
  <1>6. ASSUME NEW b \in Books, Read(b), Ends PROVE Inv'
    BY <1>1, <1>4, <1>6, ReadsOf
  <1> QED
    BY <1>4, <1>5, <1>6 DEF EntryBook

LEMMA EntryLedgerInv ==
    ASSUME Prompt, Inv, EntryLedger, UNCHANGED <<world, env>>
    PROVE  Inv'
  <1>1. Locals /\ Book /\ job.pc = "ent2" /\ UNCHANGED <<status, orders, count>>
    BY DEF Inv, EntryLedger
  <1>2. Steady /\ Led' = Led
    BY <1>1, SameOrders
  <1>3. /\ For("AWAIT") /\ job.known /\ (Wants => Clear /\ ~Hourly)
        /\ (~Wants => ~Behind /\ (pos = 0 \/ OpenEntryRow(job.row.side)))
    BY <1>1 DEF Inv, JobOk, EnterOk
  <1>4. PICK flag \in BOOLEAN : /\ flag = OpenEntryRow(job.row.side)
                                /\ job' = [job EXCEPT !.pc = "ent3", !.flag = flag]
    BY DEF EntryLedger, OpenEntryRow
  <1>5. /\ job' \in Job /\ job'.pc = "ent3" /\ job'.row = job.row /\ job'.kind = job.kind
        /\ job'.net = job.net /\ job'.known = job.known /\ job'.flag = flag
    <2>1. job \in Job /\ "ent3" \in PCs
      BY <1>1, RowSides DEF PCs
    <2> QED
      BY <1>4, <2>1 DEF Job
  <1>6. ~OpenEntryRow(job.row.side) => Clear
    <2> SUFFICES ASSUME NEW i \in LiveIds PROVE OpenEntryRow(job.row.side)
      BY DEF Clear
    <2>1. /\ i \in Ids /\ orders[i].st # "none" /\ ~orders[i].booked
          /\ orders[i].role = "ENTRY" /\ orders[i].side = job.row.side
      BY <1>1, <1>3, NoWork DEF LiveIds, Live, Book, OrdersOk, OrderOk, For
    <2> QED
      BY <2>1 DEF OpenEntryRow, On, Sent
  <1>7. (Wants' <=> Wants) /\ (Behind' <=> Behind) /\ (Hourly' <=> Hourly)
    BY <1>2, <1>5 DEF Wants, Behind, Hourly
  <1>8. JobOk'
    BY <1>1, <1>2, <1>3, <1>4, <1>5, <1>6, <1>7, Kept
    DEF JobOk, MorningOk, CoverOk, EnterOk, HoldOk, HourOk, For
  <1> QED
    BY <1>1, <1>2, <1>5, <1>8, JobMoves

LEMMA EntryOrdersInv ==
    ASSUME Prompt, Inv, EntryOrders, UNCHANGED <<world, env>>
    PROVE  Inv'
  <1>1. /\ Locals /\ Book /\ job.pc = "ent3" /\ UNCHANGED <<status, count>>
        /\ orders' = IF Hourly THEN orders ELSE Synced
        /\ \/ Ends
           \/ Wants /\ Goes("ent6")
           \/ ~Wants /\ ~job.flag /\ Goes("ent4")
    BY NothingFails DEF Inv, EntryOrders, EntryWorks, Wants
  <1>2. Steady /\ (~Hourly => Led' = pos)
    BY <1>1, SameOrders, SyncedOrders
  <1>3. /\ For("AWAIT") /\ (Wants => Clear /\ ~Hourly)
        /\ (~Wants /\ ~job.flag => Clear /\ ~Behind /\ pos = 0)
    BY <1>1 DEF Inv, JobOk, EnterOk
  <1>4. {"ent4", "ent6"} \subseteq PCs /\ 0 \in 0..2
    BY DEF PCs
  <1>5. CASE Ends
    BY <1>1, <1>2, <1>5, JobEnds
  <1>6. CASE Wants /\ Goes("ent6")
    <2>1. job' \in Job /\ job'.pc = "ent6" /\ job'.row = job.row /\ job'.kind = job.kind
      BY <1>1, <1>4, <1>6, GoesTo
    <2>2. JobOk'
      BY <1>1, <1>2, <1>3, <1>6, <2>1, Kept
      DEF JobOk, MorningOk, CoverOk, EnterOk, HoldOk, HourOk, For
    <2> QED
      BY <1>1, <1>2, <2>1, <2>2, JobMoves
  <1>7. CASE ~Wants /\ ~job.flag /\ Goes("ent4")
    <2>1. job' \in Job /\ job'.pc = "ent4" /\ job'.row = job.row /\ job'.kind = job.kind
      BY <1>1, <1>4, <1>7, GoesTo
    <2>2. ~Behind'
      BY <1>1, <1>2, <1>3, <1>7, <2>1, RowSides DEF Behind, Steady, Sides
    <2>3. JobOk'
      BY <1>1, <1>2, <1>3, <1>7, <2>1, <2>2, Kept
      DEF JobOk, MorningOk, CoverOk, EnterOk, HoldOk, HourOk, For
    <2> QED
      BY <1>1, <1>2, <2>1, <2>3, JobMoves
  <1> QED
    BY <1>1, <1>5, <1>6, <1>7

LEMMA EntrySendInv ==
    ASSUME Prompt, Inv, EntrySend, UNCHANGED <<world, env>>
    PROVE  Inv'
  <1>1. Locals /\ Book /\ job.pc = "ent4" /\ UNCHANGED <<status, count>>
    BY NothingFails DEF Inv, EntrySend
  <1>2. For("AWAIT") /\ Clear /\ ~Behind /\ pos = 0
    BY <1>1 DEF Inv, JobOk, EnterOk
  <1>3. job.row.entry \in Int /\ "ent5" \in PCs /\ 0 \in 0..2
    BY <1>1, RowSides DEF Status, PCs
  <1>4. ASSUME NEW price \in Int, Place(job.row.side, "ENTRY", price, 1),
               IF Hourly THEN Ends ELSE Goes("ent5")
        PROVE  Inv'
    <2>1. Book' /\ Led' = Led /\ WorkOk' /\ RowOk' /\ OpOk'
      BY <1>1, <1>2, <1>4, EntryPlaced DEF For, Behind
    <2>2. job' \in Job /\ JobOk'
      <3>1. CASE Ends
        BY <3>1, IdleOk DEF Ends
      <3>2. CASE Goes("ent5")
        <4>1. job' \in Job /\ job'.pc = "ent5" /\ job'.row = job.row /\ job'.kind = job.kind
          BY <1>1, <1>3, <3>2, GoesTo
        <4>2. ~Behind' /\ (job.kind = "eod" => phase' = "closed")
          BY <1>1, <1>2, <2>1, <4>1 DEF Behind, Inv, JobOk, HourOk, world
        <4> QED
          BY <1>1, <1>2, <4>1, <4>2 DEF JobOk, MorningOk, CoverOk, EnterOk, HoldOk, HourOk, For
      <3> QED
        BY <1>4, <3>1, <3>2
    <2>3. Locals'
      BY <1>1, <2>2, RowSides, LocalsStay
    <2> QED
      BY <2>1, <2>2, <2>3 DEF Inv
  <1>5. ASSUME Ends, UNCHANGED orders PROVE Inv'
    BY <1>1, <1>5, SameOrders, JobEnds
  <1> QED
    BY <1>1, <1>3, <1>4, <1>5, NothingFails DEF EntrySend

LEMMA EntryFilledInv ==
    ASSUME Prompt, Inv, EntryFilled, UNCHANGED <<world, env>>
    PROVE  Inv'
  <1>1. Locals /\ Book /\ job.pc = "ent5" /\ UNCHANGED <<status, orders>>
    BY DEF Inv, EntryFilled
  <1>2. Steady /\ Led' = Led
    BY <1>1, SameOrders
  <1>3. For("AWAIT") /\ (pos # 0 \/ ~Behind)
    BY <1>1 DEF Inv, JobOk, EnterOk
  <1>4. PICK b \in Books : Read(b) /\ IF Has(job.row.side, b.net) THEN Goes("ent6") ELSE Ends
    BY DEF EntryFilled
  <1>5. count' = count /\ b.net = Net
    BY <1>1, <1>4, ReadsOf
  <1>6. CASE Ends
    BY <1>1, <1>2, <1>5, <1>6, JobEnds
  <1>7. CASE Has(job.row.side, Net) /\ Goes("ent6")
    <2>1. "ent6" \in PCs /\ 0 \in 0..2
      BY DEF PCs
    <2>2. job' \in Job /\ job'.pc = "ent6" /\ job'.row = job.row /\ job'.kind = job.kind
      BY <1>1, <1>7, <2>1, GoesTo
    <2>3. Clear /\ pos # 0
      BY <1>3, <1>7, AwaitReads DEF Behind
    <2>4. Clear' /\ LiveIds' = {} /\ pos' # 0 /\ (job.kind = "eod" => phase' = "closed")
      BY <1>1, <1>2, <2>3, Kept DEF Clear
    <2>5. JobOk'
      BY <1>1, <1>3, <2>2, <2>4
      DEF JobOk, MorningOk, CoverOk, EnterOk, HoldOk, HourOk, For
    <2> QED
      BY <1>1, <1>2, <1>5, <2>2, <2>5, JobMoves
  <1> QED
    BY <1>4, <1>5, <1>6, <1>7

LEMMA EntryStatusInv ==
    ASSUME Prompt, Inv, EntryStatus, UNCHANGED <<world, env>>
    PROVE  Inv'
  <1>1. /\ Locals /\ Book /\ job.pc = "ent6" /\ UNCHANGED <<orders, count>> /\ Goes("ent7")
        /\ Writes([status EXCEPT !.st = "IN", !.side = job.row.side, !.breach = FALSE, !.old = FALSE])
    BY DEF Inv, EntryStatus
  <1>2. Steady /\ Led' = Led
    BY <1>1, SameOrders
  <1>3. For("AWAIT") /\ Clear /\ (pos # 0 \/ Led = 0) /\ pos \in {0, job.row.side}
    BY <1>1, AwaitReads DEF Inv, JobOk, EnterOk
  <1>4. status' \in Status /\ status'.st = "IN" /\ status'.side = job.row.side /\ ~status'.stale
    BY <1>1, RowSides DEF Writes, Status
  <1>5. "ent7" \in PCs /\ 0 \in 0..2
    BY DEF PCs
  <1>6. job' \in Job /\ job'.pc = "ent7" /\ job'.row = job.row /\ job'.kind = job.kind
    BY <1>1, <1>5, GoesTo
  <1>7. JobOk'
    BY <1>1, <1>2, <1>3, <1>4, <1>6, Kept
    DEF JobOk, MorningOk, CoverOk, EnterOk, HoldOk, HourOk, For
  <1>8. Locals'
    BY <1>1, <1>4, <1>6, LocalsStay
  <1> QED
    BY <1>1, <1>2, <1>3, <1>4, <1>7, <1>8, JobWrites

LEMMA EntryStopInv ==
    ASSUME Prompt, Inv, EntryStop, UNCHANGED <<world, env>>
    PROVE  Inv'
  <1>1. Locals /\ Book /\ job.pc = "ent7" /\ UNCHANGED status /\ Ends
    BY DEF Inv, EntryStop
  <1>2. For("IN") /\ ~status.stale /\ Clear /\ (pos # 0 \/ Led = 0) /\ pos \in {0, status.side}
    BY <1>1 DEF Inv, JobOk, EnterOk, RowOk, For
  <1>3. PICK b \in Books :
          /\ Read(b)
          /\ IF Has(job.row.side, b.net)
             THEN Place(-job.row.side, "SL", job.row.sl, Abs(b.net)) ELSE UNCHANGED orders
    BY <1>1, NothingFails DEF EntryStop
  <1>4. count' = count /\ b.net = Net /\ Net \in -1..1 /\ (pos # 0 => Net = pos) /\ (pos = 0 => Net = Led)
    BY <1>1, <1>3, ReadsOf
  <1>5. CASE UNCHANGED orders
    BY <1>1, <1>4, <1>5, SameOrders, JobEnds
  <1>6. CASE Has(job.row.side, b.net) /\ Place(-job.row.side, "SL", job.row.sl, Abs(b.net))
    <2>1. pos = status.side /\ Abs(b.net) = 1 /\ job.row.sl \in Int
      <3>1. Net = job.row.side /\ Abs(b.net) = 1
        BY <1>1, <1>4, <1>6, RowSides, HasOf DEF Sides
      <3>2. job.row.side # 0 /\ job.row.sl \in Int
        BY <1>1, RowSides DEF Sides, Status
      <3> QED
        BY <1>2, <1>4, <3>1, <3>2 DEF For
    <2>2. Book' /\ Led' = Led /\ WorkOk' /\ RowOk' /\ OpOk'
      BY <1>1, <1>2, <1>6, <2>1, CloserPlaced DEF For
    <2>3. job' \in Job /\ JobOk'
      BY <1>1, IdleOk DEF Ends
    <2>4. Locals'
      BY <1>1, <1>4, <2>3, RowSides, LocalsStay
    <2> QED
      BY <2>2, <2>3, <2>4 DEF Inv
  <1> QED
    BY <1>3, <1>5, <1>6

\* What the book tells a job about the position it holds.
LEMMA HeldReads ==
    ASSUME Prompt, Inv, For("IN")
    PROVE  /\ Has(job.row.side, Net) => Abs(Net) = 1
           /\ ~Has(job.row.side, Net) => pos = 0 /\ Clear
           /\ Has(job.row.side, pos) => pos = job.row.side
           /\ pos \in {0, job.row.side} /\ Net \in -1..1
  <1>1. pos \in {0, status.side} /\ job.row.side = status.side /\ status.st = "IN"
    BY DEF Inv, RowOk, For
  <1>2. Net \in -1..1 /\ (pos # 0 => Net = pos) /\ pos \in -1..1
    BY ReadsOf DEF Inv, Book, BookOk
  <1>3. /\ Has(job.row.side, Net) <=> Net = job.row.side
        /\ Has(job.row.side, pos) <=> pos = job.row.side
        /\ Net # 0 => Abs(Net) = 1
    BY <1>2, RowSides, HasOf DEF Inv
  <1>4. job.row.side # 0
    BY RowSides DEF Inv, Sides
  <1> QED
    BY <1>1, <1>2, <1>3, <1>4, NoWork

LEMMA HoldBookInv ==
    ASSUME Prompt, Inv, HoldBook, UNCHANGED <<world, env>>
    PROVE  Inv'
  <1>1. Locals /\ Book /\ job.pc = "hold1" /\ UNCHANGED <<status, orders>>
    BY DEF Inv, HoldBook
  <1>2. Steady
    BY <1>1, SameOrders
  <1>3. For("IN") /\ ~status.stale
    BY <1>1 DEF Inv, JobOk, HoldOk
  <1>4. PICK b \in Books :
          Read(b) /\ job' = [job EXCEPT !.pc = "hold2", !.net = b.net, !.known = b.known]
    BY DEF HoldBook
  <1>5. count' = count /\ b.net = Net /\ b.known = TRUE /\ Net \in -1..1
    <2>1. count' = count /\ b.net = Net /\ Net \in -1..1
      BY <1>1, <1>4, ReadsOf
    <2>2. b = [kite |-> feed, net |-> IF feed # 0 THEN feed ELSE Led, known |-> TRUE]
      BY <1>1, NothingFails DEF Books
    <2> QED
      BY <2>1, <2>2
  <1>6. /\ job' \in Job /\ job'.pc = "hold2" /\ job'.row = job.row /\ job'.kind = job.kind
        /\ job'.net = Net
    <2>1. job \in Job /\ "hold2" \in PCs /\ Net \in -2..2
      BY <1>1, <1>5, RowSides DEF PCs
    <2>2. job' = [job EXCEPT !.pc = "hold2", !.net = Net, !.known = TRUE]
      BY <1>4, <1>5
    <2> QED
      BY <2>1, <2>2 DEF Job
  <1>7. Wants' \/ pos = 0
    BY <1>3, <1>6, HeldReads DEF Wants
  <1>8. JobOk'
    BY <1>1, <1>2, <1>3, <1>5, <1>6, <1>7, Kept
    DEF JobOk, MorningOk, CoverOk, EnterOk, HoldOk, HourOk, For
  <1> QED
    BY <1>1, <1>2, <1>5, <1>6, <1>8, JobMoves

LEMMA HoldSyncInv ==
    ASSUME Prompt, Inv, HoldSync, UNCHANGED <<world, env>>
    PROVE  Inv'
  <1>1. /\ Locals /\ Book /\ job.pc = "hold2" /\ UNCHANGED count /\ orders' = Synced
        /\ IF Wants THEN GoesWith("sl1", Abs(job.net)) ELSE Ends
        /\ \/ ~Wants /\ Writes(ToSignal)
           \/ UNCHANGED status
    BY NothingFails DEF Inv, HoldSync, Wants
  <1>2. Steady
    BY <1>1, SyncedOrders
  <1>3. For("IN") /\ ~status.stale /\ job.net \in -1..1 /\ (Wants \/ pos = 0)
    BY <1>1 DEF Inv, JobOk, HoldOk
  <1>4. job' \in Job /\ JobOk'
    <2>1. CASE Wants
      <3>1. Abs(job.net) = 1 /\ "sl1" \in PCs /\ 1 \in 0..2
        BY <1>1, <1>3, <2>1, RowSides, HasOf DEF Wants, Sides, PCs
      <3>2. job' \in Job /\ job'.pc = "sl1" /\ job'.qty = 1 /\ job'.row = job.row /\ job'.kind = job.kind
        BY <1>1, <2>1, <3>1, GoesTo
      <3>3. UNCHANGED status
        BY <1>1, <2>1
      <3>4. JobOk'
        BY <1>1, <1>2, <1>3, <3>2, <3>3, Kept
        DEF JobOk, MorningOk, CoverOk, EnterOk, HoldOk, HourOk, For
      <3> QED
        BY <3>2, <3>4
    <2>2. CASE ~Wants
      BY <1>1, <2>2, IdleOk DEF Ends
    <2> QED
      BY <2>1, <2>2
  <1>5. CASE UNCHANGED status
    BY <1>1, <1>2, <1>4, <1>5, JobMoves
  <1>6. CASE ~Wants /\ Writes(ToSignal)
    <2>1. pos = 0 /\ Clear
      BY <1>3, <1>6, NoWork DEF For
    <2>2. status' \in Status /\ status'.st = "SIGNAL" /\ ~status'.stale
      BY <1>1, <1>6, RowSides DEF Writes, ToSignal, Status
    <2>3. Locals'
      BY <1>1, <1>4, <2>2, LocalsStay
    <2> QED
      BY <1>1, <1>2, <1>4, <2>1, <2>2, <2>3, JobWrites
  <1> QED
    BY <1>1, <1>5, <1>6

LEMMA StopPositionInv ==
    ASSUME Prompt, Inv, StopPosition, UNCHANGED <<world, env>>
    PROVE  Inv'
  <1>1. /\ Locals /\ Book /\ job.pc = "sl1" /\ UNCHANGED <<status, orders, count>>
        /\ IF Has(job.row.side, feed) THEN Goes("sl2") ELSE Ends
    BY NothingFails, IdleOk DEF Inv, StopPosition
  <1>2. Steady
    BY <1>1, SameOrders
  <1>3. For("IN") /\ ~status.stale /\ job.qty = 1
    BY <1>1 DEF Inv, JobOk, HoldOk
  <1>4. CASE Ends
    BY <1>1, <1>2, <1>4, JobEnds
  <1>5. CASE Has(job.row.side, feed) /\ Goes("sl2")
    <2>1. "sl2" \in PCs /\ 0 \in 0..2
      BY DEF PCs
    <2>2. /\ job' \in Job /\ job'.pc = "sl2" /\ job'.row = job.row /\ job'.kind = job.kind
          /\ job'.qty = job.qty
      BY <1>1, <1>5, <2>1, GoesTo
    <2>3. pos = job.row.side
      BY <1>1, <1>3, <1>5, HeldReads DEF Book, BookOk
    <2>4. JobOk'
      BY <1>1, <1>2, <1>3, <2>2, <2>3, Kept
      DEF JobOk, MorningOk, CoverOk, EnterOk, HoldOk, HourOk, For
    <2> QED
      BY <1>1, <1>2, <2>2, <2>4, JobMoves
  <1> QED
    BY <1>1, <1>4, <1>5

LEMMA StopOrdersInv ==
    ASSUME Prompt, Inv, StopOrders, UNCHANGED <<world, env>>
    PROVE  Inv'
  <1>1. /\ Locals /\ Book /\ job.pc = "sl2" /\ UNCHANGED <<status, count>> /\ orders' = Synced
        /\ Ends \/ (Pending(-job.row.side) = {} /\ Goes("sl3"))
    BY NothingFails DEF Inv, StopOrders
  <1>2. Steady
    BY <1>1, SyncedOrders
  <1>3. For("IN") /\ ~status.stale /\ job.qty = 1 /\ pos = job.row.side
    BY <1>1 DEF Inv, JobOk, HoldOk
  <1>4. CASE Ends
    BY <1>1, <1>2, <1>4, JobEnds
  <1>5. CASE Pending(-job.row.side) = {} /\ Goes("sl3")
    <2>1. "sl3" \in PCs /\ 0 \in 0..2
      BY DEF PCs
    <2>2. /\ job' \in Job /\ job'.pc = "sl3" /\ job'.row = job.row /\ job'.kind = job.kind
          /\ job'.qty = job.qty
      BY <1>1, <1>5, <2>1, GoesTo
    <2>3. Clear
      <3> SUFFICES ASSUME NEW i \in LiveIds PROVE i \in Pending(-job.row.side)
        BY <1>5 DEF Clear
      <3>1. orders[i].st = "pending"
        BY <1>1 DEF Inv, JobOk
      <3>2. i \in Ids /\ orders[i].listed
        BY <1>1 DEF LiveIds, Book, OrdersOk, OrderOk
      <3>3. orders[i].side = -job.row.side
        BY <1>3, NoWork DEF For
      <3> QED
        BY <3>1, <3>2, <3>3 DEF Pending, Listed, On, Sent
    <2>4. JobOk'
      BY <1>1, <1>2, <1>3, <2>2, <2>3, Kept
      DEF JobOk, MorningOk, CoverOk, EnterOk, HoldOk, HourOk, For
    <2> QED
      BY <1>1, <1>2, <2>2, <2>4, JobMoves
  <1> QED
    BY <1>1, <1>4, <1>5

LEMMA StopSendInv ==
    ASSUME Prompt, Inv, StopSend, UNCHANGED <<world, env>>
    PROVE  Inv'
  <1>1. Locals /\ Book /\ job.pc = "sl3" /\ UNCHANGED <<status, count>> /\ Ends
    BY NothingFails DEF Inv, StopSend
  <1>2. For("IN") /\ ~status.stale /\ job.qty = 1 /\ pos = job.row.side /\ Clear
    BY <1>1 DEF Inv, JobOk, HoldOk
  <1>3. job.row.sl \in Int /\ Fresh \in Int
    BY <1>1, RowSides DEF Status, Fresh
  <1>4. CASE UNCHANGED orders
    BY <1>1, <1>4, SameOrders, JobEnds
  <1>5. ASSUME NEW role \in {"SL", "EXIT"}, NEW price \in Int,
               Place(-job.row.side, role, price, job.qty)
        PROVE  Inv'
    <2>1. Book' /\ Led' = Led /\ WorkOk' /\ RowOk' /\ OpOk'
      BY <1>1, <1>2, <1>5, CloserPlaced DEF For
    <2>2. job' \in Job /\ JobOk'
      BY <1>1, IdleOk DEF Ends
    <2>3. Locals'
      BY <1>1, <2>2, RowSides, LocalsStay
    <2> QED
      BY <2>1, <2>2, <2>3 DEF Inv
  <1> QED
    BY <1>1, <1>3, <1>4, <1>5, NothingFails DEF StopSend

-----------------------------------------------------------------------------
(***************************************************************************)
(* The hourly job                                                          *)
(***************************************************************************)
LEMMA HourStartInv ==
    ASSUME Prompt, Inv, HourStart, UNCHANGED <<world, env>>
    PROVE  Inv'
  <1>1. /\ Locals /\ Book /\ job.pc = "idle" /\ op.pc = "idle" /\ UNCHANGED <<status, orders>>
        /\ count.hours < MaxHours /\ count' = [count EXCEPT !.hours = @ + 1]
    BY DEF Inv, HourStart, Settled
  <1>2. Steady /\ Led' = Led
    BY <1>1, SameOrders
  <1>3. PICK kind \in {"hour", "trail", "eod"} :
          /\ job' = [Idle EXCEPT !.pc = "sig", !.kind = kind]
          /\ phase = "open" => kind # "eod"
    BY DEF HourStart
  <1>4. job' \in Job /\ job'.pc = "sig" /\ job'.kind = kind /\ ~job'.flag
    <2>1. Idle \in Job /\ "sig" \in PCs /\ Idle.flag = FALSE
      BY IdleType DEF PCs
    <2>2. job' \in Job
      BY <1>3, <2>1 DEF Job
    <2>3. job'.pc = "sig" /\ job'.kind = kind
      BY <1>3, <2>1 DEF Job
    <2>4. job'.flag = FALSE
      BY <1>3, <2>1 DEF Job
    <2> QED
      BY <2>2, <2>3, <2>4
  <1>5. Locals'
    <2>1. CountOk'
      BY <1>1, ChaseAssumption DEF Locals, CountOk, world
    <2> QED
      BY <1>1, <1>4, <2>1 DEF Locals, world
  <1>6. WorkOk' /\ RowOk' /\ OpOk'
    BY <1>1, <1>2, <1>4
    DEF Inv, Steady, world, WorkOk, EntryOk, CloserOk, RowOk, OpOk, Calm, Clear
  <1>7. \A i \in LiveIds' : orders'[i].st = "pending"
    <2>1. \A i \in LiveIds : i \in Ids /\ OrderOk(i) /\ orders[i].st \in Live /\ orders[i].st # "none"
      BY <1>1 DEF LiveIds, Live, Book, OrdersOk
    <2>2. \A i \in LiveIds : orders[i].st # "market"
      BY <2>1 DEF HourStart, Settled, Sent
    <2>3. \A i \in LiveIds : orders[i].st = "pending"
      BY <2>1, <2>2 DEF OrderOk, Live
    <2> QED
      BY <1>2, <2>3 DEF Steady
  <1>8. JobOk'
    <2>1. status.st = "SIGNAL" /\ pos # 0 => paused
      BY <1>1 DEF Inv, RowOk
    <2>2. UNCHANGED <<pos, paused, phase>> /\ phase \in {"open", "closed"}
      BY <1>1 DEF world, Locals
    <2> QED
      BY <1>1, <1>3, <1>4, <1>7, <2>1, <2>2
      DEF JobOk, MorningOk, CoverOk, EnterOk, HoldOk, HourOk
  <1> QED
    BY <1>2, <1>5, <1>6, <1>8 DEF Inv, Steady

LEMMA SignalInv ==
    ASSUME Prompt, Inv, Signal, UNCHANGED <<world, env>>
    PROVE  Inv'
  <1>1. Locals /\ Book /\ job.pc = "sig" /\ UNCHANGED <<status, orders, count>>
    BY DEF Inv, Signal
  <1>2. Steady /\ Led' = Led /\ UNCHANGED <<pos, feed, op, paused, phase>>
    BY <1>1, SameOrders DEF world
  <1>3. ~job.flag /\ (status.st = "SIGNAL" /\ pos # 0 => paused \/ job.kind # "eod")
    BY <1>1 DEF Inv, JobOk, HourOk
  <1>4. PICK next :
          /\ next = CASE status.st = "IN" -> "gin"
                      [] status.st = "AWAIT" -> IF paused THEN "cancel" ELSE "gawait"
                      [] OTHER -> IF paused \/ job.kind = "eod" THEN "idle" ELSE "gsig"
          /\ IF next = "idle" THEN Ends ELSE job' = [job EXCEPT !.pc = next, !.row = status]
    BY DEF Signal
  <1>5. status.st \in {"SIGNAL", "AWAIT", "IN"}
    BY <1>1, RowSides DEF Status
  <1>6. /\ next \in {"gin", "cancel", "gawait", "idle", "gsig"}
        /\ next = "gin" => status.st = "IN"
        /\ next = "cancel" => status.st = "AWAIT" /\ paused
        /\ next = "gawait" => status.st = "AWAIT"
        /\ next = "idle" => status.st = "SIGNAL" /\ (paused \/ job.kind = "eod")
        /\ next = "gsig" => status.st = "SIGNAL" /\ ~paused /\ job.kind # "eod"
    BY <1>4, <1>5
  <1>7. /\ job' \in Job /\ job'.pc = next
        /\ next # "idle" => job'.row = status /\ job'.kind = job.kind /\ ~job'.flag
    <2>1. CASE next = "idle"
      BY <1>4, <2>1, IdleOk DEF Ends
    <2>2. CASE next # "idle"
      <3>1. job \in Job /\ status \in Status /\ next \in PCs
        BY <1>1, <1>6, RowSides DEF PCs
      <3>2. job' = [job EXCEPT !.pc = next, !.row = status]
        BY <1>4, <2>2
      <3>3. job' \in Job /\ job'.pc = next /\ job'.row = status /\ job'.kind = job.kind
        BY <3>1, <3>2 DEF Job
      <3>4. job'.flag = job.flag
        BY <3>1, <3>2 DEF Job
      <3> QED
        BY <1>3, <3>3, <3>4
    <2> QED
      BY <2>1, <2>2
  <1>8. Locals'
    BY <1>1, <1>7, RowSides, LocalsStay
  <1>9. RowOk'
    <2>1. status.st = "SIGNAL" /\ pos # 0 => paused \/ (status.known /\ next = "gsig")
      BY <1>1, <1>3, <1>6 DEF Inv, RowOk
    <2>2. Calm => Calm'
      BY <1>2 DEF Steady, Calm, Clear
    <2> QED
      BY <1>1, <1>2, <1>6, <1>7, <2>1, <2>2 DEF Inv, RowOk
  <1>10. WorkOk' /\ OpOk'
    BY <1>1, <1>2 DEF Inv, Steady, WorkOk, EntryOk, CloserOk, OpOk
  <1>11. JobOk'
    <2>1. status.st = "SIGNAL" /\ ~paused => status.known \/ pos = 0
      BY <1>1 DEF Inv, RowOk
    <2>2. (job.kind = "eod" => phase' = "closed") /\ \A i \in LiveIds' : orders'[i].st = "pending"
      BY <1>1, <1>2, Kept
    <2> QED
      BY <1>1, <1>2, <1>6, <1>7, <2>1, <2>2
      DEF JobOk, MorningOk, CoverOk, EnterOk, HoldOk, HourOk, For
  <1> QED
    BY <1>2, <1>8, <1>9, <1>10, <1>11 DEF Inv, Steady

LEMMA CancelFindInv ==
    ASSUME Prompt, Inv, CancelFind, UNCHANGED <<world, env>>
    PROVE  Inv'
  <1>1. Locals /\ Book /\ job.pc = "cancel" /\ UNCHANGED <<status, orders, count>>
    BY DEF Inv, CancelFind
  <1>2. Steady
    BY <1>1, SameOrders
  <1>3. For("AWAIT") /\ IF job.flag THEN job.kind # "eod" ELSE paused
    BY <1>1 DEF Inv, JobOk, HourOk
  <1>4. PICK w \in SUBSET Pending(job.row.side) :
          /\ job' = [job EXCEPT !.pc = "drop", !.work = w]
          /\ (\E i \in Pending(job.row.side) : w = {i}) \/ Pending(job.row.side) = {}
    BY DEF CancelFind
  <1>5. LiveIds \subseteq w
    <2>1. \A i \in LiveIds : i \in Pending(job.row.side)
      <3> SUFFICES ASSUME NEW i \in LiveIds PROVE i \in Pending(job.row.side)
        OBVIOUS
      <3>1. orders[i].st = "pending"
        BY <1>1 DEF Inv, JobOk
      <3>2. i \in Ids /\ orders[i].listed
        BY <1>1 DEF LiveIds, Book, OrdersOk, OrderOk
      <3>3. orders[i].side = job.row.side
        BY <1>3, NoWork DEF For
      <3> QED
        BY <3>1, <3>2, <3>3 DEF Pending, Listed, On, Sent
    <2>2. \A i \in Pending(job.row.side) : i \in LiveIds
      BY DEF Pending, Listed, On, Sent, LiveIds, Live
    <2>3. \A i, j \in LiveIds : i = j
      BY DEF Inv, WorkOk
    <2> QED
      BY <1>4, <2>1, <2>2, <2>3
  <1>6. /\ job' \in Job /\ job'.pc = "drop" /\ job'.row = job.row /\ job'.kind = job.kind
        /\ job'.work = w /\ job'.flag = job.flag
    <2>1. job \in Job /\ "drop" \in PCs /\ w \in SUBSET Ids
      BY <1>1, RowSides DEF PCs, Pending, Listed, On, Sent
    <2>2. job' \in Job /\ job'.pc = "drop" /\ job'.row = job.row /\ job'.kind = job.kind /\ job'.work = w
      BY <1>4, <2>1 DEF Job
    <2>3. job'.flag = job.flag
      BY <1>4, <2>1 DEF Job
    <2> QED
      BY <2>2, <2>3
  <1>7. JobOk'
    <2>1. LiveIds' \subseteq job'.work
      BY <1>2, <1>5, <1>6 DEF Steady
    <2> QED
      BY <1>1, <1>2, <1>3, <1>6, <2>1, Kept
      DEF JobOk, MorningOk, CoverOk, EnterOk, HoldOk, HourOk, For
  <1> QED
    BY <1>1, <1>2, <1>6, <1>7, JobMoves

LEMMA CancelDropInv ==
    ASSUME Prompt, Inv, CancelDrop, UNCHANGED <<world, env>>
    PROVE  Inv'
  <1>1. Locals /\ Book /\ job.pc = "drop" /\ UNCHANGED count
    BY NothingFails DEF Inv, CancelDrop
  <1>2. For("AWAIT") /\ LiveIds \subseteq job.work /\ IF job.flag THEN job.kind # "eod" ELSE paused
    BY <1>1 DEF Inv, JobOk, HourOk
  <1>3. CASE Ends /\ UNCHANGED <<status, orders>>
    BY <1>1, <1>3, SameOrders, JobEnds
  <1>4. CASE /\ \A i \in job.work : orders[i].st = "pending"
             /\ orders' = [i \in Ids |-> IF i \in job.work THEN [orders[i] EXCEPT !.st = "cancelled"]
                                         ELSE orders[i]]
             /\ Writes([ToSignal EXCEPT !.old = FALSE])
             /\ IF job.flag THEN job' = [Idle EXCEPT !.pc = "sig", !.kind = job.kind] ELSE Ends
    <2>1. job.work \subseteq LiveIds /\ job.work \subseteq Ids
      BY <1>1, <1>4 DEF LiveIds, Live, Locals, Job
    <2>2. UNCHANGED <<pos, feed, op, paused, phase>>
      BY DEF world
    <2>3. Book' /\ Led' = Led /\ LiveIds' = {}
      <3>1. Numbered'
        <4>1. \A i \in Ids : orders[i] \in Order /\ [orders[i] EXCEPT !.st = "cancelled"] \in Order
          BY <1>1 DEF Book, Numbered, Order
        <4> QED
          BY <1>4, <4>1 DEF Numbered
      <3>2. PICK W : W = job.work
        OBVIOUS
      <3>3. /\ W \subseteq LiveIds /\ "cancelled" \in {"market", "cancelled"}
            /\ \A i \in W : orders'[i] = [orders[i] EXCEPT !.st = "cancelled"]
            /\ \A i \in Ids \ W : orders'[i] = orders[i]
        BY <1>4, <2>1, <3>2
      <3>4. Book' /\ Led' = Led /\ LiveIds' = LiveIds \ W
        BY <1>1, <2>2, <3>1, <3>3, AmendEffect
      <3> QED
        BY <1>2, <3>2, <3>4
    <2>4. /\ status' \in Status /\ status'.st = "SIGNAL" /\ ~status'.stale
          /\ status'.known = status.known
      BY <1>1, <1>4, RowSides DEF Writes, ToSignal, Status
    <2>5. status.known
      BY <1>2 DEF Inv, RowOk, For
    <2>6. /\ job' \in Job
          /\ IF job.flag THEN job'.pc = "sig" /\ job'.kind = job.kind /\ ~job'.flag
             ELSE job'.pc = "idle"
      <3>1. CASE job.flag
        <4>1. Idle \in Job /\ "sig" \in PCs /\ Idle.flag = FALSE /\ job.kind \in {"minute", "hour", "trail", "eod"}
          BY <1>1, IdleType DEF PCs, Locals, Job
        <4>2. job' = [Idle EXCEPT !.pc = "sig", !.kind = job.kind]
          BY <1>4, <3>1
        <4>3. job' \in Job /\ job'.pc = "sig" /\ job'.kind = job.kind
          BY <4>1, <4>2 DEF Job
        <4>4. job'.flag = FALSE
          BY <4>1, <4>2 DEF Job
        <4> QED
          BY <3>1, <4>3, <4>4
      <3>2. CASE ~job.flag
        BY <1>4, <3>2, IdleOk DEF Ends
      <3> QED
        BY <3>1, <3>2
    <2>7. Locals'
      BY <1>1, <2>4, <2>6, LocalsStay
    <2>8. WorkOk' /\ RowOk' /\ OpOk'
      BY <1>1, <1>2, <2>2, <2>3, <2>4, <2>5, <2>6 DEF WorkOk, RowOk, OpOk, Inv
    <2>9. JobOk'
      <3>1. job.kind = "eod" => phase' = "closed"
        BY <1>1, <2>2 DEF Inv, JobOk, HourOk
      <3> QED
        BY <1>2, <2>3, <2>6, <3>1 DEF JobOk, MorningOk, CoverOk, EnterOk, HoldOk, HourOk
    <2> QED
      BY <2>3, <2>7, <2>8, <2>9 DEF Inv
  <1> QED
    BY <1>1, <1>3, <1>4, NothingFails DEF CancelDrop

LEMMA HourTrailInv ==
    ASSUME Prompt, Inv, HourTrail, UNCHANGED <<world, env>>
    PROVE  Inv'
  <1>1. Locals /\ Book /\ job.pc = "gtrail" /\ UNCHANGED <<status, orders>>
    BY DEF Inv, HourTrail
  <1>2. Steady
    BY <1>1, SameOrders
  <1>3. For("IN") /\ ~status.stale
    BY <1>1 DEF Inv, JobOk, HoldOk
  <1>4. PICK b \in Books : Read(b) /\ IF b.net # 0 THEN GoesWith("sl1", Abs(b.net)) ELSE Ends
    BY DEF HourTrail
  <1>5. count' = count /\ b.net = Net /\ Net \in -1..1
    BY <1>1, <1>4, ReadsOf
  <1>6. CASE Ends
    BY <1>1, <1>2, <1>5, <1>6, JobEnds
  <1>7. CASE b.net # 0 /\ GoesWith("sl1", Abs(b.net))
    <2>1. Abs(b.net) = 1 /\ "sl1" \in PCs /\ 1 \in 0..2
      BY <1>5, <1>7 DEF Abs, PCs
    <2>2. job' \in Job /\ job'.pc = "sl1" /\ job'.qty = 1 /\ job'.row = job.row /\ job'.kind = job.kind
      BY <1>1, <1>7, <2>1, GoesTo
    <2>3. JobOk'
      BY <1>1, <1>2, <1>3, <2>2, Kept
      DEF JobOk, MorningOk, CoverOk, EnterOk, HoldOk, HourOk, For
    <2> QED
      BY <1>1, <1>2, <1>5, <2>2, <2>3, JobMoves
  <1> QED
    BY <1>4, <1>6, <1>7

LEMMA HourInInv ==
    ASSUME Prompt, Inv, HourIn, UNCHANGED <<world, env>>
    PROVE  Inv'
  <1>1. Locals /\ Book /\ job.pc = "gin" /\ UNCHANGED orders
    BY DEF Inv, HourIn
  <1>2. Steady
    BY <1>1, SameOrders
  <1>3. For("IN")
    BY <1>1 DEF Inv, JobOk, HourOk
  <1>4. PICK b, sl, empty, trail :
          /\ b \in Books /\ sl \in {status.sl, NewPrice}
          /\ empty = ~Has(job.row.side, b.net)
          /\ trail = (~empty /\ job.kind = "trail" /\ job.row.old)
          /\ count' = [count EXCEPT !.failures = IF b.known THEN @ ELSE @ + 1,
                                    !.prices = IF sl = NewPrice THEN sl ELSE @]
          /\ IF empty THEN Writes([ToSignal EXCEPT !.old = FALSE])
             ELSE IF trail THEN Writes([status EXCEPT !.sl = sl]) ELSE UNCHANGED status
          /\ IF empty /\ job.kind # "eod" THEN Goes("gsig")
             ELSE IF trail THEN job' = [job EXCEPT !.pc = "gtrail", !.row.sl = sl]
             ELSE Ends
    BY ZenonT(60) DEF HourIn
  <1>5. b.net = Net /\ b.known /\ sl \in Nat
    BY <1>1, <1>4, RowSides, ReadsOf DEF Locals, CountOk, NewPrice, Status
  <1>6. CountOk'
    BY <1>1, <1>4, <1>5 DEF Locals, CountOk, world
  <1>7. CASE empty
    <2>1. pos = 0 /\ Clear
      BY <1>3, <1>4, <1>5, <1>7, HeldReads
    <2>2. status' \in Status /\ status'.st = "SIGNAL" /\ ~status'.stale
      BY <1>1, <1>4, <1>7, RowSides DEF Writes, ToSignal, Status
    <2>3. job' \in Job /\ JobOk'
      <3>1. CASE Goes("gsig")
        <4>1. "gsig" \in PCs /\ 0 \in 0..2
          BY DEF PCs
        <4>2. job' \in Job /\ job'.pc = "gsig" /\ job'.row = job.row /\ job'.kind = job.kind
          BY <1>1, <3>1, <4>1, GoesTo
        <4>3. JobOk'
          BY <1>1, <1>2, <2>1, <2>2, <4>2, Kept
          DEF JobOk, MorningOk, CoverOk, EnterOk, HoldOk, HourOk, For
        <4> QED
          BY <4>2, <4>3
      <3>2. CASE Ends
        BY <3>2, IdleOk DEF Ends
      <3> QED
        BY <1>4, <1>7, <3>1, <3>2
    <2>4. Locals'
      BY <1>1, <1>6, <2>2, <2>3 DEF Locals, world
    <2> QED
      BY <1>1, <1>2, <2>1, <2>2, <2>3, <2>4, JobWrites
  <1>8. CASE ~empty /\ trail
    <2>1. status' \in Status /\ status'.st = "IN" /\ status'.side = status.side /\ ~status'.stale
      BY <1>1, <1>3, <1>4, <1>5, <1>8, RowSides DEF Writes, Status, For
    <2>2. /\ job' \in Job /\ job'.pc = "gtrail" /\ job'.row.side = job.row.side
          /\ job'.kind = job.kind
      <3>1. PICK row : row = [job.row EXCEPT !.sl = sl]
        OBVIOUS
      <3>2. row \in Status /\ row.side = job.row.side
        BY <1>1, <1>5, <3>1, RowSides DEF Status
      <3>3. job \in Job /\ "gtrail" \in PCs
        BY <1>1, RowSides DEF PCs
      <3>4. job' = [job EXCEPT !.pc = "gtrail", !.row = row]
        BY <1>4, <1>8, <3>1
      <3>5. job' \in Job /\ job'.pc = "gtrail" /\ job'.row = row /\ job'.kind = job.kind
        BY <3>2, <3>3, <3>4 DEF Job
      <3> QED
        BY <3>2, <3>5
    <2>3. JobOk'
      BY <1>1, <1>2, <1>3, <2>1, <2>2, Kept
      DEF JobOk, MorningOk, CoverOk, EnterOk, HoldOk, HourOk, For
    <2>4. Locals'
      BY <1>1, <1>6, <2>1, <2>2 DEF Locals, world
    <2> QED
      BY <1>1, <1>2, <1>3, <2>1, <2>3, <2>4, JobWrites DEF Inv, RowOk, For
  <1>9. CASE ~empty /\ ~trail
    <2>1. Ends /\ UNCHANGED status
      BY <1>4, <1>9
    <2>2. JobOk' /\ job' \in Job
      BY <2>1, IdleOk DEF Ends
    <2>3. Locals'
      BY <1>1, <1>6, <2>1, <2>2, RowSides DEF Locals, world
    <2>4. WorkOk' /\ RowOk' /\ OpOk'
      BY <1>1, <1>2, <2>1, SteadyRow
    <2> QED
      BY <1>2, <2>2, <2>3, <2>4 DEF Inv, Steady
  <1> QED
    BY <1>7, <1>8, <1>9

LEMMA HourSignalInv ==
    ASSUME Prompt, Inv, HourSignal, UNCHANGED <<world, env>>
    PROVE  Inv'
  <1>1. Locals /\ Book /\ job.pc = "gsig" /\ UNCHANGED orders
    BY DEF Inv, HourSignal
  <1>2. Steady /\ Led' = Led /\ UNCHANGED <<pos, feed, op, paused, phase>>
    BY <1>1, SameOrders DEF world
  <1>3. status.st = "SIGNAL" /\ Clear /\ (job.row.known \/ pos = 0)
    BY <1>1, NoWork DEF Inv, JobOk, HourOk
  <1>4. ASSUME NEW b \in (IF job.row.known THEN Books ELSE {[kite |-> 0, net |-> 0, known |-> TRUE]})
        PROVE  /\ b.known /\ b.net \in -1..1
               /\ Read(b) => count' = count
               /\ b.net # 0 => b.net \in Sides /\ Sgn(b.net) = b.net /\ pos \in {0, b.net}
               /\ b.net = 0 => pos = 0
    <2>1. CASE job.row.known
      <3>1. b.net = Net /\ b.known /\ Net \in -1..1 /\ (pos # 0 => Net = pos) /\ (Read(b) => count' = count)
        BY <1>1, <1>4, <2>1, ReadsOf
      <3> QED
        BY <3>1 DEF Sides, Sgn
    <2>2. CASE ~job.row.known
      <3>1. b.known = TRUE /\ b.net = 0
        BY <1>4, <2>2
      <3>2. count = [count EXCEPT !.failures = @]
        BY <1>1 DEF Locals, CountOk
      <3> QED
        BY <1>3, <2>2, <3>1, <3>2 DEF Read
    <2> QED
      BY <2>1, <2>2
  <1>5. ASSUME NEW b \in (IF job.row.known THEN Books ELSE {[kite |-> 0, net |-> 0, known |-> TRUE]}),
               b.net # 0, Read(b), Ends,
               Writes([status EXCEPT !.st = "IN", !.side = Sgn(b.net), !.breach = FALSE])
        PROVE  Inv'
    <2>1. status' \in Status /\ status'.st = "IN" /\ status'.side = b.net /\ ~status'.stale
      BY <1>1, <1>4, <1>5, RowSides DEF Writes, Status
    <2>2. JobOk' /\ job' \in Job
      BY <1>5, IdleOk DEF Ends
    <2>3. Locals'
      BY <1>1, <1>4, <1>5, <2>1, <2>2, LocalsStay
    <2> QED
      BY <1>1, <1>2, <1>3, <1>4, <1>5, <2>1, <2>2, <2>3, JobWrites
  <1>6. ASSUME NEW b \in (IF job.row.known THEN Books ELSE {[kite |-> 0, net |-> 0, known |-> TRUE]}),
               b.net = 0, Read(b), Ends, UNCHANGED status
        PROVE  Inv'
    <2>1. JobOk' /\ job' \in Job
      BY <1>6, IdleOk DEF Ends
    <2>2. Locals'
      BY <1>1, <1>4, <1>6, <2>1, RowSides, LocalsStay
    <2>3. pos = 0 /\ (Calm => Calm')
      BY <1>2, <1>4, <1>6 DEF Calm, Clear, Steady
    <2>4. WorkOk' /\ RowOk' /\ OpOk'
      BY <1>1, <1>2, <1>3, <1>6, <2>3 DEF Inv, Steady, WorkOk, Clear, RowOk, OpOk
    <2> QED
      BY <1>2, <2>1, <2>2, <2>4 DEF Inv, Steady
  <1>7. ASSUME NEW b \in (IF job.row.known THEN Books ELSE {[kite |-> 0, net |-> 0, known |-> TRUE]}),
               b.net = 0, count.signals < env.signals, NEW side \in env.sides,
               NEW row, row = [st |-> "AWAIT", side |-> side, sl |-> NewPrice,
                               entry |-> NewPrice + 1, known |-> TRUE, breach |-> FALSE,
                               stale |-> FALSE, old |-> FALSE],
               status' = row, job' = [job EXCEPT !.pc = "ent1", !.row = row],
               count' = [count EXCEPT !.failures = IF b.known THEN @ ELSE @ + 1,
                                      !.signals = @ + 1, !.prices = @ + 2]
        PROVE  Inv'
    <2>1. side \in Sides /\ env.signals \in Nat
      <3>1. env \in Setting
        BY <1>1, ChaseAssumption DEF Locals
      <3> QED
        BY <3>1 DEF Setting, Sides
    <2>2. row \in Status /\ row.st = "AWAIT" /\ row.known /\ ~row.stale
      <3>1. NewPrice \in Nat /\ NewPrice + 1 \in Nat
        BY <1>1 DEF Locals, CountOk, NewPrice
      <3> QED
        BY <1>7, <2>1, <3>1 DEF Status
    <2>3. job' \in Job /\ job'.pc = "ent1" /\ job'.row = row /\ job'.kind = job.kind
      <3>1. job \in Job /\ "ent1" \in PCs
        BY <1>1, RowSides DEF PCs
      <3> QED
        BY <1>7, <2>2, <3>1 DEF Job
    <2>4. CountOk'
      <3>1. PICK n, p : n = count.signals + 1 /\ p = count.prices + 2
        OBVIOUS
      <3>2. count' = [count EXCEPT !.failures = @, !.signals = n, !.prices = p]
        BY <1>4, <1>7, <3>1
      <3>3. n \in 0..env.signals /\ p \in Nat
        BY <1>1, <1>7, <2>1, <3>1 DEF Locals, CountOk
      <3> QED
        BY <1>1, <1>2, <3>2, <3>3 DEF Locals, CountOk
    <2>5. Locals'
      BY <1>1, <1>7, <2>2, <2>3, <2>4 DEF Locals, world
    <2>6. pos = 0
      BY <1>4, <1>7
    <2>7. JobOk'
      BY <1>1, <1>2, <1>7, <2>2, <2>3, Kept
      DEF JobOk, MorningOk, CoverOk, EnterOk, HoldOk, HourOk, For
    <2> QED
      BY <1>1, <1>2, <1>3, <1>7, <2>2, <2>5, <2>6, <2>7, JobWrites
  <1>8. PICK b \in (IF job.row.known THEN Books ELSE {[kite |-> 0, net |-> 0, known |-> TRUE]}) :
          \/ /\ b.net # 0
             /\ Read(b)
             /\ Writes([status EXCEPT !.st = "IN", !.side = Sgn(b.net), !.breach = FALSE])
             /\ Ends
          \/ b.net = 0 /\ Read(b) /\ Ends /\ UNCHANGED status
          \/ /\ b.net = 0
             /\ count.signals < env.signals
             /\ \E side \in env.sides :
                   \E row : /\ row = [st |-> "AWAIT", side |-> side, sl |-> NewPrice,
                                      entry |-> NewPrice + 1, known |-> TRUE, breach |-> FALSE,
                                      stale |-> FALSE, old |-> FALSE]
                            /\ status' = row /\ job' = [job EXCEPT !.pc = "ent1", !.row = row]
             /\ count' = [count EXCEPT !.failures = IF b.known THEN @ ELSE @ + 1,
                                       !.signals = @ + 1, !.prices = @ + 2]
    BY DEF HourSignal
  <1>9. CASE b.net # 0
    BY <1>5, <1>8, <1>9
  <1>10. CASE b.net = 0 /\ Read(b) /\ Ends /\ UNCHANGED status
    BY <1>6, <1>10
  <1>11. CASE b.net = 0 /\ ~(Read(b) /\ Ends /\ UNCHANGED status)
    <2>1. PICK side, row :
            /\ side \in env.sides
            /\ row = [st |-> "AWAIT", side |-> side, sl |-> NewPrice,
                      entry |-> NewPrice + 1, known |-> TRUE, breach |-> FALSE,
                      stale |-> FALSE, old |-> FALSE]
            /\ status' = row /\ job' = [job EXCEPT !.pc = "ent1", !.row = row]
      BY <1>8, <1>11
    <2>2. /\ count.signals < env.signals
          /\ count' = [count EXCEPT !.failures = IF b.known THEN @ ELSE @ + 1,
                                    !.signals = @ + 1, !.prices = @ + 2]
      BY <1>8, <1>11
    <2> QED
      BY <1>7, <1>11, <2>1, <2>2
  <1> QED
    BY <1>9, <1>10, <1>11

LEMMA HourAwaitInv ==
    ASSUME Prompt, Inv, HourAwait, UNCHANGED <<world, env>>
    PROVE  Inv'
  <1>1. Locals /\ Book /\ job.pc = "gawait" /\ UNCHANGED orders
    BY DEF Inv, HourAwait
  <1>2. Steady /\ Led' = Led
    BY <1>1, SameOrders
  <1>3. For("AWAIT") /\ pos \in {0, job.row.side} /\ (job.kind = "eod" => phase = "closed")
    BY <1>1, AwaitReads DEF Inv, JobOk, HourOk
  <1>4. PICK b \in Books :
          /\ Read(b)
          /\ \/ /\ Has(job.row.side, b.net)
                /\ Writes([status EXCEPT !.st = "IN", !.side = job.row.side, !.breach = FALSE])
                /\ GoesWith("sl1", Abs(b.net))
             \/ /\ ~Has(job.row.side, b.net) /\ job.kind = "eod"
                /\ Writes([ToSignal EXCEPT !.old = FALSE])
                /\ Ends
             \/ /\ ~Has(job.row.side, b.net) /\ job.kind # "eod"
                /\ \/ /\ job' = [job EXCEPT !.pc = "cancel", !.flag = TRUE]
                      /\ UNCHANGED status
                   \/ /\ ~job.row.breach
                      /\ Writes([status EXCEPT !.breach = TRUE]) /\ Ends
                   \/ ~job.row.breach /\ Goes("ent1") /\ UNCHANGED status
    BY DEF HourAwait
  <1>5. count' = count /\ b.net = Net /\ Net \in -1..1
    BY <1>1, <1>4, ReadsOf
  <1>6. CASE /\ Has(job.row.side, b.net)
             /\ Writes([status EXCEPT !.st = "IN", !.side = job.row.side, !.breach = FALSE])
             /\ GoesWith("sl1", Abs(b.net))
    <2>1. Clear
      BY <1>3, <1>5, <1>6, AwaitReads
    <2>2. Abs(b.net) = 1 /\ "sl1" \in PCs /\ 1 \in 0..2
      BY <1>1, <1>5, <1>6, RowSides, HasOf DEF Sides, PCs
    <2>3. status' \in Status /\ status'.st = "IN" /\ status'.side = job.row.side /\ ~status'.stale
      BY <1>1, <1>6, RowSides DEF Writes, Status
    <2>4. job' \in Job /\ job'.pc = "sl1" /\ job'.qty = 1 /\ job'.row = job.row /\ job'.kind = job.kind
      BY <1>1, <1>6, <2>2, GoesTo
    <2>5. Locals'
      BY <1>1, <1>5, <2>3, <2>4, LocalsStay
    <2>6. JobOk'
      BY <1>1, <1>2, <1>3, <2>3, <2>4, Kept
      DEF JobOk, MorningOk, CoverOk, EnterOk, HoldOk, HourOk, For
    <2> QED
      BY <1>1, <1>2, <1>3, <2>1, <2>3, <2>5, <2>6, JobWrites
  <1>7. CASE /\ ~Has(job.row.side, b.net) /\ job.kind = "eod"
             /\ Writes([ToSignal EXCEPT !.old = FALSE])
             /\ Ends
    <2>1. pos = 0 /\ Clear
      BY <1>1, <1>3, <1>5, <1>7, AwaitReads DEF Book, ClosedOk
    <2>2. status' \in Status /\ status'.st = "SIGNAL" /\ ~status'.stale
      BY <1>1, <1>7, RowSides DEF Writes, ToSignal, Status
    <2>3. JobOk' /\ job' \in Job
      BY <1>7, IdleOk DEF Ends
    <2>4. Locals'
      BY <1>1, <1>5, <2>2, <2>3, LocalsStay
    <2> QED
      BY <1>1, <1>2, <2>1, <2>2, <2>3, <2>4, JobWrites
  <1>8. CASE /\ job.kind # "eod" /\ job' = [job EXCEPT !.pc = "cancel", !.flag = TRUE]
             /\ UNCHANGED status
    <2>1. job \in Job /\ "cancel" \in PCs /\ TRUE \in BOOLEAN
      BY <1>1, RowSides DEF PCs
    <2>2. job' \in Job /\ job'.pc = "cancel" /\ job'.row = job.row /\ job'.kind = job.kind
      BY <1>8, <2>1 DEF Job
    <2>3. job'.flag = TRUE
      BY <1>8, <2>1 DEF Job
    <2>4. JobOk'
      BY <1>1, <1>2, <1>3, <1>8, <2>2, <2>3, Kept
      DEF JobOk, MorningOk, CoverOk, EnterOk, HoldOk, HourOk, For
    <2> QED
      BY <1>1, <1>2, <1>5, <1>8, <2>2, <2>4, JobMoves
  <1>9. CASE Writes([status EXCEPT !.breach = TRUE]) /\ Ends
    <2>1. /\ status' \in Status /\ status'.st = "AWAIT" /\ status'.side = status.side
          /\ ~status'.stale /\ status'.known = status.known
      BY <1>1, <1>3, <1>9, RowSides DEF Writes, Status, For
    <2>2. JobOk' /\ job' \in Job
      BY <1>9, IdleOk DEF Ends
    <2>3. Locals'
      BY <1>1, <1>5, <2>1, <2>2, LocalsStay
    <2> QED
      BY <1>1, <1>2, <1>3, <2>1, <2>2, <2>3, JobWrites DEF Inv, RowOk, For
  <1>10. CASE Goes("ent1") /\ UNCHANGED status
    <2>1. "ent1" \in PCs /\ 0 \in 0..2
      BY DEF PCs
    <2>2. job' \in Job /\ job'.pc = "ent1" /\ job'.row = job.row /\ job'.kind = job.kind
      BY <1>1, <1>10, <2>1, GoesTo
    <2>3. JobOk'
      BY <1>1, <1>2, <1>3, <1>10, <2>2, Kept
      DEF JobOk, MorningOk, CoverOk, EnterOk, HoldOk, HourOk, For
    <2> QED
      BY <1>1, <1>2, <1>5, <1>10, <2>2, <2>3, JobMoves
  <1> QED
    BY <1>4, <1>6, <1>7, <1>8, <1>9, <1>10

-----------------------------------------------------------------------------
(***************************************************************************)
(* The operator, the broker, the ledger and the clock                      *)
(***************************************************************************)
LEMMA SameBook ==
    ASSUME Book, UNCHANGED <<orders, pos, feed, phase>>
    PROVE  Book' /\ Led' = Led /\ LiveIds' = LiveIds /\ (\A s : OpenEntryRow(s)' <=> OpenEntryRow(s))
  <1>1. Numbered' /\ OrdersOk' /\ ClosedOk'
    BY DEF Book, Numbered, OrdersOk, OrderOk, ClosedOk, Clear, LiveIds, Done
  <1>2. Book' /\ Led' = Led
    BY <1>1, StayEffect
  <1>3. LiveIds' = LiveIds /\ \A s : OpenEntryRow(s)' <=> OpenEntryRow(s)
    BY DEF LiveIds, OpenEntryRow, On, Sent
  <1> QED
    BY <1>2, <1>3

LEMMA PauseInv ==
    ASSUME Inv, Pause, UNCHANGED env
    PROVE  Inv'
  <1>1. /\ Locals /\ Book /\ paused' = TRUE
        /\ UNCHANGED <<status, orders, job, count, pos, feed, op, phase>>
    BY DEF Inv, Pause
  <1>2. Book' /\ Led' = Led /\ LiveIds' = LiveIds /\ (\A s : OpenEntryRow(s)' <=> OpenEntryRow(s))
    BY <1>1, SameBook
  <1>3. Locals'
    BY <1>1 DEF Locals, CountOk
  <1>4. WorkOk' /\ RowOk' /\ OpOk'
    BY <1>1, <1>2 DEF Inv, WorkOk, EntryOk, CloserOk, RowOk, OpOk, Calm, Clear
  <1>5. (Wants' <=> Wants) /\ (Behind' <=> Behind) /\ (Hourly' <=> Hourly) /\ (Calm' <=> Calm)
        /\ (Clear' <=> Clear) /\ \A st : For(st)' <=> For(st)
    BY <1>1, <1>2 DEF Wants, Behind, Hourly, Calm, Clear, For
  <1>6. MorningOk' /\ CoverOk' /\ EnterOk' /\ HoldOk'
    BY <1>1, <1>2, <1>5 DEF Inv, JobOk, MorningOk, CoverOk, EnterOk, HoldOk
  <1>7. HourOk'
    BY <1>1, <1>2, <1>5 DEF Inv, JobOk, HourOk
  <1>8. JobOk'
    BY <1>1, <1>2, <1>6, <1>7 DEF Inv, JobOk
  <1> QED
    BY <1>2, <1>3, <1>4, <1>8 DEF Inv

LEMMA ResetCheckInv ==
    ASSUME Prompt, Inv, ResetCheck, UNCHANGED env
    PROVE  Inv'
  <1>1. /\ Locals /\ Book /\ job.pc = "idle" /\ (status.st = "AWAIT" => pos = 0)
        /\ UNCHANGED <<status, orders, job, pos, feed, paused, phase>> /\ op.pc = "idle"
    BY DEF Inv, ResetCheck
  <1>2. Book' /\ Led' = Led /\ LiveIds' = LiveIds
    BY <1>1, SameBook
  <1>3. PICK b \in (IF status.st = "IN" THEN Books ELSE {[net |-> 0, known |-> TRUE]}) :
          /\ count' = [count EXCEPT !.failures = IF b.known THEN @ ELSE @ + 1, !.resets = 1]
          /\ op' = IF status.st = "IN" /\ (~b.known \/ Has(status.side, b.net)) THEN op
                   ELSE [pc |-> "apply", side |-> IF status.st = "SIGNAL" THEN -1 ELSE status.side]
    BY DEF ResetCheck
  <1>4. b.known /\ (status.st = "IN" => b.net = Net /\ Net \in -1..1 /\ (pos # 0 => Net = pos))
    <2>1. CASE status.st = "IN"
      BY <1>1, <1>3, <2>1, ReadsOf
    <2>2. CASE status.st # "IN"
      BY <1>3, <2>2
    <2> QED
      BY <2>1, <2>2
  <1>5. op'.pc = "apply" => /\ status.st # "SIGNAL" => pos = 0
                            /\ status.st = "AWAIT" => op'.side = status.side
    <2>1. status.st = "IN" /\ op'.pc = "apply" => pos = 0
      <3> SUFFICES ASSUME status.st = "IN", op'.pc = "apply" PROVE pos = 0
        OBVIOUS
      <3>1. ~Has(status.side, Net)
        BY <1>1, <1>3, <1>4
      <3>2. Net # status.side
        BY <1>1, <1>4, <3>1, RowSides, HasOf
      <3>3. pos \in {0, status.side}
        BY DEF Inv, RowOk
      <3> QED
        BY <1>4, <3>2, <3>3
    <2>2. status.st \in {"SIGNAL", "AWAIT", "IN"}
      BY <1>1, RowSides DEF Status
    <2>3. status.st = "AWAIT" => op'.side = status.side
      BY <1>3
    <2> QED
      BY <1>1, <2>1, <2>2, <2>3
  <1>6. op' \in [pc: {"idle", "apply"}, side: Sides]
    <2>1. status.side \in Sides /\ op \in [pc: {"idle", "apply"}, side: Sides] /\ -1 \in Sides
      BY <1>1, RowSides DEF Locals, Sides
    <2> QED
      BY <1>3, <2>1
  <1>7. Locals'
    <2>1. CountOk'
      <3>1. PICK n : n = count.failures
        OBVIOUS
      <3>2. count' = [count EXCEPT !.failures = n, !.resets = 1]
        BY <1>3, <1>4, <3>1
      <3>3. n \in 0..env.failures /\ 1 \in 0..1
        BY <1>1, <3>1 DEF Locals, CountOk
      <3>4. /\ count' \in [signals: 0..env.signals, prices: Nat, hours: 0..MaxHours,
                           days: 0..MaxDays, failures: 0..env.failures, resets: 0..1]
            /\ count'.days = count.days
        BY <1>1, <3>2, <3>3 DEF Locals, CountOk
      <3> QED
        BY <1>1, <3>4 DEF Locals, CountOk
    <2> QED
      BY <1>1, <1>6, <2>1 DEF Locals
  <1>8. \A i \in LiveIds : orders[i].st = "pending"
    <2>1. \A i \in LiveIds : i \in Ids /\ OrderOk(i) /\ orders[i].st \in Live /\ orders[i].st # "none"
      BY <1>1 DEF LiveIds, Live, Book, OrdersOk
    <2>2. \A i \in LiveIds : orders[i].st # "market"
      BY <2>1 DEF ResetCheck, Settled, Sent
    <2> QED
      BY <2>1, <2>2 DEF OrderOk, Live
  <1>9. WorkOk' /\ RowOk' /\ OpOk'
    BY <1>1, <1>2, <1>5, <1>8 DEF Inv, WorkOk, EntryOk, CloserOk, RowOk, OpOk, Calm, Clear
  <1>10. JobOk'
    BY <1>1, <1>2 DEF Inv, JobOk, MorningOk, CoverOk, EnterOk, HoldOk, HourOk
  <1> QED
    BY <1>2, <1>7, <1>9, <1>10 DEF Inv

LEMMA ResetApplyInv ==
    ASSUME Prompt, Inv, ResetApply, UNCHANGED env
    PROVE  Inv'
  <1>1. /\ Locals /\ Book /\ op.pc = "apply" /\ status' = NoSignal /\ op' = [op EXCEPT !.pc = "idle"]
        /\ UNCHANGED <<job, pos, feed, paused, phase, count>>
    BY NothingFails DEF Inv, ResetApply
  <1>2. /\ job.pc = "idle" /\ (\A i \in LiveIds : orders[i].st = "pending")
        /\ status.st # "SIGNAL" => pos = 0
        /\ status.st = "AWAIT" => op.side = status.side
    BY <1>1 DEF Inv, OpOk
  <1>3. status.st = "AWAIT" => LiveIds \subseteq Pending(op.side) /\ status.known
    <2>1. status.st = "AWAIT" => status.known
      BY DEF Inv, RowOk
    <2>2. ASSUME status.st = "AWAIT", NEW i \in LiveIds PROVE i \in Pending(op.side)
      <3>1. orders[i].side = op.side /\ orders[i].st = "pending"
        BY <1>2, <2>2, NoWork
      <3>2. i \in Ids /\ orders[i].listed
        BY <1>1 DEF LiveIds, Book, OrdersOk, OrderOk
      <3> QED
        BY <3>1, <3>2 DEF Pending, Listed, On, Sent
    <2> QED
      BY <2>1, <2>2
  <1>4. status.st # "AWAIT" => Clear
    <2>1. status.st \in {"SIGNAL", "AWAIT", "IN"}
      BY <1>1, RowSides DEF Status
    <2> QED
      BY <1>2, <2>1, NoWork
  <1>5. Book' /\ LiveIds' = {}
    <2>1. CASE UNCHANGED orders /\ (Pending(op.side) = {} \/ ~status.known)
      <3>1. LiveIds = {}
        BY <1>3, <1>4, <2>1 DEF Clear
      <3> QED
        BY <1>1, <2>1, <3>1, SameBook
    <2>2. ASSUME NEW i \in Pending(op.side), orders' = [orders EXCEPT ![i].st = "cancelled"]
          PROVE  Book' /\ LiveIds' = {}
      <3>1. i \in Ids /\ i \in LiveIds /\ orders[i] \in Order
        BY <1>1, <2>2 DEF Pending, Listed, On, Sent, LiveIds, Live, Book, Numbered
      <3>2. /\ orders'[i] = [orders[i] EXCEPT !.st = "cancelled"]
            /\ \A j \in Ids \ {i} : orders'[j] = orders[j]
        BY <1>1, <2>2, <3>1 DEF Book, Numbered
      <3>3. Numbered'
        <4>1. [orders[i] EXCEPT !.st = "cancelled"] \in Order
          BY <3>1 DEF Order, Live
        <4> QED
          BY <1>1, <2>2, <3>1, <4>1 DEF Book, Numbered
      <3>4. PICK W : W = {i}
        OBVIOUS
      <3>5. /\ W \subseteq LiveIds /\ "cancelled" \in {"market", "cancelled"}
            /\ \A j \in W : orders'[j] = [orders[j] EXCEPT !.st = "cancelled"]
            /\ \A j \in Ids \ W : orders'[j] = orders[j]
        BY <3>1, <3>2, <3>4
      <3>6. Book' /\ LiveIds' = LiveIds \ W
        BY <1>1, <3>3, <3>5, AmendEffect
      <3>7. LiveIds \ W = {}
        BY <3>1, <3>4 DEF Inv, WorkOk
      <3> QED
        BY <3>6, <3>7
    <2> QED
      BY <2>1, <2>2, NothingFails, <1>1 DEF ResetApply
  <1>6. Locals'
    BY <1>1, IdleType DEF Locals, CountOk
  <1>7. status.st = "SIGNAL" /\ pos # 0 => paused
    BY <1>2 DEF Inv, RowOk
  <1>8. WorkOk' /\ RowOk' /\ OpOk'
    BY <1>1, <1>2, <1>5, <1>7, IdleType DEF WorkOk, RowOk, OpOk, Locals
  <1>9. JobOk'
    BY <1>1, <1>2 DEF Inv, JobOk, MorningOk, CoverOk, EnterOk, HoldOk, HourOk
  <1> QED
    BY <1>5, <1>6, <1>8, <1>9 DEF Inv

\* An execution opens the position of the signal, or closes the one there is.
LEMMA FillMoves ==
    ASSUME Prompt, Inv, NEW i \in Ids, Fill(i), UNCHANGED env
    PROVE  /\ Book' /\ Led' = Led /\ LiveIds' = {} /\ i \in LiveIds
           /\ orders'[i] = [orders[i] EXCEPT !.st = "done"]
           /\ IF orders[i].role = "ENTRY"
              THEN status.st = "AWAIT" /\ pos = 0 /\ pos' = status.side
              ELSE status.st = "IN" /\ pos # 0 /\ pos' = 0
  <1>1. /\ Locals /\ Book /\ orders[i].st \in Live /\ i \in LiveIds
        /\ orders' = [orders EXCEPT ![i].st = "done"]
        /\ pos' = pos + Signed(i) /\ feed' = pos' /\ phase' = phase
    BY NothingFails DEF Inv, Fill, LiveIds
  <1>2. orders[i].qty = 1 /\ orders[i].side \in {-1, 1} /\ status.side \in {-1, 1}
    BY <1>1, RowSides DEF Book, OrdersOk, OrderOk, Numbered, Order, Sides
  <1>3. Signed(i) = orders[i].side
    BY <1>2 DEF Signed
  <1>4. IF orders[i].role = "ENTRY" THEN EntryOk(i) ELSE CloserOk(i)
    BY <1>1 DEF Inv, WorkOk
  <1>5. IF orders[i].role = "ENTRY"
        THEN status.st = "AWAIT" /\ pos = 0 /\ pos' = status.side
        ELSE status.st = "IN" /\ pos # 0 /\ pos' = 0
    BY <1>1, <1>2, <1>3, <1>4 DEF EntryOk, CloserOk
  <1>6. pos' \in -1..1
    BY <1>2, <1>5
  <1>7. /\ Book' /\ Led' = Led /\ LiveIds' = LiveIds \ {i}
        /\ orders'[i] = [orders[i] EXCEPT !.st = "done"]
    BY <1>1, <1>6, FillEffect
  <1>8. LiveIds \ {i} = {}
    BY <1>1 DEF Inv, WorkOk
  <1> QED
    BY <1>1, <1>5, <1>7, <1>8

LEMMA FillInv ==
    ASSUME Prompt, Inv, NEW i \in Ids, Fill(i), UNCHANGED env
    PROVE  Inv'
  <1>1. /\ Book' /\ Led' = Led /\ LiveIds' = {} /\ i \in LiveIds
        /\ orders'[i] = [orders[i] EXCEPT !.st = "done"]
        /\ IF orders[i].role = "ENTRY"
           THEN status.st = "AWAIT" /\ pos = 0 /\ pos' = status.side
           ELSE status.st = "IN" /\ pos # 0 /\ pos' = 0
    BY FillMoves
  <1>2. /\ UNCHANGED <<status, job, count, op, paused, phase>> /\ phase = "open" /\ op.pc = "idle"
        /\ job.pc \notin {"sl2", "sl3", "mplace"}
    BY DEF Fill, Quietly
  <1>3. Locals'
    BY <1>2 DEF Inv, Locals, CountOk
  <1>4. ~Clear /\ status.st \in {"AWAIT", "IN"} /\ status.side # 0
    BY <1>1, RowSides DEF Inv, Clear, Sides
  <1>5. WorkOk' /\ RowOk' /\ OpOk'
    BY <1>1, <1>2, <1>4 DEF Inv, WorkOk, RowOk, OpOk, Calm
  <1>6. status.st = "AWAIT" => OpenEntryRow(status.side)'
    <2> SUFFICES ASSUME status.st = "AWAIT" PROVE OpenEntryRow(status.side)'
      OBVIOUS
    <2>1. /\ i \in Ids /\ orders[i].role = "ENTRY" /\ orders[i].side = status.side
          /\ ~orders[i].booked /\ orders[i] \in Order
      BY <1>1, NoWork DEF Inv, Book, OrdersOk, OrderOk, Numbered, LiveIds
    <2>2. orders'[i].role = "ENTRY" /\ orders'[i].side = status.side /\ ~orders'[i].booked
          /\ orders'[i].st = "done"
      BY <1>1, <2>1 DEF Order
    <2>3. status' = status
      BY <1>2
    <2> QED
      BY <2>1, <2>2, <2>3 DEF OpenEntryRow, On, Sent
  <1>7. (Wants' <=> Wants) /\ (Behind' <=> Behind) /\ (Hourly' <=> Hourly)
        /\ \A st : For(st)' <=> For(st)
    BY <1>1, <1>2 DEF Wants, Behind, Hourly, For
  <1>8. MorningOk' /\ CoverOk'
    BY <1>1, <1>2, <1>4, <1>7 DEF Inv, JobOk, MorningOk, CoverOk, Calm
  <1>9. EnterOk'
    <2>1. OpenEntryRow(status.side)' /\ job.row.side = status.side
          => OpenEntryRow(job.row.side)'
      BY <1>2
    <2>2. pos # 0 => status.st # "AWAIT"
      BY <1>1
    <2> QED
      BY <1>1, <1>2, <1>4, <1>6, <1>7, <2>1, <2>2 DEF Inv, JobOk, EnterOk, For
  <1>10. HoldOk'
    BY <1>1, <1>2, <1>4, <1>7 DEF Inv, JobOk, HoldOk, For
  <1>11. HourOk'
    BY <1>1, <1>2, <1>4, <1>7 DEF Inv, JobOk, HourOk
  <1>12. JobOk'
    BY <1>1, <1>8, <1>9, <1>10, <1>11 DEF JobOk
  <1> QED
    BY <1>1, <1>3, <1>5, <1>12 DEF Inv

LEMMA OtherSyncInv ==
    ASSUME Inv, OtherSync, UNCHANGED env
    PROVE  Inv'
  <1>1. /\ Locals /\ Book /\ job.pc # "ent2" /\ orders' = Synced
        /\ UNCHANGED <<status, job, count, pos, feed, op, paused, phase>>
    BY DEF Inv, OtherSync, world
  <1>2. /\ Book' /\ Led' = pos /\ LiveIds' = LiveIds
        /\ \A i \in LiveIds : orders'[i] = orders[i]
    BY <1>1, SyncEffect
  <1>3. Locals'
    BY <1>1 DEF Locals, CountOk
  <1>4. WorkOk' /\ RowOk' /\ OpOk'
    BY <1>1, <1>2, RowSides
    DEF Inv, WorkOk, EntryOk, CloserOk, RowOk, OpOk, Calm, Clear, Sides
  <1>5. (Wants' <=> Wants) /\ (Hourly' <=> Hourly) /\ (Calm => Calm') /\ (Clear' <=> Clear)
        /\ (pos = 0 => ~Behind') /\ \A st : For(st)' <=> For(st)
    BY <1>1, <1>2, RowSides DEF Wants, Behind, Hourly, Calm, Clear, For, Sides
  <1>6. MorningOk' /\ CoverOk'
    BY <1>1, <1>2, <1>5 DEF Inv, JobOk, MorningOk, CoverOk
  <1>7. EnterOk'
    BY <1>1, <1>2, <1>5 DEF Inv, JobOk, EnterOk
  <1>8. HoldOk' /\ HourOk'
    BY <1>1, <1>2, <1>5 DEF Inv, JobOk, HoldOk, HourOk
  <1>9. JobOk'
    BY <1>1, <1>2, <1>6, <1>7, <1>8 DEF Inv, JobOk
  <1> QED
    BY <1>2, <1>3, <1>4, <1>9 DEF Inv

LEMMA CloseInv ==
    ASSUME Inv, Close, UNCHANGED env
    PROVE  Inv'
  <1>1. /\ Locals /\ Book /\ job.pc = "idle" /\ phase' = "closed" /\ count.days < MaxDays
        /\ UNCHANGED <<status, job, count, pos, feed, op, paused>>
    BY DEF Inv, Close
  <1>2. Book' /\ Led' = pos /\ Clear'
    BY <1>1, CloseEffect DEF Close
  <1>3. Locals'
    BY <1>1 DEF Locals, CountOk
  <1>4. WorkOk' /\ RowOk' /\ OpOk'
    BY <1>1, <1>2 DEF Inv, WorkOk, RowOk, OpOk, Calm, Clear
  <1>5. JobOk'
    BY <1>1 DEF JobOk, MorningOk, CoverOk, EnterOk, HoldOk, HourOk
  <1> QED
    BY <1>2, <1>3, <1>4, <1>5 DEF Inv

LEMMA NightInv ==
    ASSUME Inv, Night, UNCHANGED env
    PROVE  Inv'
  <1>1. /\ Locals /\ Book /\ job.pc = "idle" /\ phase = "closed" /\ phase' = "open"
        /\ count' = [count EXCEPT !.days = @ + 1]
        /\ status' = [status EXCEPT !.stale = TRUE, !.old = TRUE] /\ feed' = pos
        /\ UNCHANGED <<job, pos, op, paused>>
    BY DEF Inv, Night
  <1>2. Book' /\ Led' = pos /\ Clear'
    BY <1>1, NightEffect DEF Night
  <1>3. /\ status' \in Status /\ status'.st = status.st /\ status'.side = status.side
        /\ status'.known = status.known
    BY <1>1, RowSides DEF Status
  <1>4. Locals'
    <2>1. CountOk'
      BY <1>1, ChaseAssumption DEF Locals, CountOk
    <2> QED
      BY <1>1, <1>3, <2>1 DEF Locals
  <1>5. WorkOk' /\ RowOk' /\ OpOk'
    BY <1>1, <1>2, <1>3 DEF Inv, WorkOk, RowOk, OpOk, Calm, Clear
  <1>6. JobOk'
    BY <1>1 DEF JobOk, MorningOk, CoverOk, EnterOk, HoldOk, HourOk
  <1> QED
    BY <1>2, <1>4, <1>5, <1>6 DEF Inv

-----------------------------------------------------------------------------
(***************************************************************************)
(* The invariant holds                                                     *)
(***************************************************************************)
LEMMA InvInit ==
    ASSUME Prompt, Init
    PROVE  Inv
  <1>1. \A i \in Ids : orders[i] = NoOrder
    BY DEF Init
  <1>2. NoOrder.st = "none" /\ ~NoOrder.listed /\ ~NoOrder.booked /\ NoOrder \in Order
    BY DEF NoOrder, Order, Sides
  <1>3. Numbered
    BY <1>2 DEF Init, Numbered
  <1>4. OrdersOk
    BY <1>1, <1>2 DEF OrdersOk, OrderOk, Live
  <1>5. Done = {} /\ LiveIds = {} /\ Booked = {}
    BY <1>1, <1>2 DEF Done, LiveIds, Live, Booked
  <1>6. QtyOf(Done) = 0 /\ Led = 0
    <2>1. QtyOf({}) = 0
      BY SumNone DEF QtyOf
    <2>2. QtyOf(Done) = QtyOf({}) /\ Led = QtyOf(Booked)
      BY <1>5 DEF QtyOf, Led, Booked
    <2>3. QtyOf(Booked) = QtyOf({})
      BY <1>5 DEF QtyOf
    <2> QED
      BY <2>1, <2>2, <2>3
  <1>7. Book
    BY <1>3, <1>4, <1>6 DEF Init, Book, BookOk, ClosedOk
  <1>8. Locals
    <2>1. env \in Settings /\ env \in Setting
      BY ChaseAssumption DEF Init
    <2>2. env.signals \in Nat /\ env.failures \in Nat /\ MaxHours \in Nat /\ MaxDays \in Nat
      BY <2>1, ChaseAssumption DEF Setting
    <2>3. CountOk
      BY <2>2 DEF Init, CountOk
    <2>4. op \in [pc: {"idle", "apply"}, side: Sides]
      BY DEF Init, Sides
    <2> QED
      BY <2>1, <2>3, <2>4, IdleType DEF Init, Locals
  <1>9. WorkOk /\ RowOk /\ OpOk
    BY <1>5, <1>6, IdleType DEF Init, WorkOk, RowOk, OpOk
  <1>10. JobOk
    BY <1>5, IdleType DEF Init, JobOk, MorningOk, CoverOk, EnterOk, HoldOk, HourOk
  <1> QED
    BY <1>7, <1>8, <1>9, <1>10 DEF Inv

LEMMA InvJobStep ==
    ASSUME Prompt, Inv, JobStep, UNCHANGED <<world, env>>
    PROVE  Inv'
  BY AdoptInv, MorningInv, MorningExitInv, MorningPlaceInv, MorningSettleInv, CandleInv,
     CoverOrdersInv, CoverSizeInv, CoverSendInv, CoverClearInv,
     EntryBookInv, EntryLedgerInv, EntryOrdersInv, EntrySendInv, EntryFilledInv,
     EntryStatusInv, EntryStopInv, HoldBookInv, HoldSyncInv,
     StopPositionInv, StopOrdersInv, StopSendInv,
     SignalInv, CancelFindInv, CancelDropInv, HourInInv, HourTrailInv, HourSignalInv, HourAwaitInv
  DEF JobStep

LEMMA InvStutter ==
    ASSUME Inv, UNCHANGED vars
    PROVE  Inv'
  <1>1. UNCHANGED <<status, orders, job, count, pos, feed, op, paused, phase, env>>
    BY DEF vars, world
  <1>2. Book' /\ Led' = Led /\ LiveIds' = LiveIds /\ (\A s : OpenEntryRow(s)' <=> OpenEntryRow(s))
    BY <1>1, SameBook DEF Inv
  <1>3. Locals' /\ WorkOk' /\ RowOk' /\ OpOk'
    BY <1>1, <1>2 DEF Inv, Locals, CountOk, WorkOk, EntryOk, CloserOk, RowOk, OpOk, Calm, Clear
  <1>4. (Wants' <=> Wants) /\ (Behind' <=> Behind) /\ (Hourly' <=> Hourly) /\ (Calm' <=> Calm)
        /\ (Clear' <=> Clear) /\ \A st : For(st)' <=> For(st)
    BY <1>1, <1>2 DEF Wants, Behind, Hourly, Calm, Clear, For
  <1>5. MorningOk' /\ CoverOk' /\ EnterOk' /\ HoldOk'
    BY <1>1, <1>2, <1>4 DEF Inv, JobOk, MorningOk, CoverOk, EnterOk, HoldOk
  <1>6. HourOk'
    BY <1>1, <1>2, <1>4 DEF Inv, JobOk, HourOk
  <1>7. JobOk'
    BY <1>1, <1>2, <1>5, <1>6 DEF Inv, JobOk
  <1> QED
    BY <1>2, <1>3, <1>7 DEF Inv

LEMMA InvNext ==
    ASSUME Prompt, Inv, [Next]_vars
    PROVE  Inv'
  <1>1. CASE UNCHANGED vars
    BY <1>1, InvStutter
  <1>2. ASSUME Next PROVE Inv'
    <2>1. UNCHANGED env
      BY <1>2 DEF Next
    <2>2. CASE (MinuteStart \/ HourStart \/ JobStep) /\ UNCHANGED world
      BY <2>1, <2>2, MinuteStartInv, HourStartInv, InvJobStep
    <2>3. CASE Pause \/ ResetCheck \/ ResetApply
      BY <2>1, <2>3, PauseInv, ResetCheckInv, ResetApplyInv
    <2>4. ASSUME NEW i \in Ids, Fill(i) PROVE Inv'
      BY <2>1, <2>4, FillInv
    <2>5. ASSUME NEW i \in Ids, Trigger(i) PROVE FALSE
      BY <2>5, NothingFails DEF Inv, Trigger
    <2>6. ~FeedCatchesUp
      BY DEF Inv, Book, BookOk, FeedCatchesUp
    <2>7. CASE OtherSync \/ Close \/ Night
      BY <2>1, <2>7, OtherSyncInv, CloseInv, NightInv
    <2> QED
      BY <1>2, <2>2, <2>3, <2>4, <2>5, <2>6, <2>7 DEF Next
  <1> QED
    BY <1>1, <1>2

\* In prompt surroundings a Chase book always satisfies the inductive invariant.
THEOREM Invariant ==
    ASSUME Prompt
    PROVE  Spec => []Inv
  <1>1. Init => Inv
    BY InvInit
  <1>2. Inv /\ [Next]_vars => Inv'
    BY InvNext
  <1> QED
    BY <1>1, <1>2, PTL DEF Spec

\* The row, the orders and what a job holds across its awaits stay well formed,
\* whatever the numbers of orders, hours, days and signals.
THEOREM TypeCorrect ==
    ASSUME Prompt
    PROVE  Spec => []TypeOK
  <1>1. Inv => TypeOK
    <2> SUFFICES ASSUME Inv PROVE TypeOK
      OBVIOUS
    <2>1. pos \in -2..2 /\ feed \in -2..2
      BY DEF Inv, Book, BookOk
    <2> QED
      BY <2>1 DEF Inv, Book, Numbered, Locals, CountOk, TypeOK
  <1> QED
    BY <1>1, Invariant, PTL

\* Signals, minute jobs, triggers, retries, resets and another writer of the ledger
\* together never build more than one lot: an entry is sent only over an empty book
\* whose ledger does not show the position either, and while no order works.
THEOREM OneEntryHolds ==
    ASSUME Prompt
    PROVE  Spec => []OneEntry
  <1>1. Inv => OneEntry
    BY DEF Inv, Book, BookOk, OneEntry
  <1> QED
    BY <1>1, Invariant, PTL

\* Between jobs an entry waits at the broker only for the signal it was sent for:
\* what drops, resets or fills a signal has cancelled its order, or found it gone.
THEOREM NoStrayEntryHolds ==
    ASSUME Prompt
    PROVE  Spec => []NoStrayEntry
  <1>1. Inv => NoStrayEntry
    <2> SUFFICES ASSUME Inv, NEW i \in Ids, orders[i].role = "ENTRY", orders[i].st = "pending"
                 PROVE  status.st = "AWAIT" /\ status.side = orders[i].side
      BY DEF NoStrayEntry
    <2>1. i \in LiveIds
      BY DEF LiveIds, Live
    <2> QED
      BY <2>1 DEF Inv, WorkOk, EntryOk
  <1> QED
    BY <1>1, Invariant, PTL

-----------------------------------------------------------------------------
(***************************************************************************)
(* Executions                                                              *)
(***************************************************************************)

\* No order is executed in this step.
NothingDone == \A i \in Ids : orders'[i].st = "done" => orders[i].st = "done"

LEMMA SyncedDone ==
    ASSUME Numbered, orders' = Synced
    PROVE  NothingDone
  <1> SUFFICES ASSUME NEW i \in Ids PROVE orders'[i].st = orders[i].st
    BY DEF NothingDone
  <1>1. orders[i] \in Order
    BY DEF Numbered
  <1>2. orders'[i] = orders[i] \/ orders'[i] = [orders[i] EXCEPT !.booked = TRUE]
    BY DEF Synced
  <1> QED
    BY <1>1, <1>2 DEF Order

LEMMA PlacedDone ==
    ASSUME Numbered, NEW side, NEW role, NEW price, NEW qty, Place(side, role, price, qty)
    PROVE  NothingDone
  <1>1. CASE orders' = orders
    BY <1>1 DEF NothingDone
  <1>2. CASE orders' # orders
    <2>1. PICK n, o : orders' = [orders EXCEPT ![n] = o] /\ o.st \in {"market", "pending"}
      <3> DEFINE o == [st |-> IF price \in {0, Fresh} THEN "market" ELSE "pending", side |-> side,
                       role |-> role, price |-> price, qty |-> qty, listed |-> TRUE,
                       booked |-> FALSE]
      <3>1. orders' = [orders EXCEPT ![Min(Ids \ Sent)] = o]
        BY <1>2 DEF Place
      <3>2. o.st \in {"market", "pending"}
        OBVIOUS
      <3> QED
        BY <3>1, <3>2
    <2>2. \A i \in Ids : orders'[i] = IF i = n THEN o ELSE orders[i]
      BY <2>1 DEF Numbered
    <2> QED
      BY <2>1, <2>2 DEF NothingDone
  <1> QED
    BY <1>1, <1>2

LEMMA OnlyFills ==
    ASSUME Prompt, Inv, Next, \A i \in Ids : ~Fill(i)
    PROVE  NothingDone
  <1>1. Numbered /\ \A i \in Ids : orders[i] \in Order
    BY DEF Inv, Book, Numbered
  <1>2. CASE UNCHANGED orders
    BY <1>2 DEF NothingDone
  <1>3. CASE orders' = Synced
    BY <1>1, <1>3, SyncedDone
  <1>4. ASSUME NEW side, NEW role, NEW price, NEW qty, Place(side, role, price, qty) PROVE NothingDone
    BY <1>1, <1>4, PlacedDone
  <1>5. CASE CoverSend
    <2>1. ASSUME NEW i, orders' = [orders EXCEPT ![i].st = "market"] PROVE NothingDone
      <3>1. \A j \in Ids : orders'[j] = IF j = i THEN [orders[j] EXCEPT !.st = "market"] ELSE orders[j]
        BY <1>1, <2>1 DEF Numbered
      <3>2. \A j \in Ids : orders'[j].st \in {orders[j].st, "market"}
        BY <1>1, <3>1 DEF Order
      <3> QED
        BY <3>2 DEF NothingDone
    <2> QED
      BY <1>2, <1>4, <1>5, <2>1 DEF CoverSend
  <1>6. CASE CancelDrop
    <2>1. ASSUME orders' = [i \in Ids |-> IF i \in job.work THEN [orders[i] EXCEPT !.st = "cancelled"]
                                          ELSE orders[i]]
          PROVE  NothingDone
      <3>1. \A j \in Ids : orders'[j].st \in {orders[j].st, "cancelled"}
        BY <1>1, <2>1 DEF Order
      <3> QED
        BY <3>1 DEF NothingDone
    <2> QED
      BY <1>2, <1>6, <2>1 DEF CancelDrop
  <1>7. CASE ResetApply
    <2>1. ASSUME NEW i, orders' = [orders EXCEPT ![i].st = "cancelled"] PROVE NothingDone
      <3>1. \A j \in Ids : orders'[j] = IF j = i THEN [orders[j] EXCEPT !.st = "cancelled"] ELSE orders[j]
        BY <1>1, <2>1 DEF Numbered
      <3>2. \A j \in Ids : orders'[j].st \in {orders[j].st, "cancelled"}
        BY <1>1, <3>1 DEF Order
      <3> QED
        BY <3>2 DEF NothingDone
    <2> QED
      BY <1>2, <1>7, <2>1 DEF ResetApply
  <1>8. CASE Close
    <2> SUFFICES ASSUME NEW i \in Ids PROVE orders'[i].st \in {orders[i].st, "cancelled"}
      BY DEF NothingDone
    <2>1. PICK end, booked : /\ end = IF orders[i].st \in Live THEN "cancelled" ELSE orders[i].st
                             /\ orders'[i] = [orders[i] EXCEPT !.st = end, !.booked = booked]
      BY <1>8 DEF Close
    <2>2. orders'[i].st = end
      BY <1>1, <2>1 DEF Order
    <2> QED
      BY <2>1, <2>2
  <1>9. CASE Night
    <2> SUFFICES ASSUME NEW i \in Ids PROVE orders'[i].st = orders[i].st
      BY DEF NothingDone
    <2>1. orders'[i] = [orders[i] EXCEPT !.listed = FALSE]
      BY <1>9 DEF Night
    <2> QED
      BY <1>1, <2>1 DEF Order
  <1>10. CASE MorningPlace \/ EntrySend \/ EntryStop \/ StopSend
    <2>1. CASE MorningPlace
      BY <1>2, <1>4, <2>1 DEF MorningPlace
    <2>2. CASE EntrySend
      BY <1>2, <1>4, <2>2 DEF EntrySend
    <2>3. CASE EntryStop
      BY <1>2, <1>4, <2>3 DEF EntryStop
    <2>4. CASE StopSend
      BY <1>2, <1>4, <2>4 DEF StopSend
    <2> QED
      BY <1>10, <2>1, <2>2, <2>3, <2>4
  <1>11. CASE CoverOrders \/ EntryOrders \/ HoldSync \/ StopOrders \/ OtherSync
    <2>1. UNCHANGED orders \/ orders' = Synced
      BY <1>11 DEF CoverOrders, EntryOrders, HoldSync, StopOrders, OtherSync
    <2> QED
      BY <1>2, <1>3, <2>1
  <1>12. CASE \/ MinuteStart \/ HourStart \/ Adopt \/ Morning \/ MorningExit \/ MorningSettle
              \/ Candle \/ CoverSize \/ CoverClear \/ EntryBook \/ EntryLedger \/ EntryFilled
              \/ EntryStatus \/ HoldBook \/ StopPosition
    <2>1. UNCHANGED orders
      BY <1>12 DEF MinuteStart, HourStart, Adopt, Morning, MorningExit, MorningSettle, Candle,
                   CoverSize, CoverClear, EntryBook, EntryLedger, EntryFilled, EntryStatus,
                   HoldBook, StopPosition
    <2> QED
      BY <1>2, <2>1
  <1>13. CASE \/ Signal \/ CancelFind \/ HourIn \/ HourTrail \/ HourSignal \/ HourAwait
              \/ Pause \/ ResetCheck \/ FeedCatchesUp
    <2>1. UNCHANGED orders
      BY <1>13 DEF Signal, CancelFind, HourIn, HourTrail, HourSignal, HourAwait,
                   Pause, ResetCheck, FeedCatchesUp
    <2> QED
      BY <1>2, <2>1
  <1>14. ASSUME NEW i \in Ids, Trigger(i) PROVE FALSE
    BY <1>14, NothingFails DEF Inv, Trigger
  <1>15. CASE JobStep
    BY <1>5, <1>6, <1>10, <1>11, <1>12, <1>13, <1>15 DEF JobStep
  <1> QED
    BY <1>7, <1>8, <1>9, <1>11, <1>12, <1>13, <1>14, <1>15 DEF Next

\* An executed stop, cover or exit reduces the position: while nothing fails and
\* the feed is prompt, whatever order the stop, the cover, the morning exit, the
\* retries and the other writer's syncs come in, an order that is not an entry is
\* executed only against the position it closes.
THEOREM NoReversalHolds ==
    ASSUME Prompt
    PROVE  Spec => NoReversal
  <1> DEFINE Reduces == ~env.blind =>
                 \A i \in Ids : orders[i].role # "ENTRY" /\ orders[i].st # "done" /\ orders'[i].st = "done"
                                => Abs(pos') < Abs(pos)
  <1>1. Inv /\ [Next]_vars => [Reduces]_vars
    <2> SUFFICES ASSUME Inv, Next, NEW i \in Ids,
                        orders[i].role # "ENTRY", orders[i].st # "done", orders'[i].st = "done"
                 PROVE  Abs(pos') < Abs(pos)
      OBVIOUS
    <2>1. PICK j \in Ids : Fill(j)
      BY OnlyFills DEF NothingDone
    <2>2. /\ IF orders[j].role = "ENTRY"
             THEN status.st = "AWAIT" /\ pos = 0 /\ pos' = status.side
             ELSE status.st = "IN" /\ pos # 0 /\ pos' = 0
      BY <2>1, FillMoves DEF Next
    <2>3. i = j
      <3>1. orders' = [orders EXCEPT ![j].st = "done"] /\ orders \in [Ids -> Order]
        BY <2>1 DEF Fill, Inv, Book, Numbered
      <3>2. i # j => orders'[i] = orders[i]
        BY <3>1
      <3> QED
        BY <3>2
    <2>4. pos # 0 /\ pos' = 0 /\ pos \in -1..1
      BY <2>2, <2>3 DEF Inv, Book, BookOk
    <2> QED
      BY <2>4 DEF Abs
  <1>2. Spec => [][Reduces]_vars
    BY <1>1, Invariant, PTL DEF Spec
  <1> QED
    BY <1>2 DEF NoReversal

=============================================================================
