--------------------------- MODULE LegGroupProofs ---------------------------
(***************************************************************************)
(* Theorems about LegGroup, for any legs and orders, any number of retries *)
(* and any set of settings that satisfies LegAssumption: what an entry job *)
(* has at the broker through refusals, lost answers, restarts and new      *)
(* attempts.                                                               *)
(*                                                                         *)
(* Two hypotheses are about the settings.  DistinctOrders: no two orders   *)
(* of a job have the same symbol, side and quantity, which is all the      *)
(* duplicate check and the book match compare.  SafeRetries: where the     *)
(* broker refuses, the job runs once and no answer is lost; after a        *)
(* refusal every retry opens a random key that no later attempt looks up.  *)
(***************************************************************************)
EXTENDS LegGroup, FiniteSetTheorems, SequenceTheorems, TLAPS

DistinctOrders == \A e \in Settings : \A o, p \in e.orders : AttrOf[o] = AttrOf[p] => o = p

SafeRetries == \A e \in Settings : e.refusals => ~e.lost /\ e.restarts = 0 /\ e.jobTries <= 1

\* Fates a request never leaves, without an order at the broker.
Dead == {"refused", "REJECTED", "CANCELLED"}

-----------------------------------------------------------------------------
(***************************************************************************)
(* What holds in every setting                                             *)
(***************************************************************************)

\* An order that is over, or not started, waits in this phase of the job.
PhaseOk(o) ==
    /\ o \notin Orders_ => ens[o].pc = "off" /\ tries[o] = <<>>
    /\ job.pc \in {"queued", "failed"} => ens[o].pc = "off"
    /\ job.pc = "hedges" /\ LegOf[o] \notin Hedges => ens[o].pc = "off"
    /\ job.pc = "primaries" /\ o \in Orders_ /\ LegOf[o] \in Hedges => ens[o].pc \in Over
    /\ job.pc = "completed" /\ o \in Orders_ => ens[o].pc \in Over
    /\ job.pc = "rollback" => ens[o].pc \in Over \cup {"off"}

\* Which ensurers run in which phase of the job.
PhaseInv == (job.pc # "queued" => job.attempt > 0) /\ \A o \in Orders : PhaseOk(o)

\* What a row says of its request.
RowOk(try) ==
    /\ try.row \in DUPLICATE_STATUSES \cup RETRY_TERMINAL \cup {"FILLED"}
    /\ try.row \in RETRY_TERMINAL => try.fate \in Dead
    /\ try.row = "FILLED" => try.fate = "COMPLETE"
    /\ try.fate \in Dead => env.refusals

RowInv == \A o \in Orders : \A n \in DOMAIN tries[o] : RowOk(tries[o][n])

\* What an ensurer knows of the request it waits for.
EnsOk(o) ==
    /\ ens[o].pc = "calling" => ens[o].at = <<o, Len(tries[o])>>
    /\ ens[o].pc \in {"poll", "done"} => ens[o].at # NoReq
    /\ ens[o].pc = "done" => At(ens[o].at).fate = "COMPLETE"

EnsInv == \A o \in Orders : EnsOk(o)

LegInv == PhaseInv /\ RowInv /\ EnsInv

\* The state, spelled out for the provers.
LEMMA Shapes ==
    ASSUME TypeOK
    PROVE  /\ Orders_ \subseteq Orders /\ env \in Setting
           /\ \A o \in Orders : /\ Len(tries[o]) \in Nat /\ DOMAIN tries[o] = 1..Len(tries[o])
                                /\ \A n \in DOMAIN tries[o] : tries[o][n] \in Try
                                /\ ens[o].pc \in EnsPCs /\ ens[o].attempt \in Nat
                                /\ ens[o].at \in Requests \cup {NoReq}
  <1>1. /\ tries \in [Orders -> Seq(Try)] /\ env \in Setting
        /\ ens \in [Orders -> [pc: EnsPCs, attempt: Nat, at: Requests \cup {NoReq}]]
    BY LegAssumption DEF TypeOK
  <1>2. Orders_ \subseteq Orders
    BY <1>1 DEF Setting, Orders_
  <1>3. ASSUME NEW o \in Orders
        PROVE  /\ Len(tries[o]) \in Nat /\ DOMAIN tries[o] = 1..Len(tries[o])
               /\ \A n \in DOMAIN tries[o] : tries[o][n] \in Try
    <2>1. tries[o] \in Seq(Try)
      BY <1>1
    <2> QED
      BY <2>1, LenProperties, ElementOfSeq
  <1> QED
    BY <1>1, <1>2, <1>3

\* A request is an order of the job and the index of one of its rows.
LEMMA RequestShape ==
    ASSUME NEW r
    PROVE  r \in Requests <=> \E o \in Orders_ : \E n \in DOMAIN tries[o] : r = <<o, n>>
  BY DEF Requests

LEMMA RequestParts ==
    ASSUME TypeOK, NEW r \in Requests
    PROVE  /\ r[1] \in Orders_ /\ r[1] \in Orders /\ r[2] \in DOMAIN tries[r[1]]
           /\ r = <<r[1], r[2]>> /\ r # NoReq /\ At(r) \in Try
  <1>1. PICK o \in Orders_ : \E n \in DOMAIN tries[o] : r = <<o, n>>
    BY RequestShape
  <1>2. PICK n \in DOMAIN tries[o] : r = <<o, n>>
    BY <1>1
  <1>3. o \in Orders /\ tries[o][n] \in Try
    BY Shapes
  <1> QED
    BY <1>2, <1>3 DEF At, NoReq

\* Rows are never removed and their fates, once final, never change.
Final == Dead \cup {"COMPLETE"}

Kept ==
    /\ tries' \in [Orders -> Seq(Try)]
    /\ \A o \in Orders : \A n \in DOMAIN tries[o] :
          /\ n \in DOMAIN tries'[o]
          /\ tries[o][n].fate \in Final => tries'[o][n].fate = tries[o][n].fate

LEMMA RequestsKept ==
    ASSUME TypeOK, Kept, env' = env
    PROVE  /\ Requests \subseteq Requests'
           /\ \A r \in Requests : At(r).fate \in Final => At(r)'.fate = At(r).fate
  <1>1. Orders_' = Orders_ /\ Orders_ \subseteq Orders
    BY Shapes DEF Orders_
  <1>2. ASSUME NEW r \in Requests
        PROVE  r \in Requests' /\ (At(r).fate \in Final => At(r)'.fate = At(r).fate)
    BY <1>1, RequestParts DEF Kept, Requests, At
  <1> QED
    BY <1>2

LEMMA SameKept == ASSUME TypeOK, UNCHANGED tries PROVE Kept
  BY DEF TypeOK, Kept

\* One row is written.
Wrote(r, e) ==
    /\ tries' \in [Orders -> Seq(Try)]
    /\ \A o \in Orders : /\ Len(tries'[o]) = Len(tries[o]) /\ DOMAIN tries'[o] = DOMAIN tries[o]
                         /\ \A n \in DOMAIN tries[o] :
                               tries'[o][n] = IF <<o, n>> = r THEN e ELSE tries[o][n]

LEMMA SetTryWrites ==
    ASSUME TypeOK, NEW r \in Requests, NEW e \in Try, SetTry(r, e)
    PROVE  Wrote(r, e)
  <1> DEFINE o == r[1]
             t == [tries[o] EXCEPT ![r[2]] = e]
  <1>1. o \in Orders /\ r[2] \in DOMAIN tries[o] /\ r = <<o, r[2]>>
    BY RequestParts
  <1>2. tries \in [Orders -> Seq(Try)] /\ tries[o] \in Seq(Try)
    BY <1>1 DEF TypeOK
  <1>3. r[2] \in 1..Len(tries[o]) /\ DOMAIN tries[o] = 1..Len(tries[o])
    BY <1>1, Shapes
  <1>4. t \in Seq(Try) /\ Len(t) = Len(tries[o]) /\ t[r[2]] = e
        /\ \A n \in 1..Len(tries[o]) \ {r[2]} : t[n] = tries[o][n]
    BY <1>2, <1>3, ExceptSeq
  <1>5. DOMAIN t = DOMAIN tries[o]
    OBVIOUS
  <1>6. tries' = [tries EXCEPT ![o] = t]
    BY DEF SetTry
  <1> HIDE DEF t, o
  <1>7. tries'[o] = t /\ tries' \in [Orders -> Seq(Try)]
        /\ \A p \in Orders \ {o} : tries'[p] = tries[p]
    BY <1>1, <1>2, <1>4, <1>6
  <1>8. \A n \in DOMAIN tries[o] : tries'[o][n] = IF <<o, n>> = r THEN e ELSE tries[o][n]
    BY <1>1, <1>3, <1>4, <1>7
  <1>9. \A p \in Orders \ {o} : \A n \in DOMAIN tries[p] : <<p, n>> # r
    BY <1>1
  <1> QED
    BY <1>4, <1>5, <1>7, <1>8, <1>9 DEF Wrote

\* Writing a sound row whose fate was not final keeps the rows sound.
LEMMA WroteKeeps ==
    ASSUME TypeOK, RowInv, env' = env, NEW r \in Requests, NEW e \in Try, Wrote(r, e),
           RowOk(e), At(r).fate \in Final => e.fate = At(r).fate
    PROVE  Kept /\ RowInv' /\ Requests' = Requests
  <1>1. Orders_' = Orders_ /\ Orders_ \subseteq Orders
    BY Shapes DEF Orders_
  <1>2. Requests' = Requests
    BY <1>1 DEF Wrote, Requests
  <1>3. \A o \in Orders : \A n \in DOMAIN tries[o] :
           <<o, n>> = r => At(r) = tries[o][n]
    BY DEF At
  <1>4. Kept
    BY <1>3 DEF Wrote, Kept
  <1>5. RowInv'
    BY DEF Wrote, RowInv, RowOk
  <1> QED
    BY <1>2, <1>4, <1>5

\* A row is opened.
LEMMA AppendKeeps ==
    ASSUME TypeOK, RowInv, env' = env, NEW o \in Orders_,
           tries' = [tries EXCEPT ![o] = Append(tries[o], NewTry)]
    PROVE  /\ Kept /\ RowInv' /\ <<o, Len(tries[o]) + 1>> \in Requests'
           /\ Len(tries'[o]) = Len(tries[o]) + 1
           /\ \A n \in DOMAIN tries[o] : tries'[o][n] = tries[o][n]
           /\ DOMAIN tries'[o] = DOMAIN tries[o] \cup {Len(tries[o]) + 1}
           /\ \A p \in Orders \ {o} : tries'[p] = tries[p]
  <1> DEFINE t == Append(tries[o], NewTry)
             k == Len(tries[o]) + 1
  <1>1. o \in Orders /\ tries \in [Orders -> Seq(Try)] /\ tries[o] \in Seq(Try)
    BY Shapes DEF TypeOK
  <1>2. NewTry \in Try
    BY DEF NewTry, Try, OrderStatus, Fates
  <1>3. Len(tries[o]) \in Nat /\ DOMAIN tries[o] = 1..Len(tries[o])
    BY <1>1, Shapes
  <1>4. t \in Seq(Try) /\ Len(t) = k /\ \A n \in 1..Len(tries[o]) : t[n] = tries[o][n]
    BY <1>1, <1>2, AppendProperties
  <1>5. t[k] = NewTry
    BY <1>1, <1>2, AppendProperties
  <1>6. DOMAIN t = 1..k
    BY <1>4, LenProperties
  <1> HIDE DEF t
  <1>7. tries'[o] = t /\ tries' \in [Orders -> Seq(Try)]
        /\ \A p \in Orders \ {o} : tries'[p] = tries[p]
    BY <1>1, <1>4 DEF t
  <1>8. DOMAIN t = DOMAIN tries[o] \cup {k} /\ \A n \in DOMAIN tries[o] : t[n] = tries[o][n]
    BY <1>3, <1>4, <1>6
  <1>9. RowOk(NewTry)
    BY DEF RowOk, NewTry, DUPLICATE_STATUSES, RETRY_TERMINAL, Dead
  <1>10. RowInv'
    BY <1>5, <1>7, <1>8, <1>9 DEF RowInv, RowOk
  <1>11. Kept
    BY <1>7, <1>8 DEF Kept
  <1>12. <<o, k>> \in Requests'
    BY <1>7, <1>8 DEF Requests, Orders_
  <1> QED
    BY <1>4, <1>7, <1>8, <1>10, <1>11, <1>12

LEMMA MapBook ==
    /\ mapKiteOrderStatus("OPEN", 0, 1) = "ACCEPTED"
    /\ mapKiteOrderStatus("COMPLETE", 1, 1) = "FILLED"
    /\ mapKiteOrderStatus("REJECTED", 0, 1) = "REJECTED"
    /\ mapKiteOrderStatus("CANCELLED", 0, 1) = "CANCELLED"
  <1>1. mapKiteOrderStatus("OPEN", 0, 1) = "ACCEPTED"
    BY DEF mapKiteOrderStatus
  <1>2. mapKiteOrderStatus("COMPLETE", 1, 1) = "FILLED"
    BY DEF mapKiteOrderStatus
  <1>3. mapKiteOrderStatus("REJECTED", 0, 1) = "REJECTED"
    BY DEF mapKiteOrderStatus
  <1>4. mapKiteOrderStatus("CANCELLED", 0, 1) = "CANCELLED"
    BY DEF mapKiteOrderStatus
  <1> QED
    BY <1>1, <1>2, <1>3, <1>4

\* A snapshot writes a sound row, changes no fate and makes no row a duplicate.
LEMMA SnapshotWrites ==
    ASSUME TypeOK, RowInv, NEW r \in Requests, InBook(r), Snapshot(r)
    PROVE  \/ UNCHANGED tries
           \/ \E e \in Try : /\ SetTry(r, e) /\ RowOk(e)
                             /\ e.fate = At(r).fate
                             /\ e.row \in DUPLICATE_STATUSES => At(r).row \in DUPLICATE_STATUSES
  <1> DEFINE next == mapKiteOrderStatus(At(r).fate, IF At(r).fate = "COMPLETE" THEN 1 ELSE 0, 1)
             e == [At(r) EXCEPT !.row = next]
  <1>1. At(r) \in Try /\ RowOk(At(r)) /\ At(r).fate \in BookStatus
    BY RequestParts DEF RowInv, At, InBook
  <1>2. /\ At(r).fate = "OPEN" => next = "ACCEPTED"
        /\ At(r).fate = "COMPLETE" => next = "FILLED"
        /\ At(r).fate = "REJECTED" => next = "REJECTED"
        /\ At(r).fate = "CANCELLED" => next = "CANCELLED"
    BY MapBook
  <1>3. next \in OrderStatus
    BY <1>1, <1>2 DEF BookStatus, OrderStatus
  <1>4. UNCHANGED tries \/ (SetTry(r, e) /\ TransitionPasses(At(r).row, next))
    BY DEF Snapshot
  <1> HIDE DEF next
  <1>5. e \in Try /\ e.row = next /\ e.fate = At(r).fate
    BY <1>1, <1>3 DEF Try
  <1>6. RowOk(e)
    BY <1>1, <1>2, <1>5 DEF RowOk, BookStatus, Dead, DUPLICATE_STATUSES, RETRY_TERMINAL
  <1>7. e.row \in DUPLICATE_STATUSES => At(r).row \in DUPLICATE_STATUSES
    BY <1>1, <1>2, <1>5 DEF RowOk, BookStatus, Dead, DUPLICATE_STATUSES, RETRY_TERMINAL
  <1> QED
    BY <1>4, <1>5, <1>6, <1>7

-----------------------------------------------------------------------------
(***************************************************************************)
(* The steps, as they look to the invariants                               *)
(***************************************************************************)
Awake == EnsPCs \ (Over \cup {"off"})

\* An awake ensurer belongs to the phase the job is in.
LEMMA AwakePhase ==
    ASSUME TypeOK, PhaseInv, NEW o \in Orders, ens[o].pc \in Awake
    PROVE  /\ o \in Orders_
           /\ \/ job.pc = "hedges" /\ LegOf[o] \in Hedges
              \/ job.pc = "primaries" /\ LegOf[o] \notin Hedges
  <1>1. PhaseOk(o) /\ job.pc \in JobPCs
    BY DEF PhaseInv, TypeOK
  <1> QED
    BY <1>1 DEF PhaseOk, Awake, JobPCs

EnsRecord == [pc: EnsPCs, attempt: Nat, at: Requests \cup {NoReq}]

\* The ensurer of o is v now, and nothing else but the rows changed.
Moved(o, v) ==
    /\ ens' = [ens EXCEPT ![o] = v]
    /\ UNCHANGED <<job, squared, aborted, crashes, env>>

\* One awake ensurer moves: its own part is left to show.
LEMMA EnsurerMove ==
    ASSUME TypeOK, LegInv, NEW o \in Orders, ens[o].pc \in Awake,
           NEW v, v \in EnsRecord', Moved(o, v), Kept, RowInv',
           \A p \in Orders \ {o} : Len(tries'[p]) = Len(tries[p]), EnsOk(o)'
    PROVE  TypeOK' /\ LegInv'
  <1>1. ens \in [Orders -> EnsRecord]
    BY DEF TypeOK, EnsRecord
  <1>2. Requests \subseteq Requests' /\ \A r \in Requests : At(r).fate \in Final =>
           At(r)'.fate = At(r).fate
    BY RequestsKept DEF Moved
  <1>3. ens' \in [Orders -> EnsRecord'] /\ ens'[o] = v /\ \A p \in Orders \ {o} : ens'[p] = ens[p]
    BY <1>1, <1>2 DEF Moved, EnsRecord
  <1>4. TypeOK'
    BY <1>2, <1>3 DEF TypeOK, Moved, Kept, EnsRecord
  <1>5. PhaseOk(o)'
    <2>1. /\ o \in Orders_
          /\ \/ job.pc = "hedges" /\ LegOf[o] \in Hedges
             \/ job.pc = "primaries" /\ LegOf[o] \notin Hedges
      BY AwakePhase DEF LegInv
    <2> QED
      BY <2>1 DEF PhaseOk, Moved, Orders_
  <1>6. ASSUME NEW p \in Orders \ {o} PROVE PhaseOk(p)'
    <2>1. p \notin Orders_ => tries'[p] = <<>>
      <3> SUFFICES ASSUME p \notin Orders_ PROVE tries'[p] = <<>>
        OBVIOUS
      <3>1. tries[p] = <<>> /\ tries'[p] \in Seq(Try)
        BY DEF LegInv, PhaseInv, PhaseOk, Kept
      <3>2. Len(tries'[p]) = 0
        BY <3>1, EmptySeq
      <3> QED
        BY <3>1, <3>2, EmptySeq
    <2>2. PhaseOk(p)
      BY DEF LegInv, PhaseInv
    <2> QED
      BY <1>3, <2>1, <2>2 DEF PhaseOk, Moved, Orders_
  <1>7. PhaseInv'
    BY <1>5, <1>6 DEF PhaseInv, LegInv, Moved
  <1>8. ASSUME NEW p \in Orders \ {o} PROVE EnsOk(p)'
    <2>1. EnsOk(p) /\ ens'[p] = ens[p] /\ Len(tries'[p]) = Len(tries[p])
      BY <1>3 DEF LegInv, EnsInv
    <2>2. ens[p].at \in Requests \cup {NoReq}
      BY Shapes
    <2>3. ens[p].pc = "done" => At(ens[p].at)'.fate = "COMPLETE"
      BY <1>2, <2>1, <2>2 DEF EnsOk, Final
    <2> QED
      BY <2>1, <2>3 DEF EnsOk, At
  <1> QED
    BY <1>4, <1>7, <1>8 DEF LegInv, EnsInv

\* The rows change and nothing else.
LEMMA RowMove ==
    ASSUME TypeOK, LegInv, UNCHANGED <<job, ens, squared, aborted, crashes, env>>, Kept,
           RowInv', \A p \in Orders : Len(tries'[p]) = Len(tries[p])
    PROVE  TypeOK' /\ LegInv'
  <1>1. Requests \subseteq Requests' /\ \A r \in Requests : At(r).fate \in Final =>
           At(r)'.fate = At(r).fate
    BY RequestsKept
  <1>2. TypeOK'
    BY <1>1 DEF TypeOK, Kept
  <1>3. ASSUME NEW p \in Orders PROVE PhaseOk(p)' /\ EnsOk(p)'
    <2>1. EnsOk(p) /\ PhaseOk(p) /\ Len(tries'[p]) = Len(tries[p])
          /\ ens[p].at \in Requests \cup {NoReq}
      BY Shapes DEF LegInv, EnsInv, PhaseInv
    <2>2. p \notin Orders_ => tries'[p] = <<>>
      <3>1. p \notin Orders_ => Len(tries'[p]) = 0
        BY <2>1, EmptySeq DEF PhaseOk
      <3>2. tries'[p] \in Seq(Try)
        BY DEF Kept
      <3> QED
        BY <3>1, <3>2, EmptySeq
    <2>3. ens[p].pc = "done" => At(ens[p].at)'.fate = "COMPLETE"
      BY <1>1, <2>1 DEF EnsOk, Final
    <2>4. PhaseOk(p)'
      BY <2>1, <2>2 DEF PhaseOk, Orders_
    <2> QED
      BY <2>1, <2>3, <2>4 DEF EnsOk, At
  <1> QED
    BY <1>2, <1>3 DEF LegInv, EnsInv, PhaseInv

\* The job moves: the rows stay, each ensurer stays or starts afresh.
Afresh(v) == v.pc \notin {"calling", "poll", "done"} /\ v.at = NoReq

LEMMA JobMove ==
    ASSUME TypeOK, LegInv, UNCHANGED <<tries, env>>, ens' \in [Orders -> EnsRecord],
           \A o \in Orders : ens'[o] = ens[o] \/ Afresh(ens'[o]), PhaseInv',
           job' \in [pc: JobPCs, attempt: Nat], crashes' \in Nat, aborted' \in BOOLEAN,
           squared' \subseteq Requests
    PROVE  TypeOK' /\ LegInv'
  <1>1. Requests' = Requests /\ \A r : At(r)' = At(r)
    BY DEF Requests, Orders_, At
  <1>2. TypeOK'
    BY <1>1 DEF TypeOK, EnsRecord
  <1>3. RowInv'
    BY DEF LegInv, RowInv, RowOk
  <1>4. ASSUME NEW o \in Orders PROVE EnsOk(o)'
    <2>1. EnsOk(o)
      BY DEF LegInv, EnsInv
    <2> QED
      BY <1>1, <2>1 DEF EnsOk, Afresh
  <1> QED
    BY <1>2, <1>3, <1>4 DEF LegInv, EnsInv

-----------------------------------------------------------------------------
(***************************************************************************)
(* The steps of the job                                                    *)
(***************************************************************************)
LEMMA LegsActive ==
    ASSUME TypeOK, NEW o \in Orders_
    PROVE  /\ LegOf[o] \in Legs /\ LegOf[o] \in ActiveLegs /\ o \in Slices(LegOf[o])
           /\ LegOf[o] \in HedgeLegs <=> LegOf[o] \in Hedges
           /\ LegOf[o] \in PrimaryLegs <=> LegOf[o] \notin Hedges
  <1>1. o \in Orders /\ LegOf[o] \in Legs
    BY LegAssumption, Shapes
  <1>2. o \in Slices(LegOf[o])
    BY DEF Slices
  <1> QED
    BY <1>1, <1>2 DEF ActiveLegs, HedgeLegs, PrimaryLegs

LEMMA Started ==
    ASSUME TypeOK, NEW legs, Start(legs)
    PROVE  /\ ens' \in [Orders -> EnsRecord]
           /\ \A o \in Orders :
                 IF o \in Orders_ /\ LegOf[o] \in legs
                 THEN ens'[o].pc \in {"check", "outer"} /\ Afresh(ens'[o])
                 ELSE ens'[o] = ens[o]
  <1> DEFINE v(o) == [Off EXCEPT !.pc = IF Cardinality(Slices(LegOf[o])) = 1
                                        THEN "check" ELSE "outer"]
  <1>1. \A o \in Orders : /\ v(o).pc \in {"check", "outer"} /\ v(o).at = NoReq
                          /\ v(o) \in EnsRecord
    BY DEF Off, EnsRecord, EnsPCs
  <1>2. ens \in [Orders -> EnsRecord]
    BY DEF TypeOK, EnsRecord
  <1>3. ens' = [o \in Orders |-> IF o \in Orders_ /\ LegOf[o] \in legs THEN v(o) ELSE ens[o]]
    BY DEF Start
  <1> HIDE DEF v
  <1> QED
    BY <1>1, <1>2, <1>3 DEF Afresh

LEMMA AllOff ==
    ASSUME ens' = [o \in Orders |-> Off]
    PROVE  /\ ens' \in [Orders -> EnsRecord]
           /\ \A o \in Orders : ens'[o].pc = "off" /\ Afresh(ens'[o])
  BY DEF Off, EnsRecord, EnsPCs, Afresh

LEMMA BeginKeeps == ASSUME TypeOK, LegInv, Begin, env' = env PROVE TypeOK' /\ LegInv'
  <1> DEFINE legs == IF HedgeLegs = {} THEN PrimaryLegs ELSE HedgeLegs
  <1>1. /\ job.pc = "queued" /\ Start(legs) /\ UNCHANGED <<tries, squared, aborted, crashes>>
        /\ job' = [job EXCEPT !.pc = IF HedgeLegs = {} THEN "primaries" ELSE "hedges",
                              !.attempt = job.attempt + 1]
    BY DEF Begin
  <1>2. /\ ens' \in [Orders -> EnsRecord]
        /\ \A o \in Orders :
              IF o \in Orders_ /\ LegOf[o] \in legs
              THEN ens'[o].pc \in {"check", "outer"} /\ Afresh(ens'[o])
              ELSE ens'[o] = ens[o]
    <2> HIDE DEF legs
    <2> QED
      BY <1>1, Started
  <1>3. /\ job' \in [pc: JobPCs, attempt: Nat] /\ job'.attempt > 0
        /\ job'.pc = IF HedgeLegs = {} THEN "primaries" ELSE "hedges"
    <2> DEFINE pc == IF HedgeLegs = {} THEN "primaries" ELSE "hedges"
               n == job.attempt + 1
    <2>1. pc \in JobPCs
      BY DEF JobPCs
    <2>2. job \in [pc: JobPCs, attempt: Nat] /\ n \in Nat /\ n > 0
      BY DEF TypeOK
    <2>3. job' = [job EXCEPT !.pc = pc, !.attempt = n]
      BY <1>1
    <2> HIDE DEF pc, n
    <2>4. job' \in [pc: JobPCs, attempt: Nat] /\ job'.attempt > 0 /\ job'.pc = pc
      BY <2>1, <2>2, <2>3
    <2> QED
      BY <2>4 DEF pc
  <1>4. ASSUME NEW o \in Orders PROVE PhaseOk(o)'
    <2>1. PhaseOk(o) /\ ens[o].pc = "off"
      BY <1>1 DEF LegInv, PhaseInv, PhaseOk
    <2>2. o \in Orders_ => /\ LegOf[o] \in HedgeLegs <=> LegOf[o] \in Hedges
                           /\ LegOf[o] \in PrimaryLegs <=> LegOf[o] \notin Hedges
      BY LegsActive
    <2> QED
      BY <1>1, <1>2, <1>3, <2>1, <2>2 DEF PhaseOk, Orders_
  <1>5. PhaseInv'
    BY <1>3, <1>4 DEF PhaseInv
  <1>6. \A o \in Orders : ens'[o] = ens[o] \/ Afresh(ens'[o])
    BY <1>2
  <1>7. crashes' \in Nat /\ aborted' \in BOOLEAN /\ squared' \subseteq Requests
    BY <1>1 DEF TypeOK
  <1> QED
    BY <1>1, <1>2, <1>3, <1>5, <1>6, <1>7, JobMove

LEMMA HedgesOverKeeps ==
    ASSUME TypeOK, LegInv, HedgesOver, env' = env PROVE TypeOK' /\ LegInv'
  <1>1. /\ job.pc = "hedges" /\ AllOver(HedgeLegs)
        /\ UNCHANGED <<tries, squared, aborted, crashes>>
        /\ \/ job' = [job EXCEPT !.pc = "rollback"] /\ UNCHANGED ens
           \/ job' = [job EXCEPT !.pc = "primaries"] /\ Start(PrimaryLegs)
    BY DEF HedgesOver
  <1>2. /\ ens' \in [Orders -> EnsRecord]
        /\ \A o \in Orders : ens'[o] = ens[o] \/ Afresh(ens'[o])
        /\ job'.pc = "rollback" => UNCHANGED ens
        /\ job'.pc = "primaries" => \A o \in Orders :
              IF o \in Orders_ /\ LegOf[o] \in PrimaryLegs
              THEN ens'[o].pc \in {"check", "outer"} ELSE ens'[o] = ens[o]
    <2>1. CASE job' = [job EXCEPT !.pc = "rollback"] /\ UNCHANGED ens
      BY <2>1 DEF TypeOK, EnsRecord
    <2>2. CASE job' = [job EXCEPT !.pc = "primaries"] /\ Start(PrimaryLegs)
      BY <2>2, Started DEF TypeOK
    <2> QED
      BY <1>1, <2>1, <2>2
  <1>3. /\ job' \in [pc: JobPCs, attempt: Nat] /\ job'.attempt > 0
        /\ job'.pc \in {"rollback", "primaries"}
    BY <1>1 DEF TypeOK, JobPCs, LegInv, PhaseInv
  <1>4. ASSUME NEW o \in Orders PROVE PhaseOk(o)'
    <2>1. PhaseOk(o)
      BY DEF LegInv, PhaseInv
    <2>2. o \in Orders_ => /\ LegOf[o] \in HedgeLegs <=> LegOf[o] \in Hedges
                           /\ LegOf[o] \in PrimaryLegs <=> LegOf[o] \notin Hedges
      BY LegsActive
    <2>3. o \in Orders_ /\ LegOf[o] \in Hedges => ens[o].pc \in Over
      BY <1>1, <2>2 DEF AllOver
    <2>4. o \notin Orders_ \/ LegOf[o] \notin Hedges => ens[o].pc = "off"
      BY <1>1, <2>1 DEF PhaseOk
    <2> QED
      BY <1>1, <1>2, <1>3, <2>1, <2>2, <2>3, <2>4 DEF PhaseOk, Orders_
  <1>5. PhaseInv'
    BY <1>3, <1>4 DEF PhaseInv
  <1>6. crashes' \in Nat /\ aborted' \in BOOLEAN /\ squared' \subseteq Requests
    BY <1>1 DEF TypeOK
  <1> QED
    BY <1>1, <1>2, <1>3, <1>5, <1>6, JobMove

LEMMA PrimariesOverKeeps ==
    ASSUME TypeOK, LegInv, PrimariesOver, env' = env PROVE TypeOK' /\ LegInv'
  <1>1. /\ job.pc = "primaries" /\ AllOver(PrimaryLegs)
        /\ UNCHANGED <<ens, tries, squared, aborted, crashes>>
        /\ job' = [job EXCEPT !.pc = IF ~allOk(PrimaryLegs) /\ env.rollback
                                     THEN "rollback" ELSE "completed"]
    BY DEF PrimariesOver
  <1>2. /\ ens' \in [Orders -> EnsRecord] /\ \A o \in Orders : ens'[o] = ens[o]
        /\ crashes' \in Nat /\ aborted' \in BOOLEAN /\ squared' \subseteq Requests
    BY <1>1 DEF TypeOK, EnsRecord
  <1>3. /\ job' \in [pc: JobPCs, attempt: Nat] /\ job'.attempt > 0
        /\ job'.pc \in {"rollback", "completed"}
    BY <1>1 DEF TypeOK, JobPCs, LegInv, PhaseInv
  <1>4. ASSUME NEW o \in Orders PROVE PhaseOk(o)'
    <2>1. PhaseOk(o)
      BY DEF LegInv, PhaseInv
    <2>2. o \in Orders_ => ens[o].pc \in Over
      BY <1>1, <2>1, LegsActive DEF AllOver, PhaseOk
    <2> QED
      BY <1>1, <1>2, <1>3, <2>1, <2>2 DEF PhaseOk, Orders_
  <1>5. PhaseInv'
    BY <1>3, <1>4 DEF PhaseInv
  <1> QED
    BY <1>1, <1>2, <1>3, <1>5, JobMove

\* Rollback and Crash leave no ensurer behind.
LEMMA OffMove ==
    ASSUME TypeOK, LegInv, UNCHANGED <<tries, env>>, ens' = [o \in Orders |-> Off],
           job' \in [pc: {"queued", "failed"}, attempt: Nat],
           job'.pc = "failed" => job'.attempt > 0,
           crashes' \in Nat, aborted' \in BOOLEAN, squared' \subseteq Requests
    PROVE  TypeOK' /\ LegInv'
  <1>1. /\ ens' \in [Orders -> EnsRecord]
        /\ \A o \in Orders : ens'[o].pc = "off" /\ Afresh(ens'[o])
    BY AllOff
  <1>2. ASSUME NEW o \in Orders PROVE PhaseOk(o)'
    <2>1. PhaseOk(o)
      BY DEF LegInv, PhaseInv
    <2> QED
      BY <1>1, <2>1 DEF PhaseOk, Orders_
  <1>3. PhaseInv' /\ job' \in [pc: JobPCs, attempt: Nat]
    BY <1>2 DEF PhaseInv, JobPCs
  <1> QED
    BY <1>1, <1>3, JobMove

LEMMA RollbackKeeps == ASSUME TypeOK, LegInv, Rollback, env' = env PROVE TypeOK' /\ LegInv'
  <1>1. /\ UNCHANGED <<tries, aborted, crashes>> /\ ens' = [o \in Orders |-> Off]
        /\ squared' = squared /\ job.pc = "rollback"
        /\ job' = [job EXCEPT !.pc = IF job.attempt < env.jobTries THEN "queued" ELSE "failed"]
    BY DEF Rollback, Fails, doSquareOffPositions, RollbackHasInstrument
  <1>2. crashes' \in Nat /\ aborted' \in BOOLEAN /\ squared' \subseteq Requests
    BY <1>1 DEF TypeOK
  <1>3. job' \in [pc: {"queued", "failed"}, attempt: Nat] /\ job'.attempt > 0
    BY <1>1 DEF TypeOK, LegInv, PhaseInv
  <1> QED
    BY <1>1, <1>2, <1>3, OffMove

LEMMA CrashKeeps == ASSUME TypeOK, LegInv, Crash, env' = env PROVE TypeOK' /\ LegInv'
  <1>1. /\ UNCHANGED <<tries, squared, aborted>> /\ ens' = [o \in Orders |-> Off]
        /\ crashes' = crashes + 1 /\ job.pc \in {"hedges", "primaries", "rollback"}
        /\ job' = [pc |-> "queued", attempt |-> job.attempt - 1]
    BY DEF Crash
  <1>2. crashes' \in Nat /\ aborted' \in BOOLEAN /\ squared' \subseteq Requests
    BY <1>1 DEF TypeOK
  <1>3. job' \in [pc: {"queued", "failed"}, attempt: Nat] /\ job'.pc = "queued"
    <2>1. job.attempt \in Nat /\ job.attempt > 0
      BY <1>1 DEF TypeOK, LegInv, PhaseInv
    <2> QED
      BY <1>1, <2>1
  <1> QED
    BY <1>1, <1>2, <1>3, OffMove

LEMMA AbortKeeps == ASSUME TypeOK, LegInv, Abort, env' = env PROVE TypeOK' /\ LegInv'
  <1>1. UNCHANGED <<job, ens, tries, squared, crashes>> /\ aborted' = TRUE
    BY DEF Abort
  <1>2. /\ ens' \in [Orders -> EnsRecord] /\ \A o \in Orders : ens'[o] = ens[o]
        /\ job' \in [pc: JobPCs, attempt: Nat]
        /\ crashes' \in Nat /\ aborted' \in BOOLEAN /\ squared' \subseteq Requests
    BY <1>1 DEF TypeOK, EnsRecord
  <1>3. PhaseInv'
    BY <1>1 DEF PhaseInv, PhaseOk, LegInv, Orders_
  <1> QED
    BY <1>1, <1>2, <1>3, JobMove

\* The slices of a leg pass the outer check together, or are thrown.
LEMMA SplitView ==
    ASSUME NEW l, OuterCheck(l)
    PROVE  \E v \in EnsRecord :
              /\ v.pc \in {"outerThrown", "check"} /\ v.at = NoReq
              /\ ens' = [o \in Orders |-> IF o \in Slices(l) THEN v ELSE ens[o]]
  <1>1. PICK pc \in {"outerThrown", "check"} : Split(l, pc)
    BY DEF OuterCheck
  <1> DEFINE v == [Off EXCEPT !.pc = pc]
  <1>2. v \in EnsRecord /\ v.pc \in {"outerThrown", "check"} /\ v.at = NoReq
    BY DEF Off, EnsRecord, EnsPCs
  <1>3. ens' = [o \in Orders |-> IF o \in Slices(l) THEN v ELSE ens[o]]
    BY <1>1 DEF Split
  <1> HIDE DEF v
  <1> QED
    BY <1>2, <1>3

LEMMA OuterCheckKeeps ==
    ASSUME TypeOK, LegInv, NEW l \in Legs, OuterCheck(l), env' = env PROVE TypeOK' /\ LegInv'
  <1>0. PICK v \in EnsRecord :
           /\ v.pc \in {"outerThrown", "check"} /\ v.at = NoReq
           /\ ens' = [o \in Orders |-> IF o \in Slices(l) THEN v ELSE ens[o]]
    BY SplitView
  <1>1. /\ \A o \in Slices(l) : ens[o].pc = "outer"
        /\ ens' = [o \in Orders |-> IF o \in Slices(l) THEN v ELSE ens[o]]
        /\ UNCHANGED <<job, tries, squared, aborted, crashes>>
    BY <1>0 DEF OuterCheck
  <1>2. v \in EnsRecord /\ v.pc \in {"outerThrown", "check"} /\ Afresh(v)
    BY <1>0 DEF Afresh
  <1>3. ens \in [Orders -> EnsRecord]
    BY DEF TypeOK, EnsRecord
  <1>4. /\ ens' \in [Orders -> EnsRecord] /\ \A o \in Orders : ens'[o] = ens[o] \/ Afresh(ens'[o])
    BY <1>1, <1>2, <1>3
  <1>5. ASSUME NEW o \in Orders PROVE PhaseOk(o)'
    <2>1. PhaseOk(o)
      BY DEF LegInv, PhaseInv
    <2>2. CASE o \in Slices(l)
      <3>1. ens[o].pc \in Awake /\ ens'[o] = v
        BY <1>1, <2>2 DEF Awake, EnsPCs, Over
      <3>2. /\ o \in Orders_
            /\ \/ job.pc = "hedges" /\ LegOf[o] \in Hedges
               \/ job.pc = "primaries" /\ LegOf[o] \notin Hedges
        BY <3>1, AwakePhase DEF LegInv
      <3> QED
        BY <1>1, <3>2 DEF PhaseOk, Orders_
    <2>3. CASE o \notin Slices(l)
      BY <1>1, <2>1, <2>3 DEF PhaseOk, Orders_
    <2> QED
      BY <2>2, <2>3
  <1>6. PhaseInv'
    BY <1>1, <1>5 DEF PhaseInv, LegInv
  <1>7. /\ job' \in [pc: JobPCs, attempt: Nat]
        /\ crashes' \in Nat /\ aborted' \in BOOLEAN /\ squared' \subseteq Requests
    BY <1>1 DEF TypeOK
  <1> QED
    BY <1>1, <1>4, <1>6, <1>7, JobMove

-----------------------------------------------------------------------------
(***************************************************************************)
(* The steps of an ensurer: the ensurer of o becomes v                     *)
(***************************************************************************)

\* The rows of another order keep their number, and none turns into a duplicate.
Apart(p) ==
    /\ Len(tries'[p]) = Len(tries[p])
    /\ \A n \in DOMAIN tries[p] :
          tries'[p][n].row \in DUPLICATE_STATUSES => tries[p][n].row \in DUPLICATE_STATUSES

Common(o, v) ==
    /\ v \in EnsRecord' /\ Moved(o, v) /\ Kept /\ RowInv'
    /\ \A p \in Orders \ {o} : Apart(p)

Checked(o, v) ==
    /\ ens[o].pc = "check" /\ UNCHANGED tries
    /\ \/ v.pc = "thrown" /\ v.at = NoReq
       \/ v.pc = "place" /\ v.at = ens[o].at /\ ~pendingDuplicate(o)

Opened(o, v) ==
    /\ tries' = [tries EXCEPT ![o] = Append(tries[o], NewTry)]
    /\ tries[o] = <<>> \/ tries[o][1].row \in RETRY_TERMINAL
    /\ v.pc = "calling" /\ v.at = <<o, Len(tries[o]) + 1>>

Placed(o, v) ==
    /\ ens[o].pc = "place"
    /\ \/ UNCHANGED tries /\ (aborted \/ GateRefuses(o)) /\ v.pc = "unsure" /\ v.at = NoReq
       \/ UNCHANGED tries /\ tries[o] # <<>> /\ v.pc = "poll" /\ v.at = <<o, 1>>
       \/ ~aborted /\ Opened(o, v)

Called(o, v) ==
    /\ ens[o].pc = "calling" /\ ens[o].at \in Requests /\ ens[o].at = <<o, Len(tries[o])>>
    /\ \E e \in Try : e.fate = At(ens[o].at).fate /\ Wrote(ens[o].at, e)
    /\ v.at = ens[o].at \/ (v.at = NoReq /\ v.pc # "poll")
    /\ \/ v.pc = "poll"
       \/ v.pc \in {"match", "thrown"} /\ (env.lost \/ At(ens[o].at).fate = "refused")
       \/ v.pc = "unsure" /\ (env.lost \/ (env.others /\ At(ens[o].at).fate = "refused"))

Matched(o, v) ==
    /\ ens[o].pc = "match" /\ UNCHANGED tries
    /\ \/ v.pc = "poll" /\ v.at \in BookMatches(o)
       \/ v.pc = "check" /\ v.at = NoReq
       \/ env.lost /\ v.pc = "unsure" /\ v.at = NoReq

Polled(o, v) ==
    /\ ens[o].pc = "poll" /\ ens[o].at \in Requests
    /\ \/ /\ At(ens[o].at).fate = "COMPLETE" /\ v.pc = "done" /\ v.at = ens[o].at
          /\ UNCHANGED tries \/ \E e \in Try : /\ e.fate = At(ens[o].at).fate
                                               /\ Wrote(ens[o].at, e)
       \/ /\ UNCHANGED tries /\ v.pc = "check" /\ v.at = NoReq
          /\ env.lost \/ At(ens[o].at).fate \in Dead
       \/ UNCHANGED tries /\ env.lost /\ v.pc = "unsure" /\ v.at = NoReq

\* What Becomes, Ends and Again make of an ensurer.
LEMMA Turns ==
    ASSUME TypeOK, NEW o \in Orders
    PROVE  /\ \A pc \in EnsPCs : LET v == [ens[o] EXCEPT !.pc = pc] IN
                 v \in EnsRecord /\ v.pc = pc /\ v.at = ens[o].at
           /\ \A pc \in EnsPCs : LET v == [ens[o] EXCEPT !.pc = pc, !.at = NoReq] IN
                 v \in EnsRecord /\ v.pc = pc /\ v.at = NoReq
           /\ LET v == [pc |-> "check", attempt |-> ens[o].attempt + 1, at |-> NoReq] IN
                 v \in EnsRecord /\ v.pc = "check" /\ v.at = NoReq
  <1>1. ens[o] \in EnsRecord /\ ens[o].attempt \in Nat
    BY DEF TypeOK, EnsRecord
  <1>2. ens[o].attempt + 1 \in Nat
    BY <1>1
  <1> QED
    BY <1>1, <1>2 DEF EnsRecord, EnsPCs

LEMMA BecomesTurn ==
    ASSUME TypeOK, NEW o \in Orders, NEW pc \in EnsPCs, Becomes(o, pc)
    PROVE  \E v \in EnsRecord : ens' = [ens EXCEPT ![o] = v] /\ v.pc = pc /\ v.at = ens[o].at
  <1> DEFINE v == [ens[o] EXCEPT !.pc = pc]
  <1>1. v \in EnsRecord /\ v.pc = pc /\ v.at = ens[o].at
    BY Turns
  <1>2. ens' = [ens EXCEPT ![o] = v]
    BY DEF Becomes
  <1> HIDE DEF v
  <1> QED
    BY <1>1, <1>2

LEMMA EndsTurn ==
    ASSUME TypeOK, NEW o \in Orders, NEW pc \in EnsPCs, Ends(o, pc)
    PROVE  \E v \in EnsRecord : ens' = [ens EXCEPT ![o] = v] /\ v.pc = pc /\ v.at = NoReq
  <1> DEFINE v == [ens[o] EXCEPT !.pc = pc, !.at = NoReq]
  <1>1. v \in EnsRecord /\ v.pc = pc /\ v.at = NoReq
    BY Turns
  <1>2. ens' = [ens EXCEPT ![o] = v]
    BY DEF Ends
  <1> HIDE DEF v
  <1> QED
    BY <1>1, <1>2

\* An ensurer that leaves the rows alone.
LEMMA PlainStep ==
    ASSUME TypeOK, LegInv, NEW o \in Orders, UNCHANGED <<job, tries, squared, aborted, crashes, env>>,
           NEW v \in EnsRecord, ens' = [ens EXCEPT ![o] = v]
    PROVE  Common(o, v)
  <1>1. Kept /\ Requests' = Requests
    BY SameKept DEF Requests, Orders_
  <1>2. v \in EnsRecord' /\ Moved(o, v)
    BY <1>1 DEF EnsRecord, Moved
  <1>3. RowInv'
    BY DEF LegInv, RowInv, RowOk
  <1> QED
    BY <1>1, <1>2, <1>3 DEF Common, Apart

LEMMA CheckView ==
    ASSUME TypeOK, LegInv, NEW o \in Orders, Check(o), env' = env
    PROVE  \E v : Common(o, v) /\ Checked(o, v)
  <1>1. /\ ens[o].pc = "check" /\ UNCHANGED <<job, tries, squared, aborted, crashes, env>>
        /\ Ends(o, "thrown") \/ (~pendingDuplicate(o) /\ Becomes(o, "place"))
    BY DEF Check, GateAgrees
  <1>2. CASE Ends(o, "thrown")
    <2> DEFINE v == [ens[o] EXCEPT !.pc = "thrown", !.at = NoReq]
    <2>1. v \in EnsRecord /\ v.pc = "thrown" /\ v.at = NoReq
      BY Turns DEF EnsPCs
    <2>2. ens' = [ens EXCEPT ![o] = v]
      BY <1>2 DEF Ends
    <2> HIDE DEF v
    <2>3. Common(o, v)
      BY <1>1, <2>1, <2>2, PlainStep
    <2> QED
      BY <1>1, <2>1, <2>3 DEF Checked
  <1>3. CASE ~pendingDuplicate(o) /\ Becomes(o, "place")
    <2> DEFINE v == [ens[o] EXCEPT !.pc = "place"]
    <2>1. v \in EnsRecord /\ v.pc = "place" /\ v.at = ens[o].at
      BY Turns DEF EnsPCs
    <2>2. ens' = [ens EXCEPT ![o] = v]
      BY <1>3 DEF Becomes
    <2> HIDE DEF v
    <2>3. Common(o, v)
      BY <1>1, <2>1, <2>2, PlainStep
    <2> QED
      BY <1>1, <1>3, <2>1, <2>3 DEF Checked
  <1> QED
    BY <1>1, <1>2, <1>3

LEMMA PlaceView ==
    ASSUME TypeOK, LegInv, NEW o \in Orders_, Place(o), env' = env
    PROVE  \E v : Common(o, v) /\ Placed(o, v)
  <1>0. o \in Orders
    BY Shapes
  <1>1. ens[o].pc = "place" /\ UNCHANGED <<job, squared, aborted, crashes, env>>
    BY DEF Place
  <1>2. CASE (aborted \/ GateRefuses(o)) /\ Ends(o, "unsure") /\ UNCHANGED tries
    <2> DEFINE v == [ens[o] EXCEPT !.pc = "unsure", !.at = NoReq]
    <2>1. v \in EnsRecord /\ v.pc = "unsure" /\ v.at = NoReq
      BY <1>0, Turns DEF EnsPCs
    <2>2. ens' = [ens EXCEPT ![o] = v] /\ UNCHANGED tries
      BY <1>2 DEF Ends
    <2> HIDE DEF v
    <2>3. Common(o, v)
      BY <1>0, <1>1, <2>1, <2>2, PlainStep
    <2> QED
      BY <1>1, <1>2, <2>1, <2>2, <2>3 DEF Placed
  <1>3. CASE /\ Reuses(o) /\ UNCHANGED tries
             /\ ens' = [ens EXCEPT ![o] = [ens[o] EXCEPT !.pc = "poll", !.at = <<o, 1>>]]
    <2> DEFINE v == [ens[o] EXCEPT !.pc = "poll", !.at = <<o, 1>>]
    <2>1. 1 \in DOMAIN tries[o]
      <3>1. Len(tries[o]) \in Nat /\ DOMAIN tries[o] = 1..Len(tries[o]) /\ tries[o] \in Seq(Try)
        BY <1>0, Shapes DEF TypeOK
      <3>2. Len(tries[o]) # 0
        BY <1>3, <3>1, EmptySeq DEF Reuses
      <3> QED
        BY <3>1, <3>2
    <2>2. <<o, 1>> \in Requests
      BY <2>1, RequestShape
    <2>3. v \in EnsRecord /\ v.pc = "poll" /\ v.at = <<o, 1>>
      BY <1>0, <2>2 DEF TypeOK, EnsRecord, EnsPCs
    <2>4. ens' = [ens EXCEPT ![o] = v] /\ UNCHANGED tries
      BY <1>3
    <2> HIDE DEF v
    <2>5. Common(o, v)
      BY <1>0, <1>1, <2>3, <2>4, PlainStep
    <2> QED
      BY <1>1, <1>3, <2>3, <2>4, <2>5 DEF Placed, Reuses
  <1>4. CASE ~aborted /\ ~Reuses(o) /\ SendNew(o)
    <2> DEFINE k == Len(tries[o]) + 1
               v == [ens[o] EXCEPT !.pc = "calling", !.at = <<o, k>>]
    <2>1. /\ ens' = [ens EXCEPT ![o] = v]
          /\ tries' = [tries EXCEPT ![o] = Append(tries[o], NewTry)]
      BY <1>4 DEF SendNew
    <2>2. Kept /\ RowInv' /\ <<o, k>> \in Requests' /\ \A p \in Orders \ {o} : tries'[p] = tries[p]
      BY <2>1, AppendKeeps DEF LegInv
    <2>3. v \in EnsRecord' /\ v.pc = "calling" /\ v.at = <<o, k>>
      <3>1. ens[o] \in EnsRecord
        BY <1>0 DEF TypeOK, EnsRecord
      <3> HIDE DEF k
      <3> QED
        BY <2>2, <3>1 DEF EnsRecord, EnsPCs
    <2> HIDE DEF v
    <2>4. Common(o, v)
      BY <1>1, <2>1, <2>2, <2>3 DEF Common, Moved, Apart
    <2>5. Placed(o, v)
      BY <1>1, <1>4, <2>1, <2>3 DEF Placed, Opened, Reuses
    <2> QED
      BY <2>4, <2>5
  <1> QED
    BY <1>2, <1>3, <1>4 DEF Place

\* An ensurer that marks a row, its own or one of another order.
LEMMA WriteStep ==
    ASSUME TypeOK, LegInv, NEW o \in Orders, UNCHANGED <<job, squared, aborted, crashes, env>>,
           NEW v \in EnsRecord, ens' = [ens EXCEPT ![o] = v],
           NEW r \in Requests, NEW e \in Try, SetTry(r, e), RowOk(e), e.fate = At(r).fate,
           r[1] = o \/ (e.row \in DUPLICATE_STATUSES => At(r).row \in DUPLICATE_STATUSES)
    PROVE  Common(o, v) /\ Wrote(r, e)
  <1>1. Wrote(r, e)
    BY SetTryWrites
  <1>2. Kept /\ RowInv' /\ Requests' = Requests
    BY <1>1, WroteKeeps DEF LegInv
  <1>3. v \in EnsRecord' /\ Moved(o, v)
    BY <1>2 DEF EnsRecord, Moved
  <1>4. ASSUME NEW p \in Orders \ {o} PROVE Apart(p)
    <2>1. \A n \in DOMAIN tries[p] : <<p, n>> = r => tries[p][n] = At(r) /\ r[1] # o
      BY DEF At
    <2> QED
      BY <1>1, <2>1 DEF Wrote, Apart
  <1> QED
    BY <1>1, <1>2, <1>3, <1>4 DEF Common

\* A call waits for the last request of its own order.
LEMMA CallHolds ==
    ASSUME TypeOK, LegInv, NEW o \in Orders, ens[o].pc = "calling"
    PROVE  /\ ens[o].at \in Requests /\ ens[o].at = <<o, Len(tries[o])>> /\ ens[o].at[1] = o
           /\ At(ens[o].at) \in Try /\ RowOk(At(ens[o].at))
  <1>1. ens[o].at = <<o, Len(tries[o])>> /\ ens[o].at \in Requests \cup {NoReq}
    BY Shapes DEF LegInv, EnsInv, EnsOk
  <1>2. ens[o].at \in Requests /\ ens[o].at[1] = o
    BY <1>1 DEF NoReq
  <1>3. At(ens[o].at) \in Try /\ RowOk(At(ens[o].at))
    BY <1>2, RequestParts DEF LegInv, RowInv, At
  <1> QED
    BY <1>1, <1>2, <1>3

LEMMA MarkStep ==
    ASSUME TypeOK, LegInv, NEW o \in Orders, ens[o].pc = "calling",
           UNCHANGED <<job, squared, aborted, crashes, env>>,
           NEW v \in EnsRecord, ens' = [ens EXCEPT ![o] = v],
           NEW e \in Try, SetTry(ens[o].at, e), RowOk(e), e.fate = At(ens[o].at).fate,
           v.at = ens[o].at \/ (v.at = NoReq /\ v.pc # "poll"),
           \/ v.pc = "poll"
           \/ v.pc \in {"match", "thrown"} /\ (env.lost \/ At(ens[o].at).fate = "refused")
           \/ v.pc = "unsure" /\ (env.lost \/ (env.others /\ At(ens[o].at).fate = "refused"))
    PROVE  Common(o, v) /\ Called(o, v)
  <1>1. ens[o].at \in Requests /\ ens[o].at = <<o, Len(tries[o])>> /\ ens[o].at[1] = o
    BY CallHolds
  <1>2. Common(o, v) /\ Wrote(ens[o].at, e)
    BY <1>1, WriteStep
  <1> QED
    BY <1>1, <1>2 DEF Called

LEMMA CallView ==
    ASSUME TypeOK, LegInv, NEW o \in Orders, AckArrives(o) \/ RefusalArrives(o) \/ AckLost(o),
           env' = env
    PROVE  \E v : Common(o, v) /\ Called(o, v)
  <1> DEFINE r == ens[o].at
  <1>0. ens[o].pc = "calling" /\ UNCHANGED <<job, squared, aborted, crashes, env>>
    BY DEF AckArrives, RefusalArrives, AckLost
  <1>1. At(r) \in Try /\ RowOk(At(r))
    BY <1>0, CallHolds
  <1>2. ASSUME NEW pc \in EnsPCs, Becomes(o, pc)
        PROVE  \E v \in EnsRecord : ens' = [ens EXCEPT ![o] = v] /\ v.pc = pc /\ v.at = r
    BY <1>2, BecomesTurn
  <1>3. ASSUME NEW pc \in EnsPCs, Ends(o, pc)
        PROVE  \E v \in EnsRecord : ens' = [ens EXCEPT ![o] = v] /\ v.pc = pc /\ v.at = NoReq
    BY <1>3, EndsTurn
  <1>4. CASE AckArrives(o)
    <2> DEFINE e == [At(r) EXCEPT !.row = "SUBMITTED", !.id = TRUE]
    <2>1. SetTry(r, e) /\ Becomes(o, "poll") /\ At(r).fate \in BookStatus
      BY <1>4 DEF AckArrives, InBook
    <2>2. e \in Try /\ e.fate = At(r).fate /\ e.row = "SUBMITTED"
      BY <1>1 DEF Try, OrderStatus
    <2> HIDE DEF e
    <2>3. RowOk(e)
      BY <1>1, <2>2 DEF RowOk, DUPLICATE_STATUSES, RETRY_TERMINAL
    <2>4. PICK v \in EnsRecord : ens' = [ens EXCEPT ![o] = v] /\ v.pc = "poll" /\ v.at = r
      BY <1>2, <2>1 DEF EnsPCs
    <2>5. Common(o, v) /\ Called(o, v)
      BY <1>0, <2>1, <2>2, <2>3, <2>4, MarkStep
    <2> QED
      BY <2>5
  <1>5. CASE RefusalArrives(o)
    <2> DEFINE e == [At(r) EXCEPT !.row = "FAILED"]
    <2>1. /\ SetTry(r, e) /\ At(r).fate = "refused"
          /\ Becomes(o, "match") \/ Ends(o, "thrown") \/ (env.others /\ Ends(o, "unsure"))
      BY <1>5 DEF RefusalArrives
    <2>2. e \in Try /\ e.fate = At(r).fate /\ e.row = "FAILED"
      BY <1>1 DEF Try, OrderStatus
    <2> HIDE DEF e
    <2>3. RowOk(e)
      BY <1>1, <2>1, <2>2 DEF RowOk, DUPLICATE_STATUSES, RETRY_TERMINAL, Dead
    <2>4. PICK v \in EnsRecord :
              /\ ens' = [ens EXCEPT ![o] = v]
              /\ \/ v.pc = "match" /\ v.at = r
                 \/ v.pc = "thrown" /\ v.at = NoReq
                 \/ env.others /\ v.pc = "unsure" /\ v.at = NoReq
      <3>1. CASE Becomes(o, "match")
        BY <1>2, <3>1 DEF EnsPCs
      <3>2. CASE Ends(o, "thrown")
        BY <1>3, <3>2 DEF EnsPCs
      <3>3. CASE env.others /\ Ends(o, "unsure")
        BY <1>3, <3>3 DEF EnsPCs
      <3> QED
        BY <2>1, <3>1, <3>2, <3>3
    <2>5. Common(o, v) /\ Called(o, v)
      BY <1>0, <2>1, <2>2, <2>3, <2>4, MarkStep
    <2> QED
      BY <2>5
  <1>6. CASE AckLost(o)
    <2> DEFINE e == [At(r) EXCEPT !.row = "UNKNOWN"]
    <2>1. SetTry(r, e) /\ env.lost /\ (Becomes(o, "match") \/ Ends(o, "unsure"))
      BY <1>6 DEF AckLost
    <2>2. e \in Try /\ e.fate = At(r).fate /\ e.row = "UNKNOWN"
      BY <1>1 DEF Try, OrderStatus
    <2> HIDE DEF e
    <2>3. RowOk(e)
      BY <1>1, <2>2 DEF RowOk, DUPLICATE_STATUSES, RETRY_TERMINAL
    <2>4. PICK v \in EnsRecord :
              /\ ens' = [ens EXCEPT ![o] = v]
              /\ (v.pc = "match" /\ v.at = r) \/ (v.pc = "unsure" /\ v.at = NoReq)
      <3>1. CASE Becomes(o, "match")
        BY <1>2, <3>1 DEF EnsPCs
      <3>2. CASE Ends(o, "unsure")
        BY <1>3, <3>2 DEF EnsPCs
      <3> QED
        BY <2>1, <3>1, <3>2
    <2>5. Common(o, v) /\ Called(o, v)
      BY <1>0, <2>1, <2>2, <2>3, <2>4, MarkStep
    <2> QED
      BY <2>5
  <1> QED
    BY <1>4, <1>5, <1>6

LEMMA MatchView ==
    ASSUME TypeOK, LegInv, NEW o \in Orders, Match(o), env' = env
    PROVE  \E v : Common(o, v) /\ Matched(o, v)
  <1>1. /\ ens[o].pc = "match" /\ UNCHANGED <<job, tries, squared, aborted, crashes, env>>
        /\ \/ \E r \in BookMatches(o) :
                 ens' = [ens EXCEPT ![o] = [ens[o] EXCEPT !.pc = "poll", !.at = r]]
           \/ Again(o)
           \/ env.lost /\ Ends(o, "unsure")
    BY DEF Match
  <1>2. \E v \in EnsRecord :
           /\ ens' = [ens EXCEPT ![o] = v]
           /\ \/ v.pc = "poll" /\ v.at \in BookMatches(o)
              \/ v.pc = "check" /\ v.at = NoReq
              \/ env.lost /\ v.pc = "unsure" /\ v.at = NoReq
    <2>1. ASSUME NEW r \in BookMatches(o),
                 ens' = [ens EXCEPT ![o] = [ens[o] EXCEPT !.pc = "poll", !.at = r]]
          PROVE  \E v \in EnsRecord : /\ ens' = [ens EXCEPT ![o] = v]
                                      /\ v.pc = "poll" /\ v.at \in BookMatches(o)
      <3> DEFINE v == [ens[o] EXCEPT !.pc = "poll", !.at = r]
      <3>1. ens[o] \in EnsRecord /\ r \in Requests
        BY DEF TypeOK, EnsRecord, BookMatches
      <3>2. v \in EnsRecord /\ v.pc = "poll" /\ v.at = r
        BY <3>1 DEF EnsRecord, EnsPCs
      <3>3. ens' = [ens EXCEPT ![o] = v]
        BY <2>1
      <3> HIDE DEF v
      <3> QED
        BY <3>2, <3>3
    <2>2. CASE Again(o)
      BY <2>2, Turns DEF Again
    <2>3. CASE env.lost /\ Ends(o, "unsure")
      BY <2>3, EndsTurn DEF EnsPCs
    <2> QED
      BY <1>1, <2>1, <2>2, <2>3
  <1>3. PICK v \in EnsRecord :
           /\ ens' = [ens EXCEPT ![o] = v]
           /\ \/ v.pc = "poll" /\ v.at \in BookMatches(o)
              \/ v.pc = "check" /\ v.at = NoReq
              \/ env.lost /\ v.pc = "unsure" /\ v.at = NoReq
    BY <1>2
  <1>4. Common(o, v)
    BY <1>1, <1>3, PlainStep
  <1> QED
    BY <1>1, <1>3, <1>4 DEF Matched

LEMMA PollView ==
    ASSUME TypeOK, LegInv, NEW o \in Orders, Poll(o) \/ PollTimeout(o), env' = env
    PROVE  \E v : Common(o, v) /\ Polled(o, v)
  <1> DEFINE r == ens[o].at
  <1>1. ens[o].pc = "poll" /\ UNCHANGED <<job, squared, aborted, crashes, env>>
    BY DEF Poll, PollTimeout
  <1>2. r \in Requests
    BY <1>1, Shapes DEF LegInv, EnsInv, EnsOk
  <1>3. CASE At(r).fate = "COMPLETE" /\ Snapshot(r) /\ Becomes(o, "done")
    <2>1. PICK v \in EnsRecord : ens' = [ens EXCEPT ![o] = v] /\ v.pc = "done" /\ v.at = r
      BY <1>3, BecomesTurn DEF EnsPCs
    <2>2. InBook(r)
      BY <1>3 DEF InBook, BookStatus
    <2>3. \/ UNCHANGED tries
          \/ \E e \in Try : /\ SetTry(r, e) /\ RowOk(e)
                            /\ e.fate = At(r).fate
                            /\ e.row \in DUPLICATE_STATUSES => At(r).row \in DUPLICATE_STATUSES
      BY <1>2, <1>3, <2>2, SnapshotWrites DEF LegInv
    <2>4. CASE UNCHANGED tries
      <3>1. Common(o, v)
        BY <1>1, <2>1, <2>4, PlainStep
      <3> QED
        BY <1>1, <1>2, <1>3, <2>1, <2>4, <3>1 DEF Polled
    <2>5. ASSUME NEW e \in Try, SetTry(r, e), RowOk(e), e.fate = At(r).fate,
                 e.row \in DUPLICATE_STATUSES => At(r).row \in DUPLICATE_STATUSES
          PROVE  \E w : Common(o, w) /\ Polled(o, w)
      <3>1. Common(o, v) /\ Wrote(r, e)
        BY <1>1, <1>2, <2>1, <2>5, WriteStep
      <3>2. Polled(o, v)
        BY <1>1, <1>2, <1>3, <2>1, <2>5, <3>1 DEF Polled
      <3> QED
        BY <3>1, <3>2
    <2> QED
      BY <2>3, <2>4, <2>5
  <1>4. CASE UNCHANGED tries /\ (env.lost \/ At(r).fate \in Dead) /\ Again(o)
    <2>1. PICK v \in EnsRecord : ens' = [ens EXCEPT ![o] = v] /\ v.pc = "check" /\ v.at = NoReq
      BY <1>4, Turns DEF Again
    <2>2. Common(o, v)
      BY <1>1, <1>4, <2>1, PlainStep
    <2> QED
      BY <1>1, <1>2, <1>4, <2>1, <2>2 DEF Polled
  <1>5. CASE UNCHANGED tries /\ env.lost /\ Ends(o, "unsure")
    <2>1. PICK v \in EnsRecord : ens' = [ens EXCEPT ![o] = v] /\ v.pc = "unsure" /\ v.at = NoReq
      BY <1>5, EndsTurn DEF EnsPCs
    <2>2. Common(o, v)
      BY <1>1, <1>5, <2>1, PlainStep
    <2> QED
      BY <1>1, <1>2, <1>5, <2>1, <2>2 DEF Polled
  <1> QED
    BY <1>3, <1>4, <1>5 DEF Poll, PollTimeout, Dead

EnsurerStepped(o, v) ==
    /\ Common(o, v)
    /\ Checked(o, v) \/ Placed(o, v) \/ Called(o, v) \/ Matched(o, v) \/ Polled(o, v)

LEMMA EnsurerView ==
    ASSUME TypeOK, LegInv, NEW o \in Orders_, EnsurerStep(o), env' = env
    PROVE  \E v : EnsurerStepped(o, v)
  <1>0. o \in Orders
    BY Shapes
  <1>1. CASE Check(o)
    BY <1>0, <1>1, CheckView DEF EnsurerStepped
  <1>2. CASE Place(o)
    BY <1>2, PlaceView DEF EnsurerStepped
  <1>3. CASE AckArrives(o) \/ RefusalArrives(o) \/ AckLost(o)
    BY <1>0, <1>3, CallView DEF EnsurerStepped
  <1>4. CASE Match(o)
    BY <1>0, <1>4, MatchView DEF EnsurerStepped
  <1>5. CASE Poll(o) \/ PollTimeout(o)
    BY <1>0, <1>5, PollView DEF EnsurerStepped
  <1> QED
    BY <1>1, <1>2, <1>3, <1>4, <1>5 DEF EnsurerStep

\* What a step of one ensurer leaves of the others.
LEMMA Others ==
    ASSUME TypeOK, NEW o \in Orders, NEW v, Common(o, v)
    PROVE  ens'[o] = v /\ \A p \in Orders \ {o} : ens'[p] = ens[p] /\ Apart(p)
  BY DEF TypeOK, Common, Moved

LEMMA EnsurerKeeps ==
    ASSUME TypeOK, LegInv, NEW o \in Orders_, NEW v, EnsurerStepped(o, v)
    PROVE  ens[o].pc \in Awake /\ TypeOK' /\ LegInv'
  <1>0. o \in Orders /\ Common(o, v) /\ Moved(o, v) /\ ens'[o] = v
    BY Shapes, Others DEF EnsurerStepped, Common
  <1>1. ens[o].pc \in Awake
    BY DEF EnsurerStepped, Checked, Placed, Called, Matched, Polled, Awake, EnsPCs, Over
  <1>2. \A r \in Requests : At(r).fate \in Final => At(r)'.fate = At(r).fate
    BY <1>0, RequestsKept DEF Common, Moved
  <1>3. ASSUME Checked(o, v) PROVE EnsOk(o)'
    BY <1>0, <1>3 DEF Checked, EnsOk
  <1>4. ASSUME Placed(o, v) PROVE EnsOk(o)'
    <2>1. CASE Opened(o, v)
      <3>1. Len(tries'[o]) = Len(tries[o]) + 1
        BY <1>0, <2>1, AppendKeeps DEF Opened, LegInv, Moved
      <3> QED
        BY <1>0, <2>1, <3>1 DEF Opened, EnsOk
    <2>2. CASE v.pc = "unsure" \/ (v.pc = "poll" /\ v.at = <<o, 1>>)
      BY <1>0, <2>2 DEF EnsOk, NoReq
    <2> QED
      BY <1>4, <2>1, <2>2 DEF Placed
  <1>5. ASSUME Called(o, v) PROVE EnsOk(o)'
    <2>1. ens[o].at # NoReq
      BY <1>5 DEF Called, NoReq
    <2> QED
      BY <1>0, <1>5, <2>1 DEF Called, EnsOk
  <1>6. ASSUME Matched(o, v) PROVE EnsOk(o)'
    <2>1. v.pc = "poll" => v.at # NoReq
      BY <1>6, RequestParts DEF Matched, BookMatches
    <2> QED
      BY <1>0, <1>6, <2>1 DEF Matched, EnsOk
  <1>7. ASSUME Polled(o, v) PROVE EnsOk(o)'
    <2>1. ens[o].at # NoReq
      BY <1>7, RequestParts DEF Polled
    <2>2. v.pc = "done" => v.at = ens[o].at /\ At(v.at)'.fate = "COMPLETE"
      BY <1>2, <1>7 DEF Polled, Final
    <2> QED
      BY <1>0, <1>7, <2>1, <2>2 DEF Polled, EnsOk, At
  <1>8. EnsOk(o)'
    BY <1>3, <1>4, <1>5, <1>6, <1>7 DEF EnsurerStepped
  <1> QED
    BY <1>0, <1>1, <1>8, EnsurerMove DEF Common, Apart

-----------------------------------------------------------------------------
(***************************************************************************)
(* The steps of the broker and of the ledger sync                          *)
(***************************************************************************)

\* The request of a row moves on, or the row does; a final fate stays.
RowStepped ==
    /\ UNCHANGED <<job, ens, squared, aborted, crashes, env>>
    /\ Kept /\ RowInv'
    /\ \A p \in Orders : Apart(p)

LEMMA RowView ==
    ASSUME TypeOK, LegInv, NEW r \in Requests, BrokerStep(r) \/ Sync(r), env' = env
    PROVE  RowStepped
  <1>1. At(r) \in Try /\ RowOk(At(r))
    BY RequestParts DEF LegInv, RowInv, At
  <1>2. UNCHANGED tries \/ \E e \in Try :
           /\ SetTry(r, e) /\ RowOk(e) /\ (At(r).fate \in Final => e.fate = At(r).fate)
           /\ e.row \in DUPLICATE_STATUSES => At(r).row \in DUPLICATE_STATUSES
    <2>1. ASSUME NEW fate \in Fates, SetFate(r, fate), At(r).fate \in {"wire", "OPEN"},
                 fate \in Dead => env.refusals
          PROVE  \E e \in Try :
                    /\ SetTry(r, e) /\ RowOk(e) /\ (At(r).fate \in Final => e.fate = At(r).fate)
                    /\ e.row \in DUPLICATE_STATUSES => At(r).row \in DUPLICATE_STATUSES
      <3> DEFINE e == [At(r) EXCEPT !.fate = fate]
      <3>1. SetTry(r, e)
        BY <2>1 DEF SetFate
      <3>2. e \in Try /\ e.fate = fate /\ e.row = At(r).row
        BY <1>1 DEF Try
      <3> HIDE DEF e
      <3>3. RowOk(e)
        BY <1>1, <2>1, <3>2 DEF RowOk, Dead
      <3> QED
        BY <2>1, <3>1, <3>2, <3>3 DEF Final, Dead
    <2>2. CASE BrokerStep(r)
      <3>1. CASE BrokerLands(r)
        BY <2>1, <3>1 DEF BrokerLands, Fates, BookStatus, Dead
      <3>2. CASE BrokerRefuses(r)
        BY <2>1, <3>2 DEF BrokerRefuses, Fates
      <3>3. CASE BrokerLoses(r)
        BY <2>1, <3>3 DEF BrokerLoses, Fates, Dead
      <3>4. CASE BrokerFills(r)
        BY <2>1, <3>4 DEF BrokerFills, Fates, BookStatus, Dead
      <3>5. CASE BrokerRejects(r)
        BY <2>1, <3>5 DEF BrokerRejects, Fates, BookStatus
      <3> QED
        BY <2>2, <3>1, <3>2, <3>3, <3>4, <3>5 DEF BrokerStep
    <2>3. CASE Sync(r)
      BY <2>3, SnapshotWrites DEF Sync, LegInv
    <2> QED
      BY <2>2, <2>3
  <1>3. UNCHANGED <<job, ens, squared, aborted, crashes, env>>
    BY DEF BrokerStep, BrokerLands, BrokerRefuses, BrokerLoses, BrokerFills, BrokerRejects,
           SetFate, Sync
  <1>4. CASE UNCHANGED tries
    BY <1>3, <1>4, SameKept DEF RowStepped, LegInv, RowInv, RowOk, Apart
  <1>5. ASSUME NEW e \in Try, SetTry(r, e), RowOk(e), At(r).fate \in Final => e.fate = At(r).fate,
               e.row \in DUPLICATE_STATUSES => At(r).row \in DUPLICATE_STATUSES
        PROVE  RowStepped
    <2>1. Wrote(r, e)
      BY <1>5, SetTryWrites
    <2>2. Kept /\ RowInv'
      BY <1>5, <2>1, WroteKeeps DEF LegInv
    <2>3. \A p \in Orders : Apart(p)
      <3>1. \A p \in Orders : \A n \in DOMAIN tries[p] : <<p, n>> = r => tries[p][n] = At(r)
        BY DEF At
      <3> QED
        BY <1>5, <2>1, <3>1 DEF Wrote, Apart
    <2> QED
      BY <1>3, <2>2, <2>3 DEF RowStepped
  <1> QED
    BY <1>2, <1>4, <1>5

-----------------------------------------------------------------------------
(***************************************************************************)
(* Type correctness                                                        *)
(***************************************************************************)
LEMMA LegStart == Init => TypeOK /\ LegInv
  <1> SUFFICES ASSUME Init PROVE TypeOK /\ LegInv
    OBVIOUS
  <1>1. \A o \in Orders : ens[o] = Off /\ tries[o] = <<>> /\ Off.pc = "off"
    BY DEF Init, Off
  <1>2. <<>> \in Seq(Try) /\ DOMAIN <<>> = {}
    BY EmptySeq
  <1>3. TypeOK
    BY <1>2 DEF Init, TypeOK, Off, JobPCs, EnsPCs
  <1>4. LegInv
    BY <1>1, <1>2 DEF Init, LegInv, PhaseInv, PhaseOk, RowInv, EnsInv, EnsOk
  <1> QED
    BY <1>3, <1>4

LEMMA LegStep == TypeOK /\ LegInv /\ [Next]_vars => TypeOK' /\ LegInv'
  <1> SUFFICES ASSUME TypeOK, LegInv, [Next]_vars PROVE TypeOK' /\ LegInv'
    OBVIOUS
  <1>1. CASE UNCHANGED vars
    <2>1. UNCHANGED <<job, ens, tries, squared, aborted, crashes, env>>
      BY <1>1 DEF vars
    <2> QED
      BY <2>1 DEF TypeOK, Requests, Orders_, LegInv, PhaseInv, PhaseOk, RowInv, RowOk, EnsInv, EnsOk, At
  <1>2. CASE Next
    <2>1. env' = env
      BY <1>2 DEF Next
    <2>2. CASE JobStep
      BY <2>1, <2>2, BeginKeeps, HedgesOverKeeps, PrimariesOverKeeps, RollbackKeeps DEF JobStep
    <2>3. CASE \E o \in Orders_ : EnsurerStep(o)
      BY <2>1, <2>3, EnsurerView, EnsurerKeeps
    <2>4. CASE \E l \in Legs : OuterCheck(l)
      BY <2>1, <2>4, OuterCheckKeeps
    <2>5. CASE \E r \in Requests : BrokerStep(r) \/ Sync(r)
      <3>1. RowStepped
        BY <2>1, <2>5, RowView
      <3> QED
        BY <3>1, RowMove DEF RowStepped, Apart
    <2>6. CASE Abort
      BY <2>1, <2>6, AbortKeeps
    <2>7. CASE Crash
      BY <2>1, <2>7, CrashKeeps
    <2> QED
      BY <1>2, <2>2, <2>3, <2>4, <2>5, <2>6, <2>7 DEF Next
  <1> QED
    BY <1>1, <1>2

LEMMA LegHolds == Spec => [](TypeOK /\ LegInv)
  <1> QED
    BY LegStart, LegStep, PTL DEF Spec

\* The job, the ensurers and the ledger rows of an entry stay well formed, an
\* ensurer waits only for a request that was sent, and a restart hands out an
\* attempt that was counted.
THEOREM TypeCorrect == Spec => []TypeOK
  <1> QED
    BY LegHolds, PTL

-----------------------------------------------------------------------------
(***************************************************************************)
(* One order at the broker                                                 *)
(***************************************************************************)

\* The ensurer of o has nothing of its own at the broker.
Free(o) == ens[o].pc \in {"off", "outer", "check", "place", "match"} /\ job.pc # "failed"

\* Without refusals an order has one request; with them all but the last are dead,
\* and the last one is before it is sent again.
OnceOk(o) ==
    /\ ~env.refusals => Len(tries[o]) <= 1
    /\ env.refusals => \A n \in DOMAIN tries[o] :
          \/ tries[o][n].fate \in Dead
          \/ /\ n = Len(tries[o])
             /\ ~Free(o)
             /\ ens[o].pc = "poll" => ens[o].at = <<o, n>>

OnceInv == \A o \in Orders : OnceOk(o)

\* An order whose rows keep their number, and whose ensurer is not set free.
LEMMA OnceKept ==
    ASSUME TypeOK, NEW o \in Orders, OnceOk(o), env' = env, Kept,
           Len(tries'[o]) = Len(tries[o]), env.refusals /\ Free(o)' => Free(o),
           ens'[o].pc = "poll" => ens'[o] = ens[o]
    PROVE  OnceOk(o)'
  <1>1. DOMAIN tries[o] = 1..Len(tries[o])
    BY Shapes
  <1>2. DOMAIN tries'[o] = 1..Len(tries'[o])
    BY LenProperties DEF Kept
  <1>3. ASSUME env.refusals, NEW n \in DOMAIN tries'[o], tries'[o][n].fate \notin Dead
        PROVE  n = Len(tries'[o]) /\ ~Free(o)' /\ (ens'[o].pc = "poll" => ens'[o].at = <<o, n>>)
    <2>1. n \in DOMAIN tries[o]
      BY <1>1, <1>2
    <2>2. tries[o][n].fate \notin Dead
      BY <1>3, <2>1 DEF Kept, Final
    <2> QED
      BY <1>3, <2>1, <2>2 DEF OnceOk
  <1>4. env.refusals => \A n \in DOMAIN tries'[o] :
           \/ tries'[o][n].fate \in Dead
           \/ n = Len(tries'[o]) /\ ~Free(o)' /\ (ens'[o].pc = "poll" => ens'[o].at = <<o, n>>)
    BY <1>3
  <1> QED
    BY <1>4 DEF OnceOk

\* An order with nothing at the broker.
AllDead(o) == \A n \in DOMAIN tries[o] : tries[o][n].fate \in Dead

LEMMA DeadKept ==
    ASSUME TypeOK, NEW o \in Orders, OnceOk(o), env' = env, Kept,
           Len(tries'[o]) = Len(tries[o]), env.refusals => AllDead(o)
    PROVE  OnceOk(o)'
  <1>1. DOMAIN tries[o] = 1..Len(tries[o])
    BY Shapes
  <1>2. DOMAIN tries'[o] = 1..Len(tries'[o])
    BY LenProperties DEF Kept
  <1>3. env.refusals => \A n \in DOMAIN tries'[o] : tries'[o][n].fate \in Dead
    BY <1>1, <1>2 DEF Kept, Final, AllDead
  <1> QED
    BY <1>3 DEF OnceOk

LEMMA OnceOpened ==
    ASSUME TypeOK, LegInv, NEW o \in Orders_, NEW v, Common(o, v), Opened(o, v),
           ens[o].pc = "place", OnceOk(o)
    PROVE  OnceOk(o)'
  <1>0. o \in Orders /\ env' = env /\ ens'[o] = v /\ v.pc = "calling"
    BY Shapes, Others DEF Common, Moved, Opened
  <1>1. /\ Len(tries'[o]) = Len(tries[o]) + 1
        /\ \A n \in DOMAIN tries[o] : tries'[o][n] = tries[o][n]
        /\ DOMAIN tries'[o] = DOMAIN tries[o] \cup {Len(tries[o]) + 1}
    BY <1>0, AppendKeeps DEF Opened, LegInv
  <1>2. Free(o)
    <2>1. ens[o].pc \in Awake
      BY DEF Awake, EnsPCs, Over
    <2>2. job.pc # "failed"
      BY <1>0, <2>1, AwakePhase DEF LegInv
    <2> QED
      BY <2>2 DEF Free
  <1>3. ~env.refusals => Len(tries'[o]) <= 1
    <2>1. Len(tries[o]) \in Nat /\ DOMAIN tries[o] = 1..Len(tries[o]) /\ tries[o] \in Seq(Try)
      BY <1>0, Shapes DEF TypeOK
    <2>2. CASE tries[o] = <<>>
      BY <1>1, <2>2, EmptySeq
    <2>3. CASE tries[o] # <<>> /\ tries[o][1].row \in RETRY_TERMINAL
      <3>1. 1 \in DOMAIN tries[o]
        <4>1. Len(tries[o]) # 0
          BY <2>1, <2>3, EmptySeq
        <4> QED
          BY <2>1, <4>1
      <3>2. RowOk(tries[o][1])
        BY <1>0, <3>1 DEF LegInv, RowInv
      <3> QED
        BY <2>3, <3>2 DEF RowOk
    <2> QED
      BY <2>2, <2>3 DEF Opened
  <1>4. env.refusals => \A n \in DOMAIN tries'[o] :
           tries'[o][n].fate \in Dead \/ n = Len(tries'[o])
    BY <1>1, <1>2 DEF OnceOk
  <1>5. ~Free(o)' /\ ens'[o].pc # "poll"
    BY <1>0 DEF Free
  <1> QED
    BY <1>0, <1>3, <1>4, <1>5 DEF OnceOk

LEMMA OnceEnsurer ==
    ASSUME TypeOK, LegInv, OnceInv, env.refusals => ~env.lost,
           NEW o \in Orders_, NEW v, EnsurerStepped(o, v)
    PROVE  OnceInv'
  <1>0. o \in Orders /\ Common(o, v) /\ ens'[o] = v /\ env' = env /\ Kept /\ UNCHANGED job
    BY Shapes, Others DEF EnsurerStepped, Common, Moved
  <1>1. ASSUME NEW p \in Orders \ {o} PROVE OnceOk(p)'
    <2>1. ens'[p] = ens[p] /\ Apart(p) /\ OnceOk(p)
      BY <1>0, Others DEF OnceInv
    <2> QED
      BY <1>0, <2>1, OnceKept DEF Apart, Free
  <1>2. OnceOk(o) /\ job.pc # "failed"
    <2>1. ens[o].pc \in Awake
      BY EnsurerKeeps
    <2> QED
      BY <1>0, <2>1, AwakePhase DEF OnceInv, LegInv
  <1>3. ens[o].pc \in {"check", "place", "match"} /\ env.refusals => AllDead(o)
    BY <1>2 DEF OnceOk, Free, AllDead
  <1>4. ASSUME Checked(o, v) PROVE OnceOk(o)'
    BY <1>0, <1>2, <1>3, <1>4, DeadKept DEF Checked
  <1>5. ASSUME Placed(o, v) PROVE OnceOk(o)'
    <2>1. CASE UNCHANGED tries
      BY <1>0, <1>2, <1>3, <1>5, <2>1, DeadKept DEF Placed
    <2>2. CASE Opened(o, v)
      BY <1>0, <1>2, <1>5, <2>2, OnceOpened DEF Placed
    <2> QED
      BY <1>5, <2>1, <2>2 DEF Placed
  <1>6. ASSUME Called(o, v) PROVE OnceOk(o)'
    <2>1. /\ ens[o].pc = "calling" /\ ens[o].at = <<o, Len(tries[o])>>
          /\ Len(tries'[o]) = Len(tries[o])
          /\ At(ens[o].at) = tries[o][Len(tries[o])]
      BY <1>0, <1>6 DEF Called, Wrote, At
    <2>2. CASE v.pc = "poll"
      <3>1. /\ DOMAIN tries[o] = 1..Len(tries[o])
            /\ DOMAIN tries'[o] = 1..Len(tries'[o]) /\ v.at = ens[o].at
        BY <1>0, <1>6, <2>2, Shapes, LenProperties DEF Called, Kept, NoReq
      <3>2. env.refusals => \A n \in DOMAIN tries'[o] :
               tries'[o][n].fate \in Dead \/ n = Len(tries'[o])
        BY <1>0, <1>2, <2>1, <3>1 DEF OnceOk, Kept, Final
      <3>3. ~Free(o)'
        BY <1>0, <2>2 DEF Free
      <3> QED
        BY <1>0, <1>2, <2>1, <3>1, <3>2, <3>3 DEF OnceOk
    <2>3. CASE v.pc # "poll"
      <3>1. env.refusals => At(ens[o].at).fate = "refused"
        BY <1>6, <2>3 DEF Called
      <3>2. env.refusals => AllDead(o)
        BY <1>2, <2>1, <3>1 DEF OnceOk, AllDead, Dead
      <3> QED
        BY <1>0, <1>2, <2>1, <3>2, DeadKept
    <2> QED
      BY <2>2, <2>3
  <1>7. ASSUME Matched(o, v) PROVE OnceOk(o)'
    BY <1>0, <1>2, <1>3, <1>7, DeadKept DEF Matched
  <1>8. ASSUME Polled(o, v) PROVE OnceOk(o)'
    <2>1. Len(tries'[o]) = Len(tries[o])
      BY <1>0, <1>8 DEF Polled, Wrote
    <2>2. CASE v.pc = "done"
      <3>1. ~Free(o)' /\ ens'[o].pc # "poll"
        BY <1>0, <2>2 DEF Free
      <3> QED
        BY <1>0, <1>2, <2>1, <3>1, OnceKept
    <2>3. CASE v.pc # "done"
      <3>1. env.refusals => At(ens[o].at).fate \in Dead
        BY <1>8, <2>3 DEF Polled
      <3>2. \A n \in DOMAIN tries[o] : ens[o].at = <<o, n>> => At(ens[o].at) = tries[o][n]
        BY DEF At
      <3>3. env.refusals => AllDead(o)
        BY <1>2, <1>8, <3>1, <3>2 DEF OnceOk, AllDead, Polled
      <3> QED
        BY <1>0, <1>2, <2>1, <3>3, DeadKept
    <2> QED
      BY <2>2, <2>3
  <1>9. OnceOk(o)'
    BY <1>4, <1>5, <1>6, <1>7, <1>8 DEF EnsurerStepped
  <1> QED
    BY <1>1, <1>9 DEF OnceInv

\* The job moves: who is set free was free.
LEMMA OnceJob ==
    ASSUME TypeOK, OnceInv, UNCHANGED <<tries, env>>,
           \A o \in Orders : /\ env.refusals /\ Free(o)' => Free(o)
                             /\ ens'[o].pc = "poll" => ens'[o] = ens[o]
    PROVE  OnceInv'
  <1>1. Kept
    BY SameKept
  <1>2. ASSUME NEW o \in Orders PROVE OnceOk(o)'
    BY <1>1, OnceKept DEF OnceInv
  <1> QED
    BY <1>2 DEF OnceInv

LEMMA OnceStep ==
    SafeRetries /\ TypeOK /\ LegInv /\ OnceInv /\ [Next]_vars => OnceInv'
  <1> SUFFICES ASSUME SafeRetries, TypeOK, LegInv, OnceInv, [Next]_vars PROVE OnceInv'
    OBVIOUS
  <1>0. env.refusals => ~env.lost /\ env.restarts = 0 /\ env.jobTries <= 1
    BY DEF TypeOK, SafeRetries
  <1>1. CASE UNCHANGED vars
    <2>1. UNCHANGED <<job, ens, tries, env>>
      BY <1>1 DEF vars
    <2> QED
      BY <2>1, OnceJob DEF Free
  <1>2. CASE Next
    <2>1. env' = env
      BY <1>2 DEF Next
    <2>2. CASE Begin
      <3>1. job.pc = "queued" /\ UNCHANGED tries /\ \E legs : Start(legs)
        BY <2>2 DEF Begin
      <3>2. \A o \in Orders : ens'[o].pc = "poll" => ens'[o] = ens[o]
        BY <3>1, Started
      <3>3. \A o \in Orders : Free(o)
        BY <3>1 DEF LegInv, PhaseInv, PhaseOk, Free
      <3> QED
        BY <2>1, <3>1, <3>2, <3>3, OnceJob
    <2>3. CASE HedgesOver
      <3>1. /\ job.pc = "hedges" /\ UNCHANGED tries
            /\ UNCHANGED ens \/ Start(PrimaryLegs)
        BY <2>3 DEF HedgesOver
      <3>2. CASE UNCHANGED ens
        BY <2>1, <3>1, <3>2, OnceJob DEF Free
      <3>3. CASE Start(PrimaryLegs)
        <4>1. \A o \in Orders : \/ ens'[o] = ens[o]
                                \/ /\ o \in Orders_ /\ LegOf[o] \in PrimaryLegs
                                   /\ ens'[o].pc # "poll"
          BY <3>3, Started
        <4>2. \A o \in Orders : o \in Orders_ /\ LegOf[o] \in PrimaryLegs => ens[o].pc = "off"
          BY <3>1 DEF LegInv, PhaseInv, PhaseOk, PrimaryLegs
        <4> QED
          BY <2>1, <3>1, <4>1, <4>2, OnceJob DEF Free
      <3> QED
        BY <3>1, <3>2, <3>3
    <2>4. CASE PrimariesOver
      BY <2>1, <2>4, OnceJob DEF PrimariesOver, Free
    <2>5. CASE Rollback
      <3>1. /\ UNCHANGED tries /\ ens' = [o \in Orders |-> Off] /\ job.pc = "rollback"
            /\ job' = [job EXCEPT !.pc = IF job.attempt < env.jobTries THEN "queued" ELSE "failed"]
        BY <2>5 DEF Rollback, Fails
      <3>2. \A o \in Orders : ens'[o].pc = "off"
        BY <3>1, AllOff
      <3>3. env.refusals => job'.pc = "failed"
        <4>1. job.attempt \in Nat /\ job.attempt > 0 /\ env.jobTries \in Nat
          BY <3>1, Shapes DEF TypeOK, LegInv, PhaseInv, Setting
        <4>2. env.refusals => ~(job.attempt < env.jobTries)
          BY <1>0, <4>1
        <4> QED
          BY <3>1, <4>2 DEF TypeOK
      <3> QED
        BY <2>1, <3>1, <3>2, <3>3, OnceJob DEF Free
    <2>6. CASE \E o \in Orders_ : EnsurerStep(o)
      BY <1>0, <2>1, <2>6, EnsurerView, OnceEnsurer
    <2>7. CASE \E l \in Legs : OuterCheck(l)
      <3>1. PICK l \in Legs : OuterCheck(l)
        BY <2>7
      <3>3. PICK v \in EnsRecord :
               /\ v.pc \in {"outerThrown", "check"} /\ v.at = NoReq
               /\ ens' = [o \in Orders |-> IF o \in Slices(l) THEN v ELSE ens[o]]
        BY <3>1, SplitView
      <3>2. /\ \A o \in Slices(l) : ens[o].pc = "outer"
            /\ ens' = [o \in Orders |-> IF o \in Slices(l) THEN v ELSE ens[o]]
            /\ UNCHANGED <<job, tries>>
        BY <3>1, <3>3 DEF OuterCheck
      <3>4. ASSUME NEW o \in Orders
            PROVE  (Free(o)' => Free(o)) /\ (ens'[o].pc = "poll" => ens'[o] = ens[o])
        BY <3>2, <3>3 DEF Free
      <3> QED
        BY <2>1, <3>2, <3>4, OnceJob
    <2>8. CASE \E r \in Requests : BrokerStep(r) \/ Sync(r)
      <3>1. RowStepped
        BY <2>1, <2>8, RowView
      <3>2. ASSUME NEW o \in Orders PROVE OnceOk(o)'
        BY <3>1, OnceKept DEF RowStepped, Apart, OnceInv, Free
      <3> QED
        BY <3>2 DEF OnceInv
    <2>9. CASE Abort
      BY <2>1, <2>9, OnceJob DEF Abort, Free
    <2>10. CASE Crash
      <3>1. ~env.refusals
        <4>1. crashes \in Nat /\ env.restarts \in Nat /\ crashes < env.restarts
          BY <2>10, Shapes DEF Crash, TypeOK, Setting
        <4> QED
          BY <1>0, <4>1
      <3>2. UNCHANGED tries /\ \A o \in Orders : ens'[o].pc = "off"
        BY <2>10, AllOff DEF Crash
      <3> QED
        BY <2>1, <3>1, <3>2, OnceJob
    <2> QED
      BY <1>2, <2>2, <2>3, <2>4, <2>5, <2>6, <2>7, <2>8, <2>9, <2>10 DEF Next, JobStep
  <1> QED
    BY <1>1, <1>2

LEMMA OnceIsLegOnce == ASSUME TypeOK, OnceInv PROVE LegOnce
  <1>1. ASSUME NEW o \in Orders_
        PROVE  Cardinality({n \in DOMAIN tries[o] : Alive(<<o, n>>)}) <= 1
    <2> DEFINE A == {n \in DOMAIN tries[o] : Alive(<<o, n>>)}
    <2>1. o \in Orders /\ Len(tries[o]) \in Nat /\ DOMAIN tries[o] = 1..Len(tries[o]) /\ OnceOk(o)
      BY Shapes DEF OnceInv
    <2>2. \A n \in A : tries[o][n].fate \notin Dead
      BY DEF Alive, At, Dead
    <2>3. \A n \in A : n = Len(tries[o])
      BY <2>1, <2>2 DEF OnceOk
    <2>4. A = {} \/ A = {Len(tries[o])}
      BY <2>3
    <2> HIDE DEF A
    <2>5. Cardinality(A) \in {0, 1}
      <3>1. CASE A = {}
        BY <3>1, FS_EmptySet
      <3>2. CASE A = {Len(tries[o])}
        <4>1. Cardinality({Len(tries[o])}) = 1
          BY FS_Singleton
        <4> QED
          BY <3>2, <4>1
      <3> QED
        BY <2>4, <3>1, <3>2
    <2> QED
      BY <2>5 DEF A
  <1> QED
    BY <1>1 DEF LegOnce

\* No order of a leg is at the broker twice: through refusals, lost answers,
\* restarts and new attempts of the job, the ensurer's retries leave at most
\* one request of it under way, working or executed.
THEOREM LegOnceHolds == SafeRetries => (Spec => []LegOnce)
  <1>1. Init => OnceInv
    <2> SUFFICES ASSUME Init PROVE OnceInv
      OBVIOUS
    <2>1. \A o \in Orders : tries[o] = <<>>
      BY DEF Init
    <2>2. DOMAIN <<>> = {} /\ Len(<<>>) = 0
      BY EmptySeq
    <2> QED
      BY <2>1, <2>2 DEF OnceInv, OnceOk
  <1> SUFFICES ASSUME SafeRetries PROVE Spec => []LegOnce
    OBVIOUS
  <1>2. TypeOK /\ LegInv /\ OnceInv /\ [Next]_vars => OnceInv'
    BY OnceStep
  <1>3. TypeOK /\ OnceInv => LegOnce
    BY OnceIsLegOnce
  <1> QED
    BY <1>1, <1>2, <1>3, LegHolds, PTL DEF Spec

-----------------------------------------------------------------------------
(***************************************************************************)
(* Whole and hedged structures                                             *)
(***************************************************************************)

\* An ensurer waits for a request of its own order.
OwnInv == \A o \in Orders : ens[o].at # NoReq => ens[o].at[1] = o

\* With every order answered, an ensurer that nobody aborts learns what became of
\* its order, or drops it.
SureOk(o) ==
    Answered /\ ~aborted =>
        /\ ens[o].pc = "unsure" => Dropped(o)
        /\ ens[o].pc = "place" => ~pendingDuplicate(o)

\* A refusal stays.
LEMMA DroppedStays ==
    ASSUME NEW o \in Orders, env' = env, Kept, Dropped(o) PROVE Dropped(o)'
  BY DEF Dropped, Kept, Final, Dead, At

SureInv == \A o \in Orders : SureOk(o)

\* The rollback flags stop an entry with a rejected leg.
AllOkInv ==
    env.rollback =>
        /\ job.pc \in {"primaries", "completed"} => allOk(HedgeLegs)
        /\ job.pc = "completed" => allOk(PrimaryLegs)

HedgesHeld ==
    \A o \in Orders_ : LegOf[o] \in Hedges =>
        \/ \E n \in DOMAIN tries[o] : tries[o][n].fate = "COMPLETE"
        \/ Dropped(o)

\* The primaries start, and have left, behind executed or dropped hedges.
HedgedInv ==
    env.rollback /\ Answered /\ Unsliced(HedgeLegs) =>
        /\ job.pc = "primaries" => aborted \/ HedgesHeld
        /\ (\E o \in Orders_ : LegOf[o] \notin Hedges /\ tries[o] # <<>>) => HedgesHeld

HeldInv == OwnInv /\ squared = {}

WholeInv == HeldInv /\ SureInv /\ AllOkInv /\ HedgedInv
\* Steps of the job, the operator and the process, and the call before the split.
AroundStep == JobStep \/ Abort \/ Crash \/ \E l \in Legs : OuterCheck(l)

LEMMA AroundView ==
    ASSUME TypeOK, AroundStep
    PROVE  /\ UNCHANGED <<tries, squared>>
           /\ aborted => aborted'
           /\ \A o \in Orders :
                 \/ ens'[o] = ens[o]
                 \/ ens'[o].pc \in {"off", "outer", "check", "outerThrown"} /\ ens'[o].at = NoReq
  <1> DEFINE Ok == \A o \in Orders :
                 \/ ens'[o] = ens[o]
                 \/ ens'[o].pc \in {"off", "outer", "check", "outerThrown"} /\ ens'[o].at = NoReq
  <1>1. UNCHANGED <<tries, squared>> /\ (aborted => aborted')
    BY DEF AroundStep, JobStep, Begin, HedgesOver, PrimariesOver, Rollback, Abort, Crash, OuterCheck,
           doSquareOffPositions, RollbackHasInstrument
  <1>2. ASSUME UNCHANGED ens PROVE Ok
    BY <1>2
  <1>3. ASSUME NEW legs, Start(legs) PROVE Ok
    BY <1>3, Started DEF Afresh
  <1>4. ASSUME ens' = [o \in Orders |-> Off] PROVE Ok
    BY <1>4 DEF Off
  <1>5. ASSUME NEW l \in Legs, OuterCheck(l) PROVE Ok
    <2>1. PICK v \in EnsRecord :
             /\ v.pc \in {"outerThrown", "check"} /\ v.at = NoReq
             /\ ens' = [o \in Orders |-> IF o \in Slices(l) THEN v ELSE ens[o]]
      BY <1>5, SplitView
    <2> QED
      BY <2>1
  <1>6. UNCHANGED ens \/ (\E legs : Start(legs)) \/ ens' = [o \in Orders |-> Off]
        \/ \E l \in Legs : OuterCheck(l)
    BY DEF AroundStep, JobStep, Begin, HedgesOver, PrimariesOver, Rollback, Abort, Crash
  <1> HIDE DEF Ok
  <1>7. Ok
    BY <1>2, <1>3, <1>4, <1>5, <1>6
  <1> QED
    BY <1>1, <1>7 DEF Ok

\* Next, by what the steps look like.
LEMMA NextView ==
    ASSUME TypeOK, LegInv, Next
    PROVE  /\ env' = env
           /\ \/ AroundStep
              \/ \E o \in Orders_ : \E v : EnsurerStepped(o, v)
              \/ RowStepped
  <1>1. env' = env
    BY DEF Next
  <1>2. CASE \E o \in Orders_ : EnsurerStep(o)
    BY <1>1, <1>2, EnsurerView
  <1>3. CASE \E r \in Requests : BrokerStep(r) \/ Sync(r)
    BY <1>1, <1>3, RowView
  <1> QED
    BY <1>1, <1>2, <1>3 DEF Next, AroundStep

LEMMA Distinct ==
    ASSUME DistinctOrders, TypeOK, NEW o \in Orders_, NEW p \in Orders_, AttrOf[o] = AttrOf[p]
    PROVE  o = p
  BY DEF DistinctOrders, TypeOK, Orders_

LEMMA HeldStep ==
    DistinctOrders /\ TypeOK /\ LegInv /\ HeldInv /\ Next => HeldInv'
  <1> SUFFICES ASSUME DistinctOrders, TypeOK, LegInv, HeldInv, Next PROVE HeldInv'
    OBVIOUS
  <1>1. CASE AroundStep
    <2>1. UNCHANGED squared /\ \A o \in Orders : ens'[o] = ens[o] \/ ens'[o].at = NoReq
      BY <1>1, AroundView
    <2> QED
      BY <2>1 DEF HeldInv, OwnInv
  <1>2. ASSUME NEW o \in Orders_, NEW v, EnsurerStepped(o, v) PROVE HeldInv'
    <2>1. /\ o \in Orders /\ ens'[o] = v /\ \A p \in Orders \ {o} : ens'[p] = ens[p]
          /\ UNCHANGED squared
      BY <1>2, Shapes, Others DEF EnsurerStepped, Common, Moved
    <2>2. v.at = NoReq \/ v.at = ens[o].at \/ v.at[1] = o
      <3>1. CASE Matched(o, v) /\ v.at \in BookMatches(o)
        <4>1. v.at \in Requests /\ AttrOf[v.at[1]] = AttrOf[o]
          BY <3>1 DEF BookMatches
        <4>2. v.at[1] \in Orders_
          BY <4>1, RequestParts
        <4> QED
          BY <4>1, <4>2, Distinct
      <3>2. CASE Placed(o, v)
        BY <3>2 DEF Placed, Opened
      <3> QED
        BY <1>2, <3>1, <3>2 DEF EnsurerStepped, Checked, Called, Matched, Polled
    <2> QED
      BY <2>1, <2>2 DEF HeldInv, OwnInv
  <1>3. CASE RowStepped
    BY <1>3 DEF RowStepped, HeldInv, OwnInv
  <1> QED
    BY <1>1, <1>2, <1>3, NextView

\* Among distinct orders only an order's own rows are its duplicates.
DupIn(t, o) == \E n \in DOMAIN t[o] : t[o][n].row \in DUPLICATE_STATUSES

LEMMA OwnDuplicates ==
    ASSUME DistinctOrders, TypeOK, NEW o \in Orders_, env' = env
    PROVE  /\ pendingDuplicate(o) <=> DupIn(tries, o)
           /\ pendingDuplicate(o)' <=> DupIn(tries', o)
  <1>1. \A p \in Orders_ : AttrOf[p] = AttrOf[o] => p = o
    BY Distinct
  <1>2. /\ \A r \in Requests : \E p \in Orders_ : \E n \in DOMAIN tries[p] : r = <<p, n>>
        /\ \A p \in Orders_ : \A n \in DOMAIN tries[p] : <<p, n>> \in Requests
    BY DEF Requests
  <1>3. ASSUME pendingDuplicate(o) PROVE DupIn(tries, o)
    <2>1. PICK r \in Requests : AttrOf[r[1]] = AttrOf[o] /\ At(r).row \in DUPLICATE_STATUSES
      BY <1>3 DEF pendingDuplicate
    <2>2. PICK p \in Orders_ : \E n \in DOMAIN tries[p] : r = <<p, n>>
      BY <1>2
    <2>3. PICK n \in DOMAIN tries[p] : r = <<p, n>>
      BY <2>2
    <2>4. r[1] = p /\ r[2] = n
      BY <2>3
    <2>5. p = o
      BY <1>1, <2>1, <2>4
    <2> QED
      BY <2>1, <2>4, <2>5 DEF At, DupIn
  <1>4. ASSUME DupIn(tries, o) PROVE pendingDuplicate(o)
    <2>1. PICK n \in DOMAIN tries[o] : tries[o][n].row \in DUPLICATE_STATUSES
      BY <1>4 DEF DupIn
    <2> DEFINE r == <<o, n>>
    <2>2. r \in Requests /\ r[1] = o /\ r[2] = n
      BY <1>2
    <2> HIDE DEF r
    <2> QED
      BY <2>1, <2>2 DEF pendingDuplicate, At
  <1>5. Orders_' = Orders_
    BY DEF Orders_
  <1>6. /\ \A r \in Requests' : \E p \in Orders_ : \E n \in DOMAIN tries'[p] : r = <<p, n>>
        /\ \A p \in Orders_ : \A n \in DOMAIN tries'[p] : <<p, n>> \in Requests'
    BY <1>5 DEF Requests
  <1>7. ASSUME pendingDuplicate(o)' PROVE DupIn(tries', o)
    <2>1. PICK r \in Requests' : AttrOf[r[1]] = AttrOf[o] /\ tries'[r[1]][r[2]].row \in DUPLICATE_STATUSES
      BY <1>7 DEF pendingDuplicate, At
    <2>2. PICK p \in Orders_ : \E n \in DOMAIN tries'[p] : r = <<p, n>>
      BY <1>6
    <2>3. PICK n \in DOMAIN tries'[p] : r = <<p, n>>
      BY <2>2
    <2>4. r[1] = p /\ r[2] = n
      BY <2>3
    <2>5. p = o
      BY <1>1, <2>1, <2>4
    <2> QED
      BY <2>1, <2>4, <2>5 DEF DupIn
  <1>8. ASSUME DupIn(tries', o) PROVE pendingDuplicate(o)'
    <2>1. PICK n \in DOMAIN tries'[o] : tries'[o][n].row \in DUPLICATE_STATUSES
      BY <1>8 DEF DupIn
    <2> DEFINE r == <<o, n>>
    <2>2. r \in Requests' /\ r[1] = o /\ r[2] = n
      BY <1>6
    <2> HIDE DEF r
    <2>3. \E q \in Requests' : /\ AttrOf[q[1]] = AttrOf[o]
                              /\ tries'[q[1]][q[2]].row \in DUPLICATE_STATUSES
      BY <2>1, <2>2
    <2> QED
      BY <2>3 DEF pendingDuplicate, At
  <1> QED
    BY <1>3, <1>4, <1>7, <1>8

LEMMA SureKept ==
    ASSUME DistinctOrders, TypeOK, LegInv, NEW o \in Orders, SureOk(o), ens'[o] = ens[o],
           env' = env, aborted => aborted', Kept, Apart(o)
    PROVE  SureOk(o)'
  <1>1. CASE ens[o].pc = "place"
    <2>1. o \in Orders_
      BY <1>1, AwakePhase DEF Awake, EnsPCs, Over, LegInv
    <2>2. /\ DOMAIN tries[o] = 1..Len(tries[o])
          /\ DOMAIN tries'[o] = 1..Len(tries'[o]) /\ Len(tries'[o]) = Len(tries[o])
      BY Shapes, LenProperties DEF Kept, Apart
    <2>3. DupIn(tries', o) => DupIn(tries, o)
      BY <2>2 DEF Apart, DupIn
    <2> QED
      BY <1>1, <2>1, <2>3, OwnDuplicates DEF SureOk, Answered
  <1>2. CASE ens[o].pc # "place"
    BY <1>2, DroppedStays DEF SureOk, Answered
  <1> QED
    BY <1>1, <1>2

LEMMA SureStep ==
    DistinctOrders /\ TypeOK /\ LegInv /\ SureInv /\ Next => SureInv'
  <1> SUFFICES ASSUME DistinctOrders, TypeOK, LegInv, SureInv, Next PROVE SureInv'
    OBVIOUS
  <1>0. env' = env
    BY NextView
  <1>1. CASE AroundStep
    <2>1. /\ UNCHANGED tries
          /\ aborted => aborted'
          /\ \A o \in Orders : ens'[o] = ens[o]
                               \/ ens'[o].pc \in {"off", "outer", "check", "outerThrown"}
      BY <1>1, AroundView
    <2>2. Kept /\ \A o \in Orders : Apart(o)
      BY <2>1, SameKept DEF Apart
    <2>3. ASSUME NEW o \in Orders PROVE SureOk(o)'
      <3>1. CASE ens'[o] = ens[o]
        BY <1>0, <2>1, <2>2, <3>1, SureKept DEF SureInv
      <3>2. CASE ens'[o].pc \in {"off", "outer", "check", "outerThrown"}
        BY <3>2 DEF SureOk
      <3> QED
        BY <2>1, <3>1, <3>2
    <2> QED
      BY <2>3 DEF SureInv
  <1>2. ASSUME NEW o \in Orders_, NEW v, EnsurerStepped(o, v) PROVE SureInv'
    <2>1. /\ o \in Orders /\ ens'[o] = v /\ \A p \in Orders \ {o} : ens'[p] = ens[p] /\ Apart(p)
          /\ UNCHANGED <<aborted, env>> /\ Kept /\ SureOk(o)
      BY <1>2, Shapes, Others DEF EnsurerStepped, Common, Moved, SureInv
    <2>2. ASSUME NEW p \in Orders \ {o} PROVE SureOk(p)'
      BY <2>1, SureKept DEF SureInv
    <2>3. SureOk(o)'
      <3>1. CASE Checked(o, v)
        <4>1. UNCHANGED tries /\ (v.pc = "thrown" \/ (v.pc = "place" /\ ~pendingDuplicate(o)))
          BY <3>1 DEF Checked
        <4>2. ~pendingDuplicate(o) => ~pendingDuplicate(o)'
          BY <2>1, <4>1, OwnDuplicates
        <4> QED
          BY <2>1, <4>1, <4>2 DEF SureOk, Answered
      <3>2. CASE Placed(o, v)
        BY <2>1, <3>2 DEF Placed, Opened, SureOk, Answered, GateRefuses
      <3>3. CASE Called(o, v)
        <4>1. ens[o].at \in Requests /\ v.pc # "place"
          BY <3>3 DEF Called
        <4>2. v.pc = "unsure" /\ ~env.lost => Dropped(o)
          <5>1. ens[o].at[2] \in DOMAIN tries[o] /\ ens[o].at = <<o, ens[o].at[2]>>
            BY <3>3, <4>1, RequestParts DEF Called
          <5>2. v.pc = "unsure" /\ ~env.lost => env.others /\ At(ens[o].at).fate = "refused"
            BY <3>3 DEF Called
          <5> QED
            BY <5>1, <5>2 DEF Dropped
        <4> QED
          BY <2>1, <4>1, <4>2, DroppedStays DEF SureOk, Answered
      <3>4. CASE Matched(o, v) \/ Polled(o, v)
        BY <2>1, <3>4 DEF Matched, Polled, SureOk, Answered
      <3> QED
        BY <1>2, <3>1, <3>2, <3>3, <3>4 DEF EnsurerStepped
    <2> QED
      BY <2>2, <2>3 DEF SureInv
  <1>3. CASE RowStepped
    <2>1. ASSUME NEW o \in Orders PROVE SureOk(o)'
      BY <1>3, SureKept DEF RowStepped, SureInv
    <2> QED
      BY <2>1 DEF SureInv
  <1> QED
    BY <1>1, <1>2, <1>3, NextView

\* Legs whose ensurers do not move stay as rejected as they were.
LEMMA LegsKept ==
    ASSUME env' = env
    PROVE  /\ Orders_' = Orders_ /\ HedgeLegs' = HedgeLegs /\ PrimaryLegs' = PrimaryLegs
           /\ ActiveLegs' = ActiveLegs /\ \A l : Slices(l)' = Slices(l)
  BY DEF HedgeLegs, PrimaryLegs, ActiveLegs, Slices, Orders_

LEMMA RejectedKept ==
    ASSUME env' = env, NEW l, \A o \in Slices(l) : ens'[o] = ens[o], LegRejected(l)'
    PROVE  LegRejected(l)
  <1>1. Slices(l)' = Slices(l)
    BY LegsKept
  <1> QED
    BY <1>1 DEF LegRejected

LEMMA HedgesKept ==
    ASSUME env' = env, \A o \in Orders_ : LegOf[o] \in Hedges => ens'[o] = ens[o],
           allOk(HedgeLegs)
    PROVE  allOk(HedgeLegs)'
  <1>1. \A l \in HedgeLegs : \A o \in Slices(l) : ens'[o] = ens[o]
    BY DEF HedgeLegs, Slices
  <1>2. \A l \in HedgeLegs : ~LegRejected(l)'
    BY <1>1, RejectedKept DEF allOk
  <1>3. HedgeLegs' = HedgeLegs
    BY LegsKept
  <1> QED
    BY <1>2, <1>3 DEF allOk

LEMMA AllOkStep ==
    TypeOK /\ LegInv /\ AllOkInv /\ Next => AllOkInv'
  <1> SUFFICES ASSUME TypeOK, LegInv, AllOkInv, Next, env.rollback
               PROVE  /\ job'.pc \in {"primaries", "completed"} => allOk(HedgeLegs)'
                      /\ job'.pc = "completed" => allOk(PrimaryLegs)'
    BY NextView DEF AllOkInv
  <1>0. env' = env /\ job.pc \in JobPCs
    BY NextView DEF TypeOK
  <1>1. ASSUME UNCHANGED <<job, ens>>
        PROVE  /\ job'.pc \in {"primaries", "completed"} => allOk(HedgeLegs)'
               /\ job'.pc = "completed" => allOk(PrimaryLegs)'
    <2>1. HedgeLegs' = HedgeLegs /\ PrimaryLegs' = PrimaryLegs
      BY <1>0, LegsKept
    <2>2. \A l : LegRejected(l)' => LegRejected(l)
      BY <1>0, <1>1, RejectedKept
    <2> QED
      BY <1>1, <2>1, <2>2 DEF AllOkInv, allOk
  <1>2. CASE Begin
    <2>1. job'.pc \in {"primaries", "hedges"}
      BY <1>2 DEF Begin, TypeOK
    <2>2. job'.pc = "primaries" => HedgeLegs = {}
      BY <1>2 DEF Begin, TypeOK
    <2>3. HedgeLegs' = HedgeLegs
      BY <1>0, LegsKept
    <2> QED
      BY <2>1, <2>2, <2>3 DEF allOk
  <1>3. CASE HedgesOver
    <2>1. \/ job'.pc = "rollback"
          \/ job'.pc = "primaries" /\ allOk(HedgeLegs) /\ Start(PrimaryLegs)
      BY <1>3 DEF HedgesOver, TypeOK
    <2>2. Start(PrimaryLegs) => \A o \in Orders_ : LegOf[o] \in Hedges => ens'[o] = ens[o]
      BY Started, Shapes DEF PrimaryLegs
    <2> QED
      BY <1>0, <2>1, <2>2, HedgesKept
  <1>4. CASE PrimariesOver
    <2>1. /\ job.pc = "primaries" /\ UNCHANGED ens
          /\ job'.pc = "rollback" \/ (job'.pc = "completed" /\ allOk(PrimaryLegs))
      BY <1>4 DEF PrimariesOver, TypeOK
    <2>2. allOk(HedgeLegs)'
      BY <1>0, <2>1, HedgesKept DEF AllOkInv
    <2>3. allOk(PrimaryLegs) => allOk(PrimaryLegs)'
      <3>1. PrimaryLegs' = PrimaryLegs /\ \A l : LegRejected(l)' => LegRejected(l)
        BY <1>0, <2>1, LegsKept, RejectedKept
      <3> QED
        BY <3>1 DEF allOk
    <2> QED
      BY <2>1, <2>2, <2>3
  <1>5. CASE Rollback \/ Crash
    <2>1. job'.pc \in {"queued", "failed"}
      BY <1>5 DEF Rollback, Crash, Fails, TypeOK
    <2> QED
      BY <2>1
  <1>6. CASE Abort \/ RowStepped
    BY <1>1, <1>6 DEF Abort, RowStepped
  \* An ensurer that moves in the primaries' phase is a primary's.
  <1>7. ASSUME UNCHANGED job, NEW P \in SUBSET Orders, P # {},
               \A o \in P : ens[o].pc \in Awake, \A o \in Orders \ P : ens'[o] = ens[o]
        PROVE  /\ job'.pc \in {"primaries", "completed"} => allOk(HedgeLegs)'
               /\ job'.pc = "completed" => allOk(PrimaryLegs)'
    <2>1. \A o \in P : \/ job.pc = "hedges" /\ LegOf[o] \in Hedges
                       \/ job.pc = "primaries" /\ LegOf[o] \notin Hedges
      BY <1>7, AwakePhase DEF LegInv
    <2>2. job.pc \in {"hedges", "primaries"}
      BY <1>7, <2>1
    <2>3. job.pc = "primaries" => \A o \in Orders_ : LegOf[o] \in Hedges => ens'[o] = ens[o]
      BY <1>7, <2>1, Shapes
    <2> QED
      BY <1>0, <1>7, <2>2, <2>3, HedgesKept DEF AllOkInv
  <1>8. CASE \E l \in Legs : OuterCheck(l)
    <2>1. PICK l \in Legs : OuterCheck(l)
      BY <1>8
    <2>2. /\ Slices(l) # {} /\ \A o \in Slices(l) : ens[o].pc = "outer"
          /\ \A o \in Orders \ Slices(l) : ens'[o] = ens[o]
          /\ UNCHANGED job
      BY <2>1, SplitView DEF OuterCheck
    <2>3. Slices(l) \in SUBSET Orders
      BY Shapes DEF Slices
    <2>4. \A o \in Slices(l) : ens[o].pc \in Awake
      BY <2>2 DEF Awake, EnsPCs, Over
    <2> QED
      BY <1>7, <2>2, <2>3, <2>4
  <1>9. ASSUME NEW o \in Orders_, NEW v, EnsurerStepped(o, v)
        PROVE  /\ job'.pc \in {"primaries", "completed"} => allOk(HedgeLegs)'
               /\ job'.pc = "completed" => allOk(PrimaryLegs)'
    <2>1. /\ o \in Orders /\ UNCHANGED job /\ \A p \in Orders \ {o} : ens'[p] = ens[p]
      BY <1>9, Shapes, Others DEF EnsurerStepped, Common, Moved
    <2>2. ens[o].pc \in Awake
      BY <1>9, EnsurerKeeps
    <2> DEFINE P == {o}
    <2>3. P \in SUBSET Orders /\ P # {} /\ \A p \in P : ens[p].pc \in Awake
      BY <2>1, <2>2
    <2>4. \A p \in Orders \ P : ens'[p] = ens[p]
      BY <2>1
    <2> HIDE DEF P
    <2> QED
      BY <1>7, <2>1, <2>3, <2>4
  <1> QED
    BY <1>2, <1>3, <1>4, <1>5, <1>6, <1>8, <1>9, NextView DEF AroundStep, JobStep

LEMMA HeldStays == ASSUME TypeOK, env' = env, Kept, HedgesHeld PROVE HedgesHeld'
  <1>1. Orders_' = Orders_ /\ Orders_ \subseteq Orders
    BY LegsKept, Shapes
  <1>2. \A o \in Orders_ : \A n \in DOMAIN tries[o] :
           tries[o][n].fate = "COMPLETE" => n \in DOMAIN tries'[o] /\ tries'[o][n].fate = "COMPLETE"
    BY <1>1 DEF Kept, Final
  <1>3. \A o \in Orders_ : Dropped(o) => Dropped(o)'
    BY <1>1, DroppedStays
  <1> QED
    BY <1>1, <1>2, <1>3 DEF HedgesHeld

\* Hedges that are over and not rejected are bought or dropped.
LEMMA HedgesBought ==
    ASSUME TypeOK, LegInv, OwnInv, SureInv, ~aborted, Answered, Unsliced(HedgeLegs),
           AllOver(HedgeLegs), allOk(HedgeLegs)
    PROVE  HedgesHeld
  <1>1. ASSUME NEW o \in Orders_, LegOf[o] \in Hedges
        PROVE  (\E n \in DOMAIN tries[o] : tries[o][n].fate = "COMPLETE") \/ Dropped(o)
    <2>1. o \in Orders /\ LegOf[o] \in HedgeLegs /\ o \in Slices(LegOf[o])
      BY <1>1, Shapes, LegsActive
    <2>2. ens[o].pc \in Over
      BY <2>1 DEF AllOver
    <2>3. ens[o].pc \notin {"outerThrown", "thrown"}
      BY <2>1 DEF allOk, LegRejected, Unsliced
    <2>4. ens[o].pc = "unsure" => Dropped(o)
      BY <2>1 DEF SureInv, SureOk
    <2>5. ens[o].pc = "done" \/ Dropped(o)
      BY <2>2, <2>3, <2>4 DEF Over
    <2>6. ens[o].pc = "done" =>
          /\ ens[o].at # NoReq /\ At(ens[o].at).fate = "COMPLETE" /\ ens[o].at[1] = o
          /\ ens[o].at \in Requests
      BY <2>1, Shapes DEF LegInv, EnsInv, EnsOk, OwnInv
    <2> QED
      BY <2>5, <2>6, RequestParts DEF At
  <1> QED
    BY <1>1 DEF HedgesHeld

LEMMA HedgedStep ==
    TypeOK /\ LegInv /\ WholeInv /\ Next => HedgedInv'
  <1> SUFFICES ASSUME TypeOK, LegInv, WholeInv, Next PROVE HedgedInv'
    OBVIOUS
  <1> SUFFICES ASSUME env.rollback, Answered, Unsliced(HedgeLegs)
               PROVE  /\ job'.pc = "primaries" => aborted' \/ HedgesHeld'
                      /\ (\E o \in Orders_ : LegOf[o] \notin Hedges /\ tries'[o] # <<>>)
                            => HedgesHeld'
    <2>1. env' = env
      BY NextView
    <2>2. Orders_' = Orders_ /\ (Answered' <=> Answered)
          /\ (Unsliced(HedgeLegs)' <=> Unsliced(HedgeLegs))
      BY <2>1, LegsKept DEF Answered, Unsliced
    <2> QED
      BY <2>1, <2>2 DEF HedgedInv
  <1>0. /\ env' = env /\ HedgedInv /\ Kept
        /\ aborted => aborted'
    <2>1. AroundStep => Kept /\ (aborted => aborted')
      BY AroundView, SameKept
    <2> QED
      BY <2>1, NextView DEF WholeInv, EnsurerStepped, Common, Moved, RowStepped
  <1>1. HedgesHeld => HedgesHeld'
    BY <1>0, HeldStays
  <1>2. job.pc = "primaries" => aborted \/ HedgesHeld
    BY <1>0 DEF HedgedInv
  <1>3. (\E o \in Orders_ : LegOf[o] \notin Hedges /\ tries[o] # <<>>) => HedgesHeld
    BY <1>0 DEF HedgedInv
  <1>4. job'.pc = "primaries" => aborted' \/ HedgesHeld'
    <2>1. CASE Begin
      <3>1. job'.pc = "primaries" => HedgeLegs = {}
        BY <2>1 DEF Begin, TypeOK
      <3>2. HedgeLegs = {} => HedgesHeld
        BY LegsActive DEF HedgesHeld
      <3> QED
        BY <1>1, <3>1, <3>2
    <2>2. CASE HedgesOver
      <3>1. job'.pc = "primaries" => AllOver(HedgeLegs) /\ allOk(HedgeLegs)
        BY <2>2 DEF HedgesOver, TypeOK
      <3>2. AllOver(HedgeLegs) /\ allOk(HedgeLegs) /\ ~aborted => HedgesHeld
        BY HedgesBought DEF WholeInv, HeldInv
      <3> QED
        BY <1>0, <1>1, <3>1, <3>2
    <2>3. CASE PrimariesOver \/ Rollback \/ Crash
      BY <2>3 DEF PrimariesOver, Rollback, Fails, Crash, TypeOK
    <2>4. CASE UNCHANGED job
      BY <1>0, <1>1, <1>2, <2>4
    <2> QED
      BY <2>1, <2>2, <2>3, <2>4, NextView
         DEF AroundStep, JobStep, Abort, OuterCheck, EnsurerStepped, Common, Moved, RowStepped
  <1>5. ASSUME NEW p \in Orders_, LegOf[p] \notin Hedges, tries'[p] # <<>> PROVE HedgesHeld'
    <2>0. p \in Orders /\ tries[p] \in Seq(Try) /\ tries'[p] \in Seq(Try)
      BY <1>0, Shapes DEF TypeOK, Kept
    <2>1. CASE tries[p] # <<>>
      BY <1>1, <1>3, <1>5, <2>1
    <2>2. Len(tries'[p]) = Len(tries[p]) => tries[p] # <<>>
      BY <1>5, <2>0, EmptySeq
    <2>3. CASE AroundStep
      BY <1>5, <2>1, <2>3, AroundView
    <2>4. CASE RowStepped
      BY <2>0, <2>1, <2>2, <2>4 DEF RowStepped, Apart
    <2>5. ASSUME NEW o \in Orders_, NEW v, EnsurerStepped(o, v) PROVE HedgesHeld'
      <3>1. o \in Orders /\ Common(o, v)
        BY <2>5, Shapes DEF EnsurerStepped
      <3>2. CASE p # o
        BY <2>0, <2>1, <2>2, <3>1, <3>2 DEF Common, Apart
      <3>3. CASE p = o /\ Placed(o, v) /\ ~aborted
        <4>1. ens[o].pc \in Awake
          BY <2>5, EnsurerKeeps
        <4>2. job.pc = "primaries"
          BY <1>5, <3>1, <3>3, <4>1, AwakePhase DEF LegInv
        <4> QED
          BY <1>1, <1>2, <3>3, <4>2
      <3>4. CASE p = o /\ ~(Placed(o, v) /\ ~aborted)
        <4>1. UNCHANGED tries \/ \E r, e : Wrote(r, e)
          BY <2>5, <3>4 DEF EnsurerStepped, Checked, Placed, Called, Matched, Polled
        <4>2. Len(tries'[p]) = Len(tries[p])
          BY <2>0, <4>1 DEF Wrote
        <4> QED
          BY <2>1, <2>2, <4>2
      <3> QED
        BY <3>2, <3>3, <3>4
    <2> QED
      BY <2>3, <2>4, <2>5, NextView
  <1> QED
    BY <1>4, <1>5

LEMMA WholeStart == Init => WholeInv
  <1> SUFFICES ASSUME Init PROVE WholeInv
    OBVIOUS
  <1>1. /\ \A o \in Orders : ens[o].pc = "off" /\ ens[o].at = NoReq /\ tries[o] = <<>>
        /\ job.pc = "queued" /\ squared = {}
    BY DEF Init, Off
  <1>2. Orders_ \subseteq Orders
    BY LegAssumption DEF Init, Setting, Orders_
  <1> QED
    BY <1>1, <1>2 DEF WholeInv, HeldInv, OwnInv, SureInv, SureOk, AllOkInv, HedgedInv

LEMMA WholeStep == DistinctOrders /\ TypeOK /\ LegInv /\ WholeInv /\ [Next]_vars => WholeInv'
  <1> SUFFICES ASSUME DistinctOrders, TypeOK, LegInv, WholeInv, [Next]_vars PROVE WholeInv'
    OBVIOUS
  <1>1. CASE Next
    BY <1>1, HeldStep, SureStep, AllOkStep, HedgedStep DEF WholeInv
  <1>2. CASE UNCHANGED vars
    <2>1. UNCHANGED <<job, ens, tries, squared, aborted, crashes, env>>
      BY <1>2 DEF vars
    <2>2. /\ Orders_' = Orders_ /\ HedgeLegs' = HedgeLegs /\ PrimaryLegs' = PrimaryLegs
          /\ \A l : Slices(l)' = Slices(l)
      BY <2>1, LegsKept
    <2>3. \A l : LegRejected(l)' <=> LegRejected(l)
      BY <2>1, <2>2 DEF LegRejected
    <2>4. HeldInv' /\ AllOkInv'
      BY <2>1, <2>2, <2>3 DEF WholeInv, HeldInv, OwnInv, AllOkInv, allOk
    <2>5. \A o : pendingDuplicate(o)' <=> pendingDuplicate(o)
      BY <2>1 DEF pendingDuplicate, Requests, At, Orders_
    <2>6. SureInv'
      BY <2>1, <2>5 DEF WholeInv, SureInv, SureOk, Answered, Dropped, At
    <2>7. HedgedInv'
      BY <2>1, <2>2 DEF WholeInv, HedgedInv, HedgesHeld, Answered, Unsliced, Dropped, At
    <2> QED
      BY <2>4, <2>6, <2>7 DEF WholeInv
  <1> QED
    BY <1>1, <1>2

LEMMA WholeHolds ==
    ASSUME DistinctOrders PROVE Spec => [](TypeOK /\ LegInv /\ WholeInv)
  <1>1. Init => WholeInv
    BY WholeStart
  <1>2. TypeOK /\ LegInv /\ WholeInv /\ [Next]_vars => WholeInv'
    BY WholeStep
  <1> QED
    BY <1>1, <1>2, LegHolds, PTL DEF Spec

LEMMA HeldIsReported == ASSUME TypeOK, LegInv, WholeInv PROVE ReportedIsHeld
  <1>1. ASSUME NEW o \in Orders_, ens[o].pc = "done"
        PROVE  At(ens[o].at).fate = "COMPLETE" /\ ens[o].at[1] = o
    BY <1>1, Shapes DEF LegInv, EnsInv, EnsOk, WholeInv, HeldInv, OwnInv
  <1>2. \A r \in statefulOrders(ActiveLegs) : At(r).fate = "COMPLETE" /\ r \notin squared
    <2>1. ASSUME NEW r \in statefulOrders(ActiveLegs)
          PROVE  \E o \in Orders_ : r = ens[o].at /\ ens[o].pc = "done"
      BY LegsActive DEF statefulOrders, LegDone
    <2> QED
      BY <1>1, <2>1 DEF WholeInv, HeldInv
  <1> QED
    BY <1>1, <1>2 DEF ReportedIsHeld

LEMMA WholeIsCompleted == ASSUME TypeOK, LegInv, WholeInv PROVE CompletedIsWhole
  <1> SUFFICES ASSUME job.pc = "completed", env.rollback, Answered, Unsliced(ActiveLegs), ~aborted,
                      NEW l \in ActiveLegs, NEW o \in Slices(l)
               PROVE  ens[o].pc = "done" \/ Dropped(o)
    BY DEF CompletedIsWhole, LegDone
  <1>1. o \in Orders_ /\ o \in Orders /\ LegOf[o] = l
    BY Shapes DEF Slices
  <1>2. ens[o].pc \in Over
    BY <1>1 DEF LegInv, PhaseInv, PhaseOk
  <1>3. ens[o].pc \notin {"outerThrown", "thrown"}
    <2>1. l \in HedgeLegs \/ l \in PrimaryLegs
      BY DEF HedgeLegs, PrimaryLegs
    <2>2. ~LegRejected(l)
      BY <2>1 DEF WholeInv, AllOkInv, allOk
    <2> QED
      BY <2>2 DEF LegRejected, Unsliced
  <1>4. ens[o].pc = "unsure" => Dropped(o)
    BY <1>1 DEF WholeInv, SureInv, SureOk
  <1> QED
    BY <1>2, <1>3, <1>4 DEF Over

LEMMA HedgedIsShort == ASSUME TypeOK, LegInv, WholeInv PROVE ShortIsHedged
  <1> SUFFICES ASSUME env.rollback, Answered, Unsliced(HedgeLegs),
                      NEW r \in Requests, LegOf[r[1]] \in PrimaryLegs,
                      NEW o \in Orders_, LegOf[o] \in HedgeLegs
               PROVE  (\E n \in DOMAIN tries[o] : At(<<o, n>>).fate = "COMPLETE") \/ Dropped(o)
    BY DEF ShortIsHedged
  <1>1. r[1] \in Orders_ /\ r[2] \in DOMAIN tries[r[1]] /\ LegOf[r[1]] \notin Hedges
    BY RequestParts DEF PrimaryLegs
  <1>2. tries[r[1]] # <<>>
    <2>1. DOMAIN <<>> = {}
      BY EmptySeq
    <2> QED
      BY <1>1, <2>1
  <1>3. HedgesHeld
    BY <1>1, <1>2 DEF WholeInv, HedgedInv
  <1> QED
    BY <1>3 DEF HedgesHeld, HedgeLegs, At

\* What a completed entry hands to its exits is held: every reported request was
\* executed, no earlier rollback squared it off, and it stands for one order.
THEOREM ReportedIsHeldHolds == DistinctOrders => (Spec => []ReportedIsHeld)
  <1> SUFFICES ASSUME DistinctOrders PROVE Spec => []ReportedIsHeld
    OBVIOUS
  <1>1. TypeOK /\ LegInv /\ WholeInv => ReportedIsHeld
    BY HeldIsReported
  <1> QED
    BY <1>1, WholeHolds, PTL

\* An answered entry without slices that nobody aborts completes with every leg
\* executed but those the broker refused with a type the ensurer has no branch
\* for: any other broken leg, of this attempt or of one before a restart, stops it.
THEOREM CompletedIsWholeHolds == DistinctOrders => (Spec => []CompletedIsWhole)
  <1> SUFFICES ASSUME DistinctOrders PROVE Spec => []CompletedIsWhole
    OBVIOUS
  <1>1. TypeOK /\ LegInv /\ WholeInv => CompletedIsWhole
    BY WholeIsCompleted
  <1> QED
    BY <1>1, WholeHolds, PTL

\* With every order answered, no primary leaves before every hedge is bought,
\* whatever attempt of the job bought it, but for a hedge the broker refused with
\* a type the ensurer has no branch for.
THEOREM ShortIsHedgedHolds == DistinctOrders => (Spec => []ShortIsHedged)
  <1> SUFFICES ASSUME DistinctOrders PROVE Spec => []ShortIsHedged
    OBVIOUS
  <1>1. TypeOK /\ LegInv /\ WholeInv => ShortIsHedged
    BY HedgedIsShort
  <1> QED
    BY <1>1, WholeHolds, PTL

=============================================================================
