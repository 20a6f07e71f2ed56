---------------------------- MODULE ExitsProofs -----------------------------
(***************************************************************************)
(* Theorems about Exits, for every set of jobs, every mix of stops,        *)
(* watchers, auto square-offs and calls of the operator, and every number  *)
(* of refused requests.                                                    *)
(***************************************************************************)
EXTENDS Exits, FiniteSetTheorems, TLAPS

-----------------------------------------------------------------------------
(***************************************************************************)
(* Type correctness                                                        *)
(***************************************************************************)

\* What a setting is, spelled out for the provers.
LEMMA EnvType ==
    ASSUME TypeOK
    PROVE  /\ env \in Setting
           /\ env.jobs \subseteq Jobs
           /\ {env.stops, env.aso, env.target, env.kill, env.calm} \subseteq BOOLEAN
           /\ env.flattens \in Nat
  BY ExitsAssumption DEF TypeOK, Setting

\* Sizes are the sizes a short position of these jobs can have.
LEMMA SizesType == Cardinality(Jobs) \in Nat /\ Sizes \subseteq Nat \ {0}
  BY ExitsAssumption, FS_CardinalityType DEF Sizes

LEMMA HeldType == ASSUME TypeOK, NEW j \in Jobs PROVE Held(j) \in Int
  BY DEF Held, Filled

LEMMA IdleOpType == ASSUME NEW n \in Nat PROVE IdleOp(n) \in Op
  BY DEF IdleOp, Op

LEMMA TypeInit == Init => TypeOK
  <1> SUFFICES ASSUME Init PROVE TypeOK
    OBVIOUS
  <1>1. env.flattens \in Nat
    BY ExitsAssumption DEF Init, Setting
  <1>2. op \in Op
    BY <1>1, IdleOpType DEF Init
  <1>3. job \in [Jobs -> Job]
    BY DEF Init, Job
  <1>4. refusals \in 0..MaxRefusals /\ env \in Settings /\ net \in Int
    BY ExitsAssumption DEF Init
  <1>5. exit \in [Jobs -> KeyStates] /\ flat \in [Sizes -> KeyStates]
    BY DEF Init, KeyStates
  <1>6. again \in [Jobs -> [Senders -> KeyStates]]
        /\ resent \in [Sizes -> [sent: Nat, done: Nat]]
    BY DEF Init, KeyStates
  <1>7. aso \in [Jobs -> ExitPCs] /\ watch \in [Jobs -> ExitPCs] /\ attempt \in [Jobs -> Nat]
    BY DEF Init, ExitPCs
  <1> QED
    BY <1>2, <1>3, <1>4, <1>5, <1>6, <1>7 DEF Init, TypeOK

\* The entry, the stop and the ledger row of one job.
LEMMA TypeEntryStep ==
    ASSUME TypeOK, NEW j \in Jobs, UNCHANGED env,
           CheckEntry(j) \/ Entered(j) \/ PlaceStop(j) \/ StopTriggers(j) \/ BookFills(j)
    PROVE  TypeOK'
  <1>1. job[j] \in Job
    BY DEF TypeOK
  <1>2. ASSUME NEW rec \in Job, SetJob(j, rec) PROVE job' \in [Jobs -> Job]
    BY <1>2 DEF SetJob, TypeOK
  <1>3. CASE CheckEntry(j)
    <2>1. [job[j] EXCEPT !.entry = IF halted \/ job[j].aborted THEN "refused" ELSE "checked"]
              \in Job
      BY <1>1 DEF Job
    <2> QED
      BY <1>2, <1>3, <2>1 DEF CheckEntry, TypeOK
  <1>4. CASE Entered(j)
    <2>1. [job[j] EXCEPT !.entry = "in"] \in Job
      BY <1>1 DEF Job
    <2> QED
      BY <1>2, <1>4, <2>1 DEF Entered, TypeOK
  <1>5. CASE PlaceStop(j)
    <2>1. [job[j] EXCEPT !.stop = "pending"] \in Job
      BY <1>1 DEF Job
    <2> QED
      BY <1>2, <1>5, <2>1 DEF PlaceStop, TypeOK
  <1>6. CASE StopTriggers(j)
    <2>1. [job[j] EXCEPT !.stop = "done"] \in Job
      BY <1>1 DEF Job
    <2> QED
      BY <1>2, <1>6, <2>1 DEF StopTriggers, TypeOK
  <1>7. CASE BookFills(j)
    <2>1. [job[j] EXCEPT !.row = Held(j)] \in Job
      BY <1>1, <1>7 DEF BookFills, Job
    <2> QED
      BY <1>2, <1>7, <2>1 DEF BookFills, TypeOK
  <1> QED
    BY <1>3, <1>4, <1>5, <1>6, <1>7

\* What an exit does to the stop of its job.
LEMMA CancelOwnAt ==
    ASSUME TypeOK, NEW j \in Jobs, CancelOwn(j), NEW k \in Jobs
    PROVE  job'[k] = IF k = j /\ job[k].stop = "pending"
                     THEN [job[k] EXCEPT !.stop = "cancelled"] ELSE job[k]
  BY DEF CancelOwn, OwnStops, PendingStops

\* One order under a key of its own moves on.
LEMMA AgainAt ==
    ASSUME TypeOK, NEW j \in Jobs, NEW a \in Senders, NEW state \in KeyStates,
           again' = [again EXCEPT ![j][a] = state]
    PROVE  /\ again' \in [Jobs -> [Senders -> KeyStates]]
           /\ \A k \in Jobs, b \in Senders :
                 again'[k][b] = IF k = j /\ b = a THEN state ELSE again[k][b]
  <1>1. again \in [Jobs -> [Senders -> KeyStates]] /\ again[j] \in [Senders -> KeyStates]
    BY DEF TypeOK
  <1>2. [again[j] EXCEPT ![a] = state] \in [Senders -> KeyStates]
    BY <1>1
  <1>3. again' = [again EXCEPT ![j] = [again[j] EXCEPT ![a] = state]]
    BY <1>1
  <1>4. again' \in [Jobs -> [Senders -> KeyStates]]
    BY <1>1, <1>2, <1>3
  <1> QED
    BY <1>1, <1>3, <1>4

\* What placing an exit does to the orders of its job.
LEMMA PlaceAt ==
    ASSUME TypeOK, NEW j \in Jobs, NEW a \in Senders, Place(j, a)
    PROVE  /\ exit' \in [Jobs -> KeyStates] /\ again' \in [Jobs -> [Senders -> KeyStates]]
           /\ \A k \in Jobs :
                 exit'[k] = IF k = j /\ exit[k] = "none" THEN "sent" ELSE exit[k]
           /\ \A k \in Jobs, b \in Senders :
                 again'[k][b] = IF k = j /\ b = a /\ exit[k] = "FAILED" THEN "sent"
                                ELSE again[k][b]
  <1>0. /\ exit \in [Jobs -> KeyStates] /\ again \in [Jobs -> [Senders -> KeyStates]]
        /\ "sent" \in KeyStates
    BY DEF TypeOK, KeyStates
  <1>1. CASE exit[j] = "FAILED"
    BY <1>0, <1>1, AgainAt DEF Place
  <1>2. CASE exit[j] # "FAILED"
    BY <1>0, <1>2 DEF Place, PlaceKey
  <1> QED
    BY <1>1, <1>2

LEMMA TypeExitStep ==
    ASSUME TypeOK, NEW j \in Jobs, UNCHANGED env, AsoStep(j) \/ WatchStep(j)
    PROVE  TypeOK'
  <1>1. ASSUME CancelOwn(j) PROVE job' \in [Jobs -> Job]
    <2>1. \A k \in Jobs : job[k] \in Job /\ [job[k] EXCEPT !.stop = "cancelled"] \in Job
      BY DEF TypeOK, Job
    <2> QED
      BY <1>1, <2>1 DEF CancelOwn
  <1>2. CASE AsoStart(j) \/ AsoBook(j) \/ AsoNet(j)
    BY <1>2 DEF AsoStart, AsoBook, AsoNet, TypeOK, ExitPCs
  <1>3. CASE WatchBreach(j) \/ WatchBook(j) \/ WatchNet(j)
    BY <1>3 DEF WatchBreach, WatchBook, WatchNet, TypeOK, ExitPCs
  <1>4. CASE AsoCancel(j) \/ WatchCancel(j)
    <2>1. job' \in [Jobs -> Job]
      BY <1>1, <1>4 DEF AsoCancel, WatchCancel
    <2> QED
      BY <1>4, <2>1 DEF AsoCancel, WatchCancel, TypeOK, ExitPCs
  <1>5. CASE AsoPlace(j) \/ WatchPlace(j)
    <2>1. exit' \in [Jobs -> KeyStates] /\ again' \in [Jobs -> [Senders -> KeyStates]]
      BY <1>5, PlaceAt DEF AsoPlace, WatchPlace, Senders, TypeOK
    <2> QED
      BY <1>5, <2>1 DEF AsoPlace, WatchPlace, TypeOK, ExitPCs
  <1>6. CASE AsoPoll(j)
    <2>0. attempt \in [Jobs -> Nat] /\ attempt[j] + 1 \in Nat /\ aso \in [Jobs -> ExitPCs]
      BY DEF TypeOK
    <2>1. attempt' \in [Jobs -> Nat]
      BY <1>6, <2>0 DEF AsoPoll
    <2>2. \E pc \in {"over", "place", "refused"} : aso' = [aso EXCEPT ![j] = pc]
      BY <1>6 DEF AsoPoll
    <2>3. aso' \in [Jobs -> ExitPCs]
      BY <2>0, <2>2 DEF ExitPCs
    <2> QED
      BY <1>6, <2>1, <2>3 DEF AsoPoll, TypeOK
  <1> QED
    BY <1>2, <1>3, <1>4, <1>5, <1>6 DEF AsoStep, WatchStep

LEMMA TypeOpStep ==
    ASSUME TypeOK, UNCHANGED env, OpStart \/ OpStep
    PROVE  TypeOK'
  <1>0. op \in Op /\ net \in Int
    BY DEF TypeOK
  <1>1. CASE OpStart
    <2> DEFINE open == {j \in Jobs : job[j].row # 0}
    <2>1. op.left - 1 \in Nat
      BY <1>0, <1>1 DEF OpStart, Op
    <2>2. open \in SUBSET Jobs
      OBVIOUS
    <2>3. op' = [IdleOp(op.left - 1) EXCEPT !.pc = "net", !.rows = open, !.had = open]
      BY <1>1 DEF OpStart
    <2> HIDE DEF open
    <2>4. op' \in Op
      BY <2>1, <2>2, <2>3 DEF IdleOp, Op
    <2> QED
      BY <1>1, <2>4 DEF OpStart, TypeOK
  <1>2. CASE OpNet
    <2>1. ASSUME NEW j \in op.rows, net < 0
          PROVE  [op EXCEPT !.pc = "cancel", !.rows = op.rows \ {j}, !.at = {j}, !.qty = -net] \in Op
      <3>1. -net \in Nat /\ {j} \in SUBSET Jobs /\ op.rows \ {j} \in SUBSET Jobs
        BY <1>0, <2>1 DEF Op
      <3> QED
        BY <1>0, <3>1 DEF Op
    <2>2. ASSUME NEW j \in op.rows PROVE [op EXCEPT !.rows = op.rows \ {j}] \in Op
      BY <1>0 DEF Op
    <2>3. [op EXCEPT !.pc = "abort"] \in Op
      BY <1>0 DEF Op
    <2>4. op' \in Op
      BY <1>2, <2>1, <2>2, <2>3 DEF OpNet
    <2> QED
      BY <1>2, <2>4 DEF OpNet, TypeOK
  <1>3. CASE OpCancel
    <2>1. op' \in Op
      BY <1>0, <1>3 DEF OpCancel, Op
    <2>2. ASSUME NEW k \in Jobs, SetJob(k, [job[k] EXCEPT !.stop = "cancelled"])
          PROVE  job' \in [Jobs -> Job]
      BY <2>2 DEF SetJob, TypeOK, Job
    <2>3. job' \in [Jobs -> Job]
      BY <1>3, <2>2 DEF OpCancel, PendingStops, TypeOK
    <2> QED
      BY <1>3, <2>1, <2>3 DEF OpCancel, TypeOK
  <1>4. CASE OpPlace
    <2>0. op.jobs \cup op.at \in SUBSET Jobs
      BY <1>0 DEF Op
    <2>1. op' \in Op
      <3>1. [op EXCEPT !.pc = "net", !.at = {}, !.qty = 0, !.jobs = op.jobs \cup op.at] \in Op
        BY <1>0, <2>0 DEF Op
      <3>2. [op EXCEPT !.pc = "net", !.at = {}, !.qty = 0] \in Op
        BY <1>0 DEF Op
      <3> QED
        BY <1>4, <3>1, <3>2 DEF OpPlace
    <2>2. /\ flat' \in [Sizes -> KeyStates]
          /\ resent' \in [Sizes -> [sent: Nat, done: Nat]]
      <3>1. flat' \in [Sizes -> KeyStates]
        BY <1>4 DEF OpPlace, PlaceKey, TypeOK, KeyStates
      <3>2. resent \in [Sizes -> [sent: Nat, done: Nat]]
        BY DEF TypeOK
      <3>3. \A n \in Sizes : [resent[n] EXCEPT !.sent = resent[n].sent + 1] \in [sent: Nat, done: Nat]
        BY <3>2
      <3>4. ASSUME resent' = [resent EXCEPT ![op.qty].sent = @ + 1]
            PROVE  resent' \in [Sizes -> [sent: Nat, done: Nat]]
        <4>1. CASE op.qty \in Sizes
          <5>1. resent' = [resent EXCEPT ![op.qty] =
                             [resent[op.qty] EXCEPT !.sent = resent[op.qty].sent + 1]]
            BY <3>2, <3>4, <4>1
          <5> QED
            BY <3>2, <3>3, <4>1, <5>1
        <4>2. CASE op.qty \notin Sizes
          BY <3>2, <3>4, <4>2
        <4> QED
          BY <4>1, <4>2
      <3> QED
        BY <1>4, <3>1, <3>2, <3>4 DEF OpPlace
    <2>3. refusals' \in 0..MaxRefusals
      BY <1>4, ExitsAssumption DEF OpPlace, TypeOK
    <2> QED
      BY <1>4, <2>1, <2>2, <2>3 DEF OpPlace, TypeOK
  <1>5. CASE OpAbort
    <2>1. op' \in Op
      BY <1>0, <1>5 DEF OpAbort, Op
    <2> DEFINE ended == IF env.kill THEN Jobs ELSE {j \in op.jobs : job[j].row = 0}
    <2>2. job' = [j \in Jobs |-> [job[j] EXCEPT !.aborted = @ \/ j \in ended]]
      BY <1>5 DEF OpAbort
    <2> HIDE DEF ended
    <2>3. \A j \in Jobs : [job[j] EXCEPT !.aborted = job[j].aborted \/ j \in ended] \in Job
      BY DEF TypeOK, Job
    <2>4. job' \in [Jobs -> Job]
      BY <2>2, <2>3
    <2> QED
      BY <1>5, <2>1, <2>4 DEF OpAbort, TypeOK
  <1>6. CASE OpHalt
    <2>1. op' \in Op
      BY <1>0, <1>6 DEF OpHalt, Op
    <2> QED
      BY <1>6, <2>1 DEF OpHalt, TypeOK
  <1> QED
    BY <1>1, <1>2, <1>3, <1>4, <1>5, <1>6 DEF OpStep

LEMMA TypeStep == TypeOK /\ [Next]_vars => TypeOK'
  <1> SUFFICES ASSUME TypeOK, [Next]_vars PROVE TypeOK'
    OBVIOUS
  <1>1. CASE UNCHANGED vars
    BY <1>1 DEF vars, TypeOK
  <1>2. ASSUME NEW j \in Jobs, UNCHANGED env, ExitFills(j) \/ ExitRefused(j) PROVE TypeOK'
    <2>0. /\ exit \in [Jobs -> KeyStates] /\ again \in [Jobs -> [Senders -> KeyStates]]
          /\ {"done", "FAILED"} \subseteq KeyStates
      BY DEF TypeOK, KeyStates
    <2>1. exit' \in [Jobs -> KeyStates] /\ again' \in [Jobs -> [Senders -> KeyStates]]
      BY <1>2, <2>0, AgainAt DEF ExitFills, ExitRefused
    <2> QED
      BY <1>2, <2>1, ExitsAssumption DEF ExitFills, ExitRefused, TypeOK
  <1>3. ASSUME NEW n \in Sizes, UNCHANGED env, FlatFills(n) PROVE TypeOK'
    <2>1. resent \in [Sizes -> [sent: Nat, done: Nat]] /\ n \in Nat /\ net \in Int
      BY SizesType DEF TypeOK
    <2>2. [resent[n] EXCEPT !.done = resent[n].done + 1] \in [sent: Nat, done: Nat]
      BY <2>1
    <2>3. CASE resent' = [resent EXCEPT ![n].done = @ + 1]
      <3>1. resent' = [resent EXCEPT ![n] = [resent[n] EXCEPT !.done = resent[n].done + 1]]
        BY <2>1, <2>3
      <3>2. resent' \in [Sizes -> [sent: Nat, done: Nat]]
        BY <2>1, <2>2, <3>1
      <3> QED
        BY <1>3, <2>1, <3>2 DEF FlatFills, TypeOK, KeyStates
    <2>4. CASE UNCHANGED resent
      BY <1>3, <2>1, <2>4 DEF FlatFills, TypeOK, KeyStates
    <2> QED
      BY <1>3, <2>3, <2>4 DEF FlatFills
  <1> QED
    BY <1>1, <1>2, <1>3, EnvType, TypeEntryStep, TypeExitStep, TypeOpStep DEF Next

\* The orders, the rows and what each exit holds stay well formed, whatever
\* races with what.
THEOREM TypeCorrect == Spec => []TypeOK
  BY TypeInit, TypeStep, PTL DEF Spec

-----------------------------------------------------------------------------
(***************************************************************************)
(* The stop of a job and its exits                                         *)
(***************************************************************************)

\* A job has a stop or a booked row only after its entry was executed, and only
\* the jobs of the day have an entry.
EntryFirst(k) ==
    /\ job[k].stop # "none" \/ job[k].row # 0 => In(k)
    /\ In(k) \/ job[k].entry = "checked" => k \in env.jobs

\* An exit of a job begins after its stop was placed.
StopFirst(k) ==
    /\ aso[k] # "wait" \/ watch[k] # "wait" \/ exit[k] # "none" => Armed(k)
    /\ job[k].stop # "none" => env.stops
    /\ aso[k] # "wait" => env.aso

\* Once an exit of the job has read the book and gone on, the stop is not
\* pending any more, and no new one is placed.
StopGone(k) ==
    aso[k] \in {"net", "place", "poll"} \/ watch[k] \in {"net", "place"} \/ exit[k] # "none"
        => job[k].stop # "pending"

StopInv == \A k \in Jobs : EntryFirst(k) /\ StopFirst(k) /\ StopGone(k)

LEMMA StopInit == Init => StopInv
  BY DEF Init, StopInv, EntryFirst, StopFirst, StopGone, In, Armed

\* Steps of the entry, the stop and the row of job j.
LEMMA StopEntryStep ==
    ASSUME TypeOK, StopInv, NEW j \in env.jobs, UNCHANGED env,
           CheckEntry(j) \/ Entered(j) \/ PlaceStop(j) \/ StopTriggers(j) \/ BookFills(j)
    PROVE  StopInv'
  <1>0. j \in Jobs /\ job \in [Jobs -> Job]
    BY EnvType DEF TypeOK
  <1>1. SUFFICES ASSUME NEW k \in Jobs
                 PROVE  (EntryFirst(k) /\ StopFirst(k) /\ StopGone(k))'
    BY DEF StopInv
  <1>2. EntryFirst(k) /\ StopFirst(k) /\ StopGone(k)
    BY DEF StopInv
  <1>3. CASE CheckEntry(j)
    BY <1>0, <1>2, <1>3 DEF CheckEntry, SetJob, Job, EntryFirst, StopFirst, StopGone, In, Armed
  <1>4. CASE Entered(j)
    BY <1>0, <1>2, <1>4 DEF Entered, SetJob, Job, EntryFirst, StopFirst, StopGone, In, Armed
  <1>5. CASE PlaceStop(j)
    BY <1>0, <1>2, <1>5 DEF PlaceStop, SetJob, Job, EntryFirst, StopFirst, StopGone, In, Armed
  <1>6. CASE StopTriggers(j)
    BY <1>0, <1>2, <1>6 DEF StopTriggers, SetJob, Job, EntryFirst, StopFirst, StopGone, In, Armed
  <1>7. CASE BookFills(j)
    <2>1. Held(j) # 0 => In(j)
      BY <1>0, <1>7 DEF BookFills, Held, Filled
    <2> QED
      BY <1>0, <1>2, <1>7, <2>1
      DEF BookFills, SetJob, Job, EntryFirst, StopFirst, StopGone, In, Armed
  <1> QED
    BY <1>3, <1>4, <1>5, <1>6, <1>7

\* Steps of the exits of job j.
LEMMA StopExitStep ==
    ASSUME TypeOK, StopInv, NEW j \in env.jobs, UNCHANGED env, AsoStep(j) \/ WatchStep(j)
    PROVE  StopInv'
  <1>0. j \in Jobs /\ job \in [Jobs -> Job] /\ aso \in [Jobs -> ExitPCs]
        /\ watch \in [Jobs -> ExitPCs] /\ exit \in [Jobs -> KeyStates]
    BY EnvType DEF TypeOK
  <1>1. SUFFICES ASSUME NEW k \in Jobs
                 PROVE  (EntryFirst(k) /\ StopFirst(k) /\ StopGone(k))'
    BY DEF StopInv
  <1>2. EntryFirst(k) /\ StopFirst(k) /\ StopGone(k)
    BY DEF StopInv
  <1>3. k \in OwnStops(j) <=> k = j /\ job[k].stop = "pending"
    BY <1>0 DEF OwnStops, PendingStops
  <1>4. OwnStops(j) # {} <=> job[j].stop = "pending"
    BY <1>0 DEF OwnStops, PendingStops
  <1>5. CASE AsoStart(j) \/ WatchBreach(j)
    BY <1>0, <1>2, <1>5
    DEF AsoStart, WatchBreach, EntryFirst, StopFirst, StopGone, In, Armed
  <1>6. CASE AsoBook(j) \/ WatchBook(j)
    BY <1>0, <1>2, <1>4, <1>6
    DEF AsoBook, WatchBook, EntryFirst, StopFirst, StopGone, In, Armed
  <1>7. CASE AsoCancel(j) \/ WatchCancel(j)
    <2>1. job'[k] = IF k = j /\ job[k].stop = "pending"
                    THEN [job[k] EXCEPT !.stop = "cancelled"] ELSE job[k]
      BY <1>0, <1>7, CancelOwnAt DEF AsoCancel, WatchCancel
    <2>2. /\ job'[k].entry = job[k].entry /\ job'[k].row = job[k].row
          /\ job'[k].stop = IF k = j /\ job[k].stop = "pending" THEN "cancelled" ELSE job[k].stop
      BY <1>0, <2>1 DEF Job
    <2> QED
      BY <1>0, <1>2, <1>4, <1>7, <2>2
      DEF AsoCancel, WatchCancel, EntryFirst, StopFirst, StopGone, In, Armed
  <1>8. CASE AsoNet(j) \/ WatchNet(j)
    BY <1>0, <1>2, <1>8 DEF AsoNet, WatchNet, EntryFirst, StopFirst, StopGone, In, Armed
  <1>9. CASE AsoPlace(j) \/ WatchPlace(j)
    <2>1. exit'[k] = exit[k] \/ (k = j /\ exit'[k] = "sent")
      BY <1>0, <1>9, PlaceAt DEF AsoPlace, WatchPlace, Senders
    <2> QED
      BY <1>0, <1>2, <1>9, <2>1
      DEF AsoPlace, WatchPlace, EntryFirst, StopFirst, StopGone, In, Armed
  <1>10. CASE AsoPoll(j)
    BY <1>0, <1>2, <1>10 DEF AsoPoll, EntryFirst, StopFirst, StopGone, In, Armed
  <1> QED
    BY <1>5, <1>6, <1>7, <1>8, <1>9, <1>10 DEF AsoStep, WatchStep

\* What a step of the operator changes of a job: a pending stop is cancelled, or
\* the job is aborted.
LEMMA OpJob ==
    ASSUME TypeOK, OpStart \/ OpStep, NEW k \in Jobs
    PROVE  /\ job'[k].entry = job[k].entry /\ job'[k].row = job[k].row
           /\ \/ job'[k].stop = job[k].stop
              \/ OpCancel /\ job[k].stop = "pending" /\ job'[k].stop = "cancelled"
  <1>0. job \in [Jobs -> Job]
    BY DEF TypeOK
  <1>1. CASE OpStart \/ OpNet \/ OpPlace \/ OpHalt
    BY <1>1 DEF OpStart, OpNet, OpPlace, OpHalt
  <1>2. CASE OpCancel
    BY <1>0, <1>2 DEF OpCancel, PendingStops, SetJob, Job
  <1>3. CASE OpAbort
    <2> DEFINE ended == IF env.kill THEN Jobs ELSE {j \in op.jobs : job[j].row = 0}
    <2>1. job' = [j \in Jobs |-> [job[j] EXCEPT !.aborted = @ \/ j \in ended]]
      BY <1>3 DEF OpAbort
    <2> HIDE DEF ended
    <2> QED
      BY <1>0, <2>1 DEF Job
  <1> QED
    BY <1>1, <1>2, <1>3 DEF OpStep

LEMMA StopOpStep ==
    ASSUME TypeOK, StopInv, UNCHANGED env, OpStart \/ OpStep
    PROVE  StopInv'
  <1>1. SUFFICES ASSUME NEW k \in Jobs
                 PROVE  (EntryFirst(k) /\ StopFirst(k) /\ StopGone(k))'
    BY DEF StopInv
  <1>2. EntryFirst(k) /\ StopFirst(k) /\ StopGone(k)
    BY DEF StopInv
  <1>3. UNCHANGED <<exit, aso, watch>>
    BY DEF OpStart, OpStep, OpNet, OpCancel, OpPlace, OpAbort, OpHalt
  <1> QED
    BY <1>2, <1>3, OpJob DEF EntryFirst, StopFirst, StopGone, In, Armed

LEMMA StopStep == TypeOK /\ StopInv /\ [Next]_vars => StopInv'
  <1> SUFFICES ASSUME TypeOK, StopInv, [Next]_vars PROVE StopInv'
    OBVIOUS
  <1>1. CASE UNCHANGED vars
    BY <1>1 DEF vars, StopInv, EntryFirst, StopFirst, StopGone, In, Armed
  <1>2. ASSUME NEW j \in env.jobs, UNCHANGED env, ExitFills(j) \/ ExitRefused(j)
        PROVE  StopInv'
    <2>1. j \in Jobs /\ exit \in [Jobs -> KeyStates]
      BY EnvType DEF TypeOK
    <2> QED
      BY <1>2, <2>1
      DEF ExitFills, ExitRefused, StopInv, EntryFirst, StopFirst, StopGone, In, Armed
  <1>3. ASSUME NEW n \in Sizes, UNCHANGED env, FlatFills(n) PROVE StopInv'
    BY <1>3 DEF FlatFills, StopInv, EntryFirst, StopFirst, StopGone, In, Armed
  <1> QED
    BY <1>1, <1>2, <1>3, StopEntryStep, StopExitStep, StopOpStep DEF Next

\* Orders under keys of their own come after a refusal under the intent key,
\* and auto square-off places only while it has none that could be executed.
OwnKeys(k) ==
    /\ \A a \in Senders : again[k][a] # "none" => exit[k] = "FAILED"
    /\ again[k]["aso"] # "none" => aso[k] \in {"place", "poll", "refused", "over"}
    /\ aso[k] = "place" => again[k]["aso"] \in {"none", "FAILED"}

KeyInv == \A k \in Jobs : OwnKeys(k)

LEMMA KeyInit == Init => KeyInv
  BY DEF Init, KeyInv, OwnKeys, Senders

\* Steps of the exits of a job.
LEMMA KeyExitStep ==
    ASSUME TypeOK, KeyInv, NEW j \in Jobs, AsoStep(j) \/ WatchStep(j)
    PROVE  KeyInv'
  <1>0. /\ aso \in [Jobs -> ExitPCs] /\ exit \in [Jobs -> KeyStates]
        /\ again \in [Jobs -> [Senders -> KeyStates]]
    BY DEF TypeOK
  <1>1. SUFFICES ASSUME NEW k \in Jobs PROVE OwnKeys(k)'
    BY DEF KeyInv
  <1>2. OwnKeys(k)
    BY DEF KeyInv
  <1>3. CASE AsoStart(j) \/ AsoBook(j) \/ AsoCancel(j) \/ AsoNet(j)
    BY <1>0, <1>2, <1>3 DEF AsoStart, AsoBook, AsoCancel, AsoNet, OwnKeys
  <1>4. CASE WatchBreach(j) \/ WatchBook(j) \/ WatchCancel(j) \/ WatchNet(j)
    BY <1>2, <1>4 DEF WatchBreach, WatchBook, WatchCancel, WatchNet, OwnKeys
  <1>5. CASE AsoPlace(j) \/ WatchPlace(j)
    <2>1. CASE UNCHANGED <<exit, again>>
      BY <1>0, <1>2, <1>5, <2>1 DEF AsoPlace, WatchPlace, OwnKeys
    <2>2. CASE AsoPlace(j) /\ Place(j, "aso")
      BY <1>0, <1>2, <2>2, PlaceAt DEF AsoPlace, OwnKeys, Senders
    <2>3. CASE WatchPlace(j) /\ Place(j, "watch")
      BY <1>0, <1>2, <2>3, PlaceAt DEF WatchPlace, OwnKeys, Senders
    <2> QED
      BY <1>5, <2>1, <2>2, <2>3 DEF AsoPlace, WatchPlace
  <1>6. CASE AsoPoll(j)
    BY <1>0, <1>2, <1>6 DEF AsoPoll, Mine, OwnKeys, Senders, KeyStates
  <1> QED
    BY <1>3, <1>4, <1>5, <1>6 DEF AsoStep, WatchStep

LEMMA KeyStep == TypeOK /\ KeyInv /\ [Next]_vars => KeyInv'
  <1> SUFFICES ASSUME TypeOK, KeyInv, [Next]_vars PROVE KeyInv'
    OBVIOUS
  <1>1. ASSUME UNCHANGED <<exit, again, aso>> PROVE KeyInv'
    BY <1>1 DEF KeyInv, OwnKeys
  <1>2. ASSUME NEW j \in Jobs, ExitFills(j) \/ ExitRefused(j) PROVE KeyInv'
    <2>1. /\ exit \in [Jobs -> KeyStates] /\ again \in [Jobs -> [Senders -> KeyStates]]
      BY DEF TypeOK
    <2> QED
      BY <1>2, <2>1 DEF ExitFills, ExitRefused, KeyInv, OwnKeys, Senders
  <1>3. ASSUME NEW j \in Jobs, CheckEntry(j) \/ Entered(j) \/ PlaceStop(j)
                               \/ StopTriggers(j) \/ BookFills(j)
        PROVE  KeyInv'
    BY <1>1, <1>3 DEF CheckEntry, Entered, PlaceStop, StopTriggers, BookFills
  <1>4. ASSUME OpStart \/ OpStep \/ \E n \in Sizes : FlatFills(n) PROVE KeyInv'
    BY <1>1, <1>4
    DEF OpStart, OpStep, OpNet, OpCancel, OpPlace, OpAbort, OpHalt, FlatFills
  <1>5. CASE UNCHANGED vars
    BY <1>1, <1>5 DEF vars
  <1> QED
    BY <1>2, <1>3, <1>4, <1>5, KeyExitStep, EnvType DEF Next

\* A job that an exit has closed has no stop left at the broker: every exit has
\* cancelled or missed it before it sends, and no stop is placed afterwards.
THEOREM NoStopLeftHolds == Spec => []NoStopLeft
  <1>1. StopInv /\ KeyInv => NoStopLeft
    BY DEF StopInv, StopGone, KeyInv, OwnKeys, Senders, NoStopLeft
  <1> QED
    BY <1>1, TypeInit, TypeStep, StopInit, StopStep, KeyInit, KeyStep, PTL DEF Spec

\* The exits of a job cancel the stop of that job and of no other; a flatten
\* cancels whichever stop of the contract it meets.
THEOREM OwnStopsOnlyHolds == Spec => OwnStopsOnly
  <1>1. TypeOK /\ [Next]_vars =>
            [\A k \in Jobs : job[k].stop = "pending" /\ job'[k].stop = "cancelled" =>
                \/ "cancel" \in {aso[k], watch[k]}
                \/ op.pc = "cancel"]_vars
    <2> SUFFICES ASSUME TypeOK, [Next]_vars, NEW k \in Jobs,
                        job[k].stop = "pending", job'[k].stop = "cancelled"
                 PROVE  "cancel" \in {aso[k], watch[k]} \/ op.pc = "cancel"
      OBVIOUS
    <2>0. job \in [Jobs -> Job]
      BY DEF TypeOK
    <2>1. CASE UNCHANGED vars
      BY <2>1 DEF vars
    <2>2. ASSUME NEW j \in Jobs, CheckEntry(j) \/ Entered(j) \/ PlaceStop(j)
                                 \/ StopTriggers(j) \/ BookFills(j)
          PROVE  FALSE
      BY <2>0, <2>2 DEF CheckEntry, Entered, PlaceStop, StopTriggers, BookFills, SetJob, Job
    <2>3. ASSUME NEW j \in Jobs, AsoStep(j) \/ WatchStep(j)
          PROVE  "cancel" \in {aso[k], watch[k]}
      <3>1. CASE AsoCancel(j) \/ WatchCancel(j)
        <4>1. CancelOwn(j)
          BY <3>1 DEF AsoCancel, WatchCancel
        <4>2. k = j
          BY <4>1, CancelOwnAt
        <4> QED
          BY <3>1, <4>2 DEF AsoCancel, WatchCancel
      <3>2. CASE UNCHANGED job
        BY <3>2
      <3> QED
        BY <2>3, <3>1, <3>2
        DEF AsoStep, WatchStep, AsoStart, AsoBook, AsoNet, AsoPlace, AsoPoll, WatchBreach,
            WatchBook, WatchNet, WatchPlace
    <2>4. CASE OpStart \/ OpStep
      BY <2>4, OpJob DEF OpCancel
    <2>5. ASSUME NEW j \in Jobs, ExitFills(j) \/ ExitRefused(j) PROVE FALSE
      BY <2>5 DEF ExitFills, ExitRefused
    <2>6. ASSUME NEW n \in Sizes, FlatFills(n) PROVE FALSE
      BY <2>6 DEF FlatFills
    <2> QED
      BY <2>1, <2>2, <2>3, <2>4, <2>5, <2>6, EnvType DEF Next
  <1> QED
    BY <1>1, TypeCorrect, PTL DEF Spec, OwnStopsOnly

-----------------------------------------------------------------------------
(***************************************************************************)
(* No exit closes more than its job holds                                  *)
(*                                                                         *)
(* Auto square-off, unlike the watcher, reads the net of the account and   *)
(* not the executed orders of the tag.  Where another job has sold the     *)
(* same contract, it therefore closes a job whose stop was executed once   *)
(* more, and OwnQuantity does not hold: TLC shows it with two jobs.        *)
(***************************************************************************)

\* Where auto square-off and stops are both on, one job has sold the contract.
Alone == env.aso /\ env.stops => \A j, k \in env.jobs : j = k

\* Past its last reading of the net or of the tag, an exit has seen the stop
\* cancelled or never placed.
StopOver(k) ==
    aso[k] \in {"place", "poll"} \/ watch[k] \in {"net", "place"} \/ exit[k] # "none"
        => job[k].stop # "done"

\* The net is what the only job holds, or more when the operator closed it.
NetHeld == env.aso /\ env.stops => \A k \in env.jobs : net >= Held(k)

AloneInv == Alone => NetHeld /\ \A k \in Jobs : StopOver(k)

LEMMA AloneInit == Init => AloneInv
  <1> SUFFICES ASSUME Init PROVE AloneInv
    OBVIOUS
  <1>1. \A k \in env.jobs : k \in Jobs
    BY EnvType, TypeInit
  <1>2. \A k \in Jobs : again[k]["aso"] = "none" /\ again[k]["watch"] = "none"
    BY DEF Init, Senders
  <1> QED
    BY <1>1, <1>2 DEF Init, AloneInv, NetHeld, StopOver, Held, In, Filled

\* A step that leaves the net and what a job holds as they are keeps NetHeld.
LEMMA NetHeldFrame ==
    ASSUME TypeOK, NetHeld, UNCHANGED <<net, exit, again, env>>,
           \A k \in Jobs : /\ job'[k].entry = job[k].entry
                           /\ job'[k].stop = "done" <=> job[k].stop = "done"
    PROVE  NetHeld'
  <1>1. \A k \in Jobs : Held(k)' = Held(k)
    BY DEF Held, In, Filled
  <1> QED
    BY <1>1, EnvType DEF NetHeld

LEMMA AloneEntryStep ==
    ASSUME TypeOK, StopInv, AloneInv, NEW j \in env.jobs, UNCHANGED env,
           CheckEntry(j) \/ Entered(j) \/ PlaceStop(j) \/ StopTriggers(j) \/ BookFills(j)
    PROVE  AloneInv'
  <1> SUFFICES ASSUME Alone PROVE NetHeld' /\ \A k \in Jobs : StopOver(k)'
    BY DEF AloneInv, Alone
  <1>0. j \in Jobs /\ job \in [Jobs -> Job] /\ net \in Int /\ env.jobs \subseteq Jobs
    BY EnvType DEF TypeOK
  <1>1. NetHeld /\ \A k \in Jobs : StopOver(k) /\ StopGone(k)
    BY DEF AloneInv, StopInv
  <1>2. CASE CheckEntry(j)
    BY <1>0, <1>1, <1>2 DEF CheckEntry, SetJob, Job, NetHeld, StopOver, Held, In
  <1>3. CASE PlaceStop(j) \/ BookFills(j)
    <2>1. \A k \in Jobs : /\ job'[k].entry = job[k].entry
                          /\ job'[k].stop = "done" <=> job[k].stop = "done"
      BY <1>0, <1>3 DEF PlaceStop, BookFills, SetJob, Job
    <2> QED
      BY <1>1, <1>3, <2>1, NetHeldFrame DEF PlaceStop, BookFills, StopOver
  <1>4. CASE Entered(j)
    BY <1>0, <1>1, <1>4 DEF Entered, SetJob, Job, NetHeld, StopOver, Held, In, Filled, Alone
  <1>5. CASE StopTriggers(j)
    BY <1>0, <1>1, <1>5
    DEF StopTriggers, SetJob, Job, NetHeld, StopOver, StopGone, Held, In, Filled, Alone
  <1> QED
    BY <1>2, <1>3, <1>4, <1>5

\* Placing an exit executes nothing.
LEMMA PlaceDone ==
    ASSUME TypeOK, KeyInv, NEW j \in Jobs, AsoPlace(j) \/ WatchPlace(j), NEW k \in Jobs
    PROVE  /\ exit'[k] = "done" <=> exit[k] = "done"
           /\ \A b \in Senders : again'[k][b] = "done" <=> again[k][b] = "done"
  <1>1. CASE UNCHANGED <<exit, again>>
    BY <1>1
  <1>2. CASE aso[j] = "place" /\ Place(j, "aso")
    BY <1>2, PlaceAt DEF KeyInv, OwnKeys, Senders
  <1>3. CASE Mine(j, "watch") \notin {"sent", "done"} /\ Place(j, "watch")
    BY <1>3, PlaceAt DEF Mine, Senders
  <1> QED
    BY <1>1, <1>2, <1>3 DEF AsoPlace, WatchPlace

LEMMA PlaceHeld ==
    ASSUME TypeOK, KeyInv, NEW j \in Jobs, AsoPlace(j) \/ WatchPlace(j), NEW k \in Jobs
    PROVE  Held(k)' = Held(k)
  <1>1. /\ exit'[k] = "done" <=> exit[k] = "done"
        /\ \A b \in Senders : again'[k][b] = "done" <=> again[k][b] = "done"
    BY PlaceDone
  <1>2. UNCHANGED job
    BY DEF AsoPlace, WatchPlace
  <1> QED
    BY <1>1, <1>2 DEF Held, Filled, In, Senders

LEMMA AloneExitStep ==
    ASSUME TypeOK, StopInv, KeyInv, AloneInv, NEW j \in env.jobs, UNCHANGED env,
           AsoStep(j) \/ WatchStep(j)
    PROVE  AloneInv'
  <1> SUFFICES ASSUME Alone PROVE NetHeld' /\ \A k \in Jobs : StopOver(k)'
    BY DEF AloneInv, Alone
  <1>0. /\ j \in Jobs /\ job \in [Jobs -> Job] /\ net \in Int /\ env.jobs \subseteq Jobs
        /\ aso \in [Jobs -> ExitPCs] /\ watch \in [Jobs -> ExitPCs]
        /\ exit \in [Jobs -> KeyStates]
    BY EnvType DEF TypeOK
  <1>1. /\ NetHeld
        /\ \A k \in Jobs : StopOver(k) /\ EntryFirst(k) /\ StopFirst(k) /\ StopGone(k)
    BY DEF AloneInv, StopInv
  <1>2. CASE AsoCancel(j) \/ WatchCancel(j)
    <2>1. CancelOwn(j)
      BY <1>2 DEF AsoCancel, WatchCancel
    <2>2. \A k \in Jobs :
             /\ job'[k].entry = job[k].entry
             /\ job'[k].stop = IF k = j /\ job[k].stop = "pending" THEN "cancelled"
                               ELSE job[k].stop
      BY <1>0, <2>1, CancelOwnAt DEF Job
    <2>3. NetHeld'
      BY <1>1, <1>2, <2>2, NetHeldFrame DEF AsoCancel, WatchCancel
    <2>4. OwnStops(j) # {} => job[j].stop = "pending"
      BY DEF OwnStops, PendingStops
    <2>5. \A k \in Jobs : StopOver(k)'
      BY <1>0, <1>1, <1>2, <2>2, <2>4 DEF AsoCancel, WatchCancel, StopOver
    <2> QED
      BY <2>3, <2>5
  <1>3. CASE AsoPlace(j) \/ WatchPlace(j)
    <2>1. /\ UNCHANGED <<net, job>>
          /\ \A k \in Jobs : exit'[k] # exit[k] => k = j /\ exit[k] = "none"
          /\ \A k \in Jobs : aso'[k] \in {"place", "poll"} => aso[k] \in {"place", "poll"}
          /\ UNCHANGED watch \/ \A k \in Jobs : watch'[k] \in {watch[k], "over"}
      BY <1>0, <1>3, PlaceAt DEF AsoPlace, WatchPlace, Senders
    <2>2. \A k \in Jobs : StopOver(k)'
      BY <1>0, <1>1, <1>3, <2>1 DEF AsoPlace, WatchPlace, StopOver
    <2>3. \A k \in Jobs : Held(k)' = Held(k)
      BY <1>0, <1>3, PlaceHeld
    <2>4. NetHeld'
      BY <1>0, <1>1, <2>1, <2>3 DEF NetHeld
    <2> QED
      BY <2>2, <2>4
  <1>4. CASE AsoNet(j)
    <2>1. aso[j] # "wait" => In(j) /\ env.aso
      BY <1>0, <1>1 DEF StopFirst, Armed
    <2>2. net < 0 /\ aso[j] = "net" => job[j].stop # "done"
      <3> SUFFICES ASSUME net < 0, aso[j] = "net", job[j].stop = "done" PROVE FALSE
        OBVIOUS
      <3>1. env.aso /\ env.stops /\ In(j)
        BY <1>0, <1>1, <2>1 DEF StopFirst
      <3>2. net >= Held(j)
        BY <1>1, <3>1 DEF NetHeld
      <3> QED
        BY <1>0, <3>1, <3>2 DEF Held, Filled
    <2>3. \A k \in Jobs : StopOver(k)'
      BY <1>0, <1>1, <1>4, <2>2 DEF AsoNet, StopOver
    <2> QED
      BY <1>1, <1>4, <2>3, NetHeldFrame DEF AsoNet
  <1>5. CASE WatchBook(j)
    <2>1. watch[j] # "wait" => In(j)
      BY <1>0, <1>1 DEF StopFirst, Armed
    <2>2. watch[j] = "book" /\ Held(j) # 0 => job[j].stop # "done"
      <3>1. exit[j] = "none" => again[j]["aso"] = "none" /\ again[j]["watch"] = "none"
        BY <1>0 DEF KeyInv, OwnKeys, Senders
      <3> QED
        BY <1>0, <1>1, <2>1, <3>1 DEF Held, Filled, StopOver
    <2>3. \A k \in Jobs : StopOver(k)'
      BY <1>0, <1>1, <1>5, <2>2 DEF WatchBook, StopOver
    <2> QED
      BY <1>1, <1>5, <2>3, NetHeldFrame DEF WatchBook
  <1>6. CASE AsoStart(j) \/ WatchBreach(j) \/ AsoBook(j) \/ WatchNet(j)
    <2>1. \A k \in Jobs : StopOver(k)'
      BY <1>0, <1>1, <1>6 DEF AsoStart, WatchBreach, AsoBook, WatchNet, StopOver
    <2> QED
      BY <1>1, <1>6, <2>1, NetHeldFrame DEF AsoStart, WatchBreach, AsoBook, WatchNet
  <1>7. CASE AsoPoll(j)
    <2>1. \A k \in Jobs : StopOver(k)'
      BY <1>0, <1>1, <1>7 DEF AsoPoll, StopOver
    <2> QED
      BY <1>1, <1>7, <2>1, NetHeldFrame DEF AsoPoll
  <1> QED
    BY <1>2, <1>3, <1>4, <1>5, <1>6, <1>7 DEF AsoStep, WatchStep

\* An execution moves the net by one unit, and what one job holds.
LEMMA FillHeld ==
    ASSUME TypeOK, NEW j \in Jobs, ExitFills(j) \/ ExitRefused(j), NEW k \in Jobs
    PROVE  /\ Held(k)' \in Int /\ Held(k) \in Int /\ net \in Int /\ net' \in Int
           /\ Held(k)' - Held(k) <= net' - net
  <1>0. /\ exit \in [Jobs -> KeyStates] /\ again \in [Jobs -> [Senders -> KeyStates]]
        /\ net \in Int /\ Held(k) \in Int /\ {"done", "FAILED"} \subseteq KeyStates
    BY HeldType DEF TypeOK, KeyStates
  <1>1. UNCHANGED job
    BY DEF ExitFills, ExitRefused
  <1>2. CASE UNCHANGED again /\ exit[j] = "sent"
    BY <1>0, <1>1, <1>2 DEF ExitFills, ExitRefused, Held, Filled, In
  <1>3. ASSUME NEW a \in Senders, NEW state \in {"done", "FAILED"}, again[j][a] = "sent",
               again' = [again EXCEPT ![j][a] = state], UNCHANGED exit,
               net' = IF state = "done" THEN net + 1 ELSE net
        PROVE  /\ Held(k)' \in Int /\ Held(k)' - Held(k) <= net' - net
    <2>1. \A b \in Senders : again'[k][b] = IF k = j /\ b = a THEN state ELSE again[k][b]
      BY <1>0, <1>3, AgainAt
    <2>2. {"aso", "watch"} \subseteq Senders /\ a \in {"aso", "watch"}
      BY DEF Senders
    <2> QED
      BY <1>0, <1>1, <1>3, <2>1, <2>2 DEF Held, Filled, In
  <1> QED
    BY <1>0, <1>1, <1>2, <1>3 DEF ExitFills, ExitRefused

LEMMA AloneStep == TypeOK /\ StopInv /\ KeyInv /\ AloneInv /\ [Next]_vars => AloneInv'
  <1> SUFFICES ASSUME TypeOK, StopInv, KeyInv, AloneInv, [Next]_vars PROVE AloneInv'
    OBVIOUS
  <1>1. CASE UNCHANGED vars
    BY <1>1 DEF vars, AloneInv, Alone, NetHeld, StopOver, Held, In
  <1>2. ASSUME NEW j \in env.jobs, UNCHANGED env, ExitFills(j) \/ ExitRefused(j)
        PROVE  AloneInv'
    <2>1. j \in Jobs /\ exit \in [Jobs -> KeyStates] /\ net \in Int /\ env.jobs \subseteq Jobs
      BY EnvType DEF TypeOK
    <2>2. /\ UNCHANGED <<job, aso, watch>>
          /\ \A k \in Jobs : exit'[k] # "none" <=> exit[k] # "none"
      BY <1>2, <2>1 DEF ExitFills, ExitRefused
    <2>3. \A k \in Jobs : StopOver(k) => StopOver(k)'
      BY <2>2 DEF StopOver
    <2>4. NetHeld => NetHeld'
      BY <1>2, <2>1, FillHeld DEF NetHeld
    <2> QED
      BY <1>2, <2>3, <2>4 DEF AloneInv, Alone
  <1>3. ASSUME NEW n \in Sizes, UNCHANGED env, FlatFills(n) PROVE AloneInv'
    <2>1. n \in Nat /\ net \in Int /\ \A k \in env.jobs : Held(k) \in Int
      BY <1>3, SizesType, HeldType, EnvType DEF TypeOK
    <2>2. \A k \in env.jobs : Held(k)' = Held(k)
      BY <1>3 DEF FlatFills, Held, In, Filled
    <2> QED
      BY <1>3, <2>1, <2>2 DEF FlatFills, AloneInv, Alone, NetHeld, StopOver
  <1>4. ASSUME UNCHANGED env, OpStart \/ OpStep PROVE AloneInv'
    <2>1. UNCHANGED <<net, exit, again, aso, watch>>
      BY <1>4 DEF OpStart, OpStep, OpNet, OpCancel, OpPlace, OpAbort, OpHalt
    <2>2. \A k \in Jobs : /\ job'[k].entry = job[k].entry
                          /\ job'[k].stop = "done" <=> job[k].stop = "done"
      BY <1>4, OpJob
    <2>3. NetHeld => NetHeld'
      BY <1>4, <2>1, <2>2, NetHeldFrame
    <2> QED
      BY <1>4, <2>1, <2>2, <2>3 DEF AloneInv, Alone, StopOver
  <1> QED
    BY <1>1, <1>2, <1>3, <1>4, AloneEntryStep, AloneExitStep DEF Next

LEMMA AloneOwnQuantity == TypeOK /\ StopInv /\ KeyInv /\ AloneInv /\ Alone => OwnQuantity
  <1> SUFFICES ASSUME TypeOK, StopInv, KeyInv, AloneInv, Alone, NEW k \in Jobs, ~TwoSenders(k)
               PROVE  Held(k) <= 0
    BY DEF OwnQuantity
  <1>1. StopOver(k) /\ EntryFirst(k) /\ StopFirst(k)
    BY DEF AloneInv, StopInv
  <1>2. /\ "none" \in {again[k]["aso"], again[k]["watch"]}
        /\ again[k]["aso"] # "none" \/ again[k]["watch"] # "none" => exit[k] = "FAILED"
    BY DEF TwoSenders, KeyInv, OwnKeys, Senders
  <1> QED
    BY <1>1, <1>2 DEF StopOver, EntryFirst, StopFirst, Armed, Held, Filled

\* Stop, loss watcher and auto square-off never close more than the job holds
\* where auto square-off does not meet the stops of a second job, but for a job
\* whose refused exit auto square-off and the watcher have both sent again.
THEOREM OwnQuantityHolds == Spec => [](Alone => OwnQuantity)
  BY TypeInit, TypeStep, StopInit, StopStep, KeyInit, KeyStep, AloneInit, AloneStep, AloneOwnQuantity, PTL
  DEF Spec

-----------------------------------------------------------------------------
(***************************************************************************)
(* The net is what the jobs and the operator have executed                 *)
(***************************************************************************)

Entries == {k \in Jobs : In(k)}
Stopped == {k \in Jobs : job[k].stop = "done"}
Exited == {k \in Jobs : "done" \in {exit[k], again[k]["aso"], again[k]["watch"]}}

\* An exit that is executed is the first of its job, or one of two senders.
LEMMA FillDone ==
    ASSUME TypeOK, KeyInv, NEW j \in Jobs, ExitFills(j)
    PROVE  /\ \A k \in Jobs : k \in Exited' <=> k \in Exited \/ k = j
           /\ j \in Exited => TwoSenders(j)
  <1>0. /\ exit \in [Jobs -> KeyStates] /\ again \in [Jobs -> [Senders -> KeyStates]]
        /\ "done" \in KeyStates
    BY DEF TypeOK, KeyStates
  <1>1. \A a \in Senders : again[j][a] # "none" => exit[j] = "FAILED"
    BY DEF KeyInv, OwnKeys
  <1>2. CASE exit[j] = "sent" /\ exit' = [exit EXCEPT ![j] = "done"] /\ UNCHANGED again
    BY <1>0, <1>1, <1>2 DEF Exited, Senders
  <1>3. ASSUME NEW a \in Senders, again[j][a] = "sent", UNCHANGED exit,
               again' = [again EXCEPT ![j][a] = "done"]
        PROVE  /\ \A k \in Jobs : k \in Exited' <=> k \in Exited \/ k = j
               /\ j \in Exited => TwoSenders(j)
    <2>1. \A k \in Jobs, b \in Senders :
             again'[k][b] = IF k = j /\ b = a THEN "done" ELSE again[k][b]
      BY <1>0, <1>3, AgainAt
    <2>2. \A k \in Jobs : k \in Exited' <=> k \in Exited \/ k = j
      BY <1>3, <2>1 DEF Exited, Senders
    <2>3. j \in Exited => TwoSenders(j)
      BY <1>1, <1>3 DEF Exited, Senders, TwoSenders
    <2> QED
      BY <2>2, <2>3
  <1> QED
    BY <1>2, <1>3 DEF ExitFills

LEMMA RefusedDone ==
    ASSUME TypeOK, NEW j \in Jobs, ExitRefused(j), NEW k \in Jobs
    PROVE  k \in Exited' <=> k \in Exited
  <1>0. /\ exit \in [Jobs -> KeyStates] /\ again \in [Jobs -> [Senders -> KeyStates]]
        /\ "FAILED" \in KeyStates
    BY DEF TypeOK, KeyStates
  <1>1. CASE exit[j] = "sent" /\ exit' = [exit EXCEPT ![j] = "FAILED"] /\ UNCHANGED again
    BY <1>0, <1>1 DEF Exited
  <1>2. ASSUME NEW a \in Senders, again[j][a] = "sent", UNCHANGED exit,
               again' = [again EXCEPT ![j][a] = "FAILED"]
        PROVE  k \in Exited' <=> k \in Exited
    <2>1. \A b \in Senders : again'[k][b] = IF k = j /\ b = a THEN "FAILED" ELSE again[k][b]
      BY <1>0, <1>2, AgainAt
    <2> QED
      BY <1>2, <2>1 DEF Exited, Senders
  <1> QED
    BY <1>1, <1>2 DEF ExitRefused

\* Sets of jobs are finite, and a job more is one more.
LEMMA JobSets ==
    /\ \A A \in SUBSET Jobs : IsFiniteSet(A) /\ Cardinality(A) \in Nat
    /\ \A A, B \in SUBSET Jobs : A \subseteq B => Cardinality(A) <= Cardinality(B)
    /\ \A A \in SUBSET Jobs : \A j \in Jobs \ A :
          Cardinality(A \cup {j}) = Cardinality(A) + 1
  <1>1. \A A \in SUBSET Jobs : IsFiniteSet(A)
    BY ExitsAssumption, FS_Subset
  <1> QED
    BY <1>1, FS_CardinalityType, FS_Subset, FS_AddElement

\* An order of two senders is never taken back.
LEMMA TwoSendersLast ==
    ASSUME TypeOK, KeyInv, [Next]_vars, NEW k \in Jobs, TwoSenders(k)
    PROVE  TwoSenders(k)'
  <1>0. again \in [Jobs -> [Senders -> KeyStates]] /\ {"done", "FAILED"} \subseteq KeyStates
    BY DEF TypeOK, KeyStates
  <1>1. ASSUME UNCHANGED again PROVE TwoSenders(k)'
    BY <1>1 DEF TwoSenders
  <1>2. ASSUME NEW j \in Jobs, AsoPlace(j) \/ WatchPlace(j) PROVE TwoSenders(k)'
    <2>1. CASE UNCHANGED again
      BY <1>1, <2>1
    <2>2. ASSUME NEW a \in Senders, Place(j, a) PROVE TwoSenders(k)'
      BY <2>2, PlaceAt DEF TwoSenders
    <2> QED
      BY <1>2, <2>1, <2>2 DEF AsoPlace, WatchPlace, Senders
  <1>3. ASSUME NEW j \in Jobs, ExitFills(j) \/ ExitRefused(j) PROVE TwoSenders(k)'
    <2>1. CASE UNCHANGED again
      BY <1>1, <2>1
    <2>2. ASSUME NEW a \in Senders, NEW state \in {"done", "FAILED"},
                 again' = [again EXCEPT ![j][a] = state]
          PROVE  TwoSenders(k)'
      BY <1>0, <2>2, AgainAt DEF TwoSenders
    <2> QED
      BY <1>3, <2>1, <2>2 DEF ExitFills, ExitRefused
  <1>4. ASSUME NEW j \in Jobs,
               \/ CheckEntry(j) \/ Entered(j) \/ PlaceStop(j) \/ StopTriggers(j)
               \/ BookFills(j) \/ AsoStart(j) \/ AsoBook(j) \/ AsoCancel(j) \/ AsoNet(j)
               \/ AsoPoll(j) \/ WatchBreach(j) \/ WatchBook(j) \/ WatchCancel(j)
               \/ WatchNet(j)
        PROVE  TwoSenders(k)'
    BY <1>1, <1>4
    DEF CheckEntry, Entered, PlaceStop, StopTriggers, BookFills, AsoStart, AsoBook, AsoCancel,
        AsoNet, AsoPoll, WatchBreach, WatchBook, WatchCancel, WatchNet
  <1>5. ASSUME OpStart \/ OpStep \/ \E n \in Sizes : FlatFills(n) PROVE TwoSenders(k)'
    BY <1>1, <1>5
    DEF OpStart, OpStep, OpNet, OpCancel, OpPlace, OpAbort, OpHalt, FlatFills
  <1>6. CASE UNCHANGED vars
    BY <1>1, <1>6 DEF vars
  <1> QED
    BY <1>2, <1>3, <1>4, <1>5, <1>6, EnvType DEF Next, AsoStep, WatchStep

\* Every step of a job executes one entry, one stop or one exit, or none, and
\* the net moves with it; what the operator holds stays as it is.
LEMMA JobMoves ==
    ASSUME TypeOK, KeyInv, NEW j \in Jobs,
           \/ CheckEntry(j) \/ Entered(j) \/ PlaceStop(j) \/ StopTriggers(j)
           \/ BookFills(j) \/ AsoStep(j) \/ WatchStep(j)
           \/ ExitFills(j) \/ ExitRefused(j)
    PROVE  /\ UNCHANGED <<flat, resent, op, halted>> /\ refusals' >= refusals
           /\ \A k \in Jobs : job'[k].aborted = job[k].aborted
           /\ \/ UNCHANGED <<net, Entries, Stopped, Exited>>
              \/ /\ j \notin Entries /\ Entries' = Entries \cup {j} /\ net' = net - 1
                 /\ UNCHANGED <<Stopped, Exited>>
              \/ /\ j \notin Stopped /\ Stopped' = Stopped \cup {j} /\ net' = net + 1
                 /\ UNCHANGED <<Entries, Exited>>
              \/ /\ j \in Exited => TwoSenders(j)
                 /\ Exited' = Exited \cup {j} /\ net' = net + 1
                 /\ UNCHANGED <<Entries, Stopped>>
  <1>0. /\ job \in [Jobs -> Job] /\ exit \in [Jobs -> KeyStates] /\ refusals \in Nat
        /\ net \in Int
    BY ExitsAssumption DEF TypeOK
  <1>1. CASE CheckEntry(j)
    BY <1>0, <1>1 DEF CheckEntry, SetJob, Job, Entries, Stopped, Exited, In
  <1>2. CASE Entered(j)
    BY <1>0, <1>2 DEF Entered, SetJob, Job, Entries, Stopped, Exited, In
  <1>3. CASE PlaceStop(j)
    BY <1>0, <1>3 DEF PlaceStop, SetJob, Job, Entries, Stopped, Exited, In
  <1>4. CASE StopTriggers(j)
    BY <1>0, <1>4 DEF StopTriggers, SetJob, Job, Entries, Stopped, Exited, In
  <1>5. CASE BookFills(j)
    BY <1>0, <1>5 DEF BookFills, SetJob, Job, Entries, Stopped, Exited, In
  <1>6. CASE AsoCancel(j) \/ WatchCancel(j)
    <2>1. CancelOwn(j) /\ UNCHANGED <<flat, resent, op, halted, refusals, net, exit, again>>
      BY <1>6 DEF AsoCancel, WatchCancel
    <2>2. \A k \in Jobs : /\ job'[k].entry = job[k].entry
                          /\ job'[k].aborted = job[k].aborted
                          /\ job'[k].stop = "done" <=> job[k].stop = "done"
      BY <1>0, <2>1, CancelOwnAt DEF Job
    <2> QED
      BY <1>0, <2>1, <2>2 DEF Entries, Stopped, Exited, In
  <1>7. CASE AsoPlace(j) \/ WatchPlace(j)
    <2>1. \A k \in Jobs : k \in Exited' <=> k \in Exited
      BY <1>7, PlaceDone DEF Exited, Senders
    <2>2. Exited' = Exited
      BY <2>1 DEF Exited
    <2> QED
      BY <1>0, <1>7, <2>2 DEF AsoPlace, WatchPlace, Entries, Stopped, In
  <1>8. CASE AsoStart(j) \/ AsoBook(j) \/ AsoNet(j) \/ AsoPoll(j) \/ WatchBreach(j)
             \/ WatchBook(j) \/ WatchNet(j)
    BY <1>0, <1>8 DEF AsoStart, AsoBook, AsoNet, AsoPoll, WatchBreach, WatchBook, WatchNet,
                      Entries, Stopped, Exited, In
  <1>9. CASE ExitFills(j)
    <2>1. /\ \A k \in Jobs : k \in Exited' <=> k \in Exited \/ k = j
          /\ j \in Exited => TwoSenders(j)
      BY <1>9, FillDone
    <2>2. Exited' = Exited \cup {j}
      BY <2>1 DEF Exited
    <2> QED
      BY <1>0, <1>9, <2>1, <2>2 DEF ExitFills, Entries, Stopped, In
  <1>10. CASE ExitRefused(j)
    <2>1. \A k \in Jobs : k \in Exited' <=> k \in Exited
      BY <1>10, RefusedDone
    <2>2. Exited' = Exited
      BY <2>1 DEF Exited
    <2> QED
      BY <1>0, <1>10, <2>2 DEF ExitRefused, Entries, Stopped, In
  <1> QED
    BY <1>1, <1>2, <1>3, <1>4, <1>5, <1>6, <1>7, <1>8, <1>9, <1>10 DEF AsoStep, WatchStep

\* A step of the operator executes nothing by itself.
LEMMA OpMoves ==
    ASSUME TypeOK, OpStart \/ OpStep
    PROVE  UNCHANGED <<net, Entries, Stopped, Exited>>
  <1>1. UNCHANGED <<net, exit, again>>
    BY DEF OpStart, OpStep, OpNet, OpCancel, OpPlace, OpAbort, OpHalt
  <1> QED
    BY <1>1, OpJob DEF Entries, Stopped, Exited, In

\* The account is never shorter than the entries executed.
NetFloor == -net <= Cardinality(Entries)

\* Without the operator the net is the entries less the stops and the exits, as
\* long as no exit has two senders.
NetExact ==
    env.flattens = 0 =>
        /\ op.pc = "idle" /\ op.left = 0
        /\ \A n \in Sizes : flat[n] = "none" /\ resent[n] = [sent |-> 0, done |-> 0]
        /\ (\E k \in Jobs : TwoSenders(k)) \/ net = Cardinality(Stopped) + Cardinality(Exited) - Cardinality(Entries)

NetInv == NetFloor /\ NetExact

LEMMA NetInit == Init => NetInv
  <1> SUFFICES ASSUME Init PROVE NetInv
    OBVIOUS
  <1>1. Entries = {} /\ Stopped = {} /\ Exited = {}
    BY DEF Init, Entries, Stopped, Exited, In, Senders
  <1> QED
    BY <1>1, FS_EmptySet DEF Init, NetInv, NetFloor, NetExact, IdleOp

LEMMA NetStep == TypeOK /\ KeyInv /\ NetInv /\ [Next]_vars => NetInv'
  <1> SUFFICES ASSUME TypeOK, KeyInv, NetInv, [Next]_vars PROVE NetInv'
    OBVIOUS
  <1>0. /\ net \in Int
        /\ Entries \in SUBSET Jobs /\ Stopped \in SUBSET Jobs /\ Exited \in SUBSET Jobs
        /\ Cardinality(Entries) \in Nat /\ Cardinality(Stopped) \in Nat
        /\ Cardinality(Exited) \in Nat
    BY JobSets DEF TypeOK, Entries, Stopped, Exited
  <1>1. CASE UNCHANGED vars
    <2>1. UNCHANGED <<Entries, Stopped, Exited>>
      BY <1>1 DEF vars, Entries, Stopped, Exited, In
    <2> QED
      BY <1>1, <2>1 DEF vars, NetInv, NetFloor, NetExact, TwoSenders
  <1>2. ASSUME NEW j \in env.jobs, UNCHANGED env,
               \/ CheckEntry(j) \/ Entered(j) \/ PlaceStop(j) \/ StopTriggers(j)
               \/ BookFills(j) \/ AsoStep(j) \/ WatchStep(j)
               \/ ExitFills(j) \/ ExitRefused(j)
        PROVE  NetInv'
    <2>1. j \in Jobs
      BY EnvType
    <2>2. UNCHANGED <<flat, resent, op>>
      BY <1>2, <2>1, JobMoves
    <2>3. \/ UNCHANGED <<net, Entries, Stopped, Exited>>
          \/ /\ j \notin Entries /\ Entries' = Entries \cup {j} /\ net' = net - 1
             /\ UNCHANGED <<Stopped, Exited>>
          \/ /\ j \notin Stopped /\ Stopped' = Stopped \cup {j} /\ net' = net + 1
             /\ UNCHANGED <<Entries, Exited>>
          \/ /\ j \in Exited => TwoSenders(j)
             /\ Exited' = Exited \cup {j} /\ net' = net + 1
             /\ UNCHANGED <<Entries, Stopped>>
      BY <1>2, <2>1, JobMoves
    <2>4. /\ j \notin Entries => Cardinality(Entries \cup {j}) = Cardinality(Entries) + 1
          /\ j \notin Stopped => Cardinality(Stopped \cup {j}) = Cardinality(Stopped) + 1
          /\ j \notin Exited => Cardinality(Exited \cup {j}) = Cardinality(Exited) + 1
      BY <1>0, <2>1, JobSets
    <2>5. NetFloor'
      <3>1. -net <= Cardinality(Entries)
        BY DEF NetInv, NetFloor
      <3> QED
        BY <1>0, <2>3, <2>4, <3>1 DEF NetFloor
    <2>6. ASSUME env.flattens = 0, ~\E k \in Jobs : TwoSenders(k)'
          PROVE  net' = Cardinality(Stopped') + Cardinality(Exited') - Cardinality(Entries')
      <3>0. ~\E k \in Jobs : TwoSenders(k)
        BY <1>2, <2>6, TwoSendersLast
      <3>1. net = Cardinality(Stopped) + Cardinality(Exited) - Cardinality(Entries)
        BY <2>6, <3>0 DEF NetInv, NetExact
      <3>2. CASE UNCHANGED <<net, Entries, Stopped, Exited>>
        BY <3>1, <3>2
      <3>3. CASE /\ j \notin Entries /\ Entries' = Entries \cup {j} /\ net' = net - 1
                 /\ UNCHANGED <<Stopped, Exited>>
        BY <1>0, <2>4, <3>1, <3>3
      <3>4. CASE /\ j \notin Stopped /\ Stopped' = Stopped \cup {j} /\ net' = net + 1
                 /\ UNCHANGED <<Entries, Exited>>
        BY <1>0, <2>4, <3>1, <3>4
      <3>5. CASE /\ j \in Exited => TwoSenders(j)
                 /\ Exited' = Exited \cup {j} /\ net' = net + 1
                 /\ UNCHANGED <<Entries, Stopped>>
        BY <1>0, <2>1, <2>4, <3>0, <3>1, <3>5
      <3> QED
        BY <2>3, <3>2, <3>3, <3>4, <3>5
    <2>7. NetExact'
      BY <1>2, <2>2, <2>6 DEF NetInv, NetExact
    <2> QED
      BY <2>5, <2>7 DEF NetInv
  <1>3. ASSUME NEW n \in Sizes, UNCHANGED env, FlatFills(n) PROVE NetInv'
    <2>1. UNCHANGED <<Entries, Stopped, Exited>> /\ n \in Nat /\ net' = net + n
      BY <1>3, SizesType DEF FlatFills, Entries, Stopped, Exited, In
    <2>2. env.flattens # 0
      BY <1>3 DEF FlatFills, NetInv, NetExact
    <2> QED
      BY <1>0, <1>3, <2>1, <2>2 DEF NetInv, NetFloor, NetExact
  <1>4. ASSUME UNCHANGED env, OpStart \/ OpStep PROVE NetInv'
    <2>0. op.pc # "idle" \/ op.left > 0
      BY <1>4 DEF OpStart, OpStep, OpNet, OpCancel, OpPlace, OpAbort, OpHalt
    <2>1. env.flattens # 0
      BY <2>0 DEF NetInv, NetExact
    <2> QED
      BY <1>0, <1>4, <2>1, OpMoves DEF NetInv, NetFloor, NetExact
  <1> QED
    BY <1>1, <1>2, <1>3, <1>4 DEF Next

LEMMA AloneNotTurned ==
    TypeOK /\ NetInv /\ StopInv /\ KeyInv /\ OwnQuantity /\ env.flattens = 0 => NotTurnedRound
  <1> SUFFICES ASSUME TypeOK, NetInv, StopInv, KeyInv, OwnQuantity, env.flattens = 0,
                      ~\E k \in Jobs : TwoSenders(k)
               PROVE  net <= 0
    BY DEF NotTurnedRound
  <1>1. Stopped \cap Exited = {} /\ Stopped \cup Exited \subseteq Entries
    <2> SUFFICES ASSUME NEW k \in Jobs
                 PROVE  /\ ~(job[k].stop = "done" /\ k \in Exited)
                        /\ job[k].stop = "done" \/ k \in Exited => In(k)
      BY DEF Stopped, Exited, Entries
    <2>1. EntryFirst(k) /\ StopFirst(k) /\ Held(k) <= 0
      BY DEF StopInv, OwnQuantity
    <2>2. k \in Exited => exit[k] # "none"
      BY DEF Exited, KeyInv, OwnKeys, Senders
    <2> QED
      BY <2>1, <2>2 DEF EntryFirst, StopFirst, Armed, Held, Filled, Exited
  <1>2. Stopped \in SUBSET Jobs /\ Exited \in SUBSET Jobs /\ Entries \in SUBSET Jobs
    BY DEF Stopped, Exited, Entries
  <1>3. Cardinality(Stopped \cup Exited) = Cardinality(Stopped) + Cardinality(Exited)
    <2>1. Cardinality(Stopped \cap Exited) = 0
      BY <1>1, FS_EmptySet
    <2>2. IsFiniteSet(Stopped) /\ IsFiniteSet(Exited)
      BY <1>2, JobSets
    <2>3. /\ Cardinality(Stopped) \in Nat /\ Cardinality(Exited) \in Nat
          /\ Cardinality(Stopped \cup Exited) =
                 Cardinality(Stopped) + Cardinality(Exited) - Cardinality(Stopped \cap Exited)
      BY <1>2, <2>2, JobSets, FS_Union
    <2> QED
      BY <2>1, <2>3
  <1>4. Cardinality(Stopped \cup Exited) <= Cardinality(Entries)
    BY <1>1, <1>2, JobSets
  <1>5. net = Cardinality(Stopped) + Cardinality(Exited) - Cardinality(Entries)
    BY DEF NetInv, NetExact
  <1> QED
    BY <1>2, <1>3, <1>4, <1>5, JobSets

\* Stops, watchers and auto square-offs never turn the short position round
\* while the operator does not square off and auto square-off does not meet the
\* stops of a second job, but for a job whose refused exit auto square-off and
\* the watcher have both sent again.
THEOREM NotTurnedRoundHolds ==
    Spec => [](Alone /\ env.flattens = 0 => NotTurnedRound)
  BY TypeInit, TypeStep, StopInit, StopStep, KeyInit, KeyStep, AloneInit, AloneStep,
     AloneOwnQuantity, NetInit, NetStep, AloneNotTurned, PTL DEF Spec

-----------------------------------------------------------------------------
(***************************************************************************)
(* A kill leaves nothing open that was booked when it began                *)
(***************************************************************************)

\* The entries executed since the operator read the ledger rows.
Entering == {k \in Jobs : In(k) /\ k \notin op.had}

NoFlat == \A n \in Sizes : flat[n] = "none"

AllAborted == \A k \in Jobs : job[k].aborted

\* What the operator's one call holds across its awaits.
CallShape ==
    /\ op.left \in {0, 1}
    /\ op.left = 1 => op.pc = "idle" /\ NoFlat
    /\ op.had \subseteq Entries /\ op.rows \subseteq op.had
    /\ op.pc = "net" /\ op.rows = op.had => NoFlat
    /\ op.pc \in {"cancel", "place"} => op.qty \in Sizes /\ op.rows # op.had

\* Kill aborts all jobs before it halts the desk, and both last.
KillLasts ==
    /\ op.pc = "halt" => env.kill /\ AllAborted
    /\ env.kill /\ op.pc = "idle" /\ op.left = 0 => AllAborted /\ halted

\* What is open was entered since, or an order on its way closes the rest.
Covered ==
    \/ -net <= Cardinality(Entering)
    \/ \E n \in Sizes : flat[n] = "sent" /\ -net - n <= Cardinality(Entering)

\* The first row is read with no flatten order at the broker, so its order is
\* sent and closes all of the net.  A later row may meet the order of an
\* earlier one under the same key and send nothing: the earlier one covers it.
Closing ==
    /\ op.pc = "net" /\ op.rows # op.had => Covered
    /\ op.pc \in {"cancel", "place"} =>
          Covered \/ (NoFlat /\ -net - op.qty <= Cardinality(Entering))
    /\ op.pc \in {"abort", "halt"} => Covered
    /\ op.pc = "idle" /\ op.left = 0 => Covered

KillInv == env.flattens = 1 => CallShape /\ KillLasts /\ (refusals = 0 => Closing)

LEMMA KillInit == Init => KillInv
  <1> SUFFICES ASSUME Init, env.flattens = 1 PROVE CallShape /\ KillLasts /\ Closing
    BY DEF KillInv
  <1>1. op.left = 1 /\ op.pc = "idle" /\ op.had = {} /\ op.rows = {}
    BY DEF Init, IdleOp
  <1> QED
    BY <1>1 DEF Init, CallShape, KillLasts, Closing, NoFlat

LEMMA EnteringSets ==
    ASSUME TypeOK
    PROVE  /\ net \in Int /\ Entries \in SUBSET Jobs /\ Entering \in SUBSET Jobs
           /\ Entering = Entries \ op.had
           /\ Cardinality(Entries) \in Nat /\ Cardinality(Entering) \in Nat
  <1>1. Entries \in SUBSET Jobs /\ Entering \in SUBSET Jobs
    BY DEF Entries, Entering
  <1> QED
    BY <1>1, JobSets DEF TypeOK, Entries, Entering

\* An entry opens no more than it adds to what was entered since; a stop or an
\* exit only closes.
LEMMA CoverJob ==
    ASSUME TypeOK, UNCHANGED <<flat, op>>, op.had \subseteq Entries, NEW j \in Jobs,
           \/ UNCHANGED <<net, Entries, Stopped, Exited>>
           \/ /\ j \notin Entries /\ Entries' = Entries \cup {j} /\ net' = net - 1
              /\ UNCHANGED <<Stopped, Exited>>
           \/ /\ j \notin Stopped /\ Stopped' = Stopped \cup {j} /\ net' = net + 1
              /\ UNCHANGED <<Entries, Exited>>
           \/ net' = net + 1 /\ UNCHANGED <<Entries, Stopped>>
    PROVE  /\ Cardinality(Entering') \in Int /\ net' \in Int
           /\ -net' - Cardinality(Entering') <= -net - Cardinality(Entering)
  <1>0. net \in Int /\ Entering \in SUBSET Jobs /\ Cardinality(Entering) \in Nat
    BY EnteringSets
  <1>1. Entering = Entries \ op.had /\ Entering' = Entries' \ op.had
    BY DEF Entering, Entries
  <1>2. CASE UNCHANGED Entries /\ net' \in {net, net + 1}
    <2>1. Entering' = Entering
      BY <1>1, <1>2
    <2> QED
      BY <1>0, <1>2, <2>1
  <1>3. CASE j \notin Entries /\ Entries' = Entries \cup {j} /\ net' = net - 1
    <2>1. Entering' = Entering \cup {j} /\ j \notin Entering
      BY <1>1, <1>3
    <2>2. Cardinality(Entering \cup {j}) = Cardinality(Entering) + 1
      BY <1>0, <2>1, JobSets
    <2> QED
      BY <1>0, <1>3, <2>1, <2>2
  <1> QED
    BY <1>2, <1>3

LEMMA KillJobStep ==
    ASSUME TypeOK, KeyInv, KillInv, NEW j \in Jobs, UNCHANGED env,
           \/ CheckEntry(j) \/ Entered(j) \/ PlaceStop(j) \/ StopTriggers(j)
           \/ BookFills(j) \/ AsoStep(j) \/ WatchStep(j)
           \/ ExitFills(j) \/ ExitRefused(j)
    PROVE  KillInv'
  <1> SUFFICES ASSUME env.flattens = 1
               PROVE  CallShape' /\ KillLasts' /\ (refusals' = 0 => Closing')
    BY DEF KillInv
  <1>0. CallShape /\ KillLasts /\ (refusals = 0 => Closing)
    BY DEF KillInv
  <1>1. /\ UNCHANGED <<flat, op, halted>> /\ refusals' >= refusals
        /\ \A k \in Jobs : job'[k].aborted = job[k].aborted
    BY JobMoves
  <1>2. Entries \subseteq Entries'
    BY JobMoves
  <1>3. CallShape'
    BY <1>0, <1>1, <1>2 DEF CallShape, NoFlat
  <1>4. KillLasts'
    BY <1>0, <1>1 DEF KillLasts, AllAborted
  <1>5. /\ Cardinality(Entering') \in Int /\ net' \in Int
        /\ -net' - Cardinality(Entering') <= -net - Cardinality(Entering)
    BY <1>0, <1>1, JobMoves, CoverJob DEF CallShape
  <1>6. ASSUME refusals' = 0 PROVE Closing'
    <2>1. Closing
      BY <1>0, <1>1, <1>6, ExitsAssumption DEF TypeOK
    <2>2. net \in Int /\ Cardinality(Entering) \in Nat /\ op.qty \in Nat
      BY EnteringSets DEF TypeOK, Op
    <2>3. Covered => Covered'
      <3>1. CASE -net <= Cardinality(Entering)
        BY <1>5, <2>2, <3>1 DEF Covered
      <3>2. ASSUME NEW n \in Sizes, flat[n] = "sent", -net - n <= Cardinality(Entering)
            PROVE  Covered'
        <4>1. -net' - n <= Cardinality(Entering')
          BY <1>5, <2>2, <3>2, SizesType
        <4> QED
          BY <1>1, <3>2, <4>1 DEF Covered
      <3> QED
        BY <3>1, <3>2 DEF Covered
    <2>4. -net - op.qty <= Cardinality(Entering) => -net' - op.qty <= Cardinality(Entering')
      BY <1>5, <2>2
    <2> QED
      BY <1>1, <2>1, <2>3, <2>4 DEF Closing, NoFlat
  <1> QED
    BY <1>3, <1>4, <1>6

\* The order that closes the net is executed, or another order closes more.
LEMMA KillFillStep ==
    ASSUME TypeOK, KillInv, NEW n \in Sizes, UNCHANGED env, FlatFills(n)
    PROVE  KillInv'
  <1> SUFFICES ASSUME env.flattens = 1
               PROVE  CallShape' /\ KillLasts' /\ (refusals' = 0 => Closing')
    BY DEF KillInv
  <1>0. CallShape /\ KillLasts /\ (refusals = 0 => Closing)
    BY DEF KillInv
  <1>1. /\ UNCHANGED <<op, halted, job, refusals>> /\ net' = net + n
        /\ UNCHANGED flat \/ (flat[n] = "sent" /\ flat' = [flat EXCEPT ![n] = "done"])
    BY DEF FlatFills
  <1>2. NoFlat => NoFlat'
    BY <1>1 DEF NoFlat
  <1>3. Entries' = Entries /\ Entering' = Entering
    BY <1>1 DEF Entries, Entering, In
  <1>4. CallShape' /\ KillLasts'
    BY <1>0, <1>1, <1>2, <1>3 DEF CallShape, KillLasts, AllAborted
  <1>5. Covered => Covered'
    <2>0. net \in Int /\ Cardinality(Entering) \in Nat /\ n \in Nat /\ n > 0
          /\ flat \in [Sizes -> KeyStates]
      BY EnteringSets, SizesType DEF TypeOK
    <2>1. CASE -net <= Cardinality(Entering)
      BY <1>1, <1>3, <2>0, <2>1 DEF Covered
    <2>2. ASSUME NEW m \in Sizes, flat[m] = "sent", -net - m <= Cardinality(Entering)
          PROVE  Covered'
      <3>1. m \in Nat
        BY SizesType
      <3>2. CASE m = n
        BY <1>1, <1>3, <2>0, <2>2, <3>2 DEF Covered
      <3>3. CASE m # n
        <4>1. flat'[m] = "sent" /\ -net' - m <= Cardinality(Entering')
          BY <1>1, <1>3, <2>0, <2>2, <3>1, <3>3
        <4> QED
          BY <4>1 DEF Covered
      <3> QED
        BY <3>2, <3>3
    <2> QED
      BY <2>1, <2>2 DEF Covered
  <1>6. Closing => Closing'
    <2>0. net \in Int /\ Cardinality(Entering) \in Nat /\ n \in Nat /\ op.qty \in Nat
      BY EnteringSets, SizesType DEF TypeOK, Op
    <2>1. op' = op
      BY <1>1
    <2>2. -net - op.qty <= Cardinality(Entering) => -net' - op.qty <= Cardinality(Entering')
      BY <1>1, <1>3, <2>0
    <2> QED
      BY <1>2, <1>5, <2>1, <2>2 DEF Closing
  <1> QED
    BY <1>0, <1>1, <1>4, <1>6

\* The ledger rows are read: only executed entries have one.
LEMMA KillStartStep ==
    ASSUME TypeOK, StopInv, KillInv, UNCHANGED env, OpStart
    PROVE  KillInv'
  <1> SUFFICES ASSUME env.flattens = 1
               PROVE  CallShape' /\ KillLasts' /\ (refusals' = 0 => Closing')
    BY DEF KillInv
  <1>0. op.left = 1 /\ NoFlat
    BY DEF KillInv, CallShape, OpStart
  <1>1. /\ op'.pc = "net" /\ op'.left = 0 /\ op'.rows = op'.had
        /\ op'.had = {k \in Jobs : job[k].row # 0}
    BY <1>0 DEF OpStart, IdleOp
  <1>2. op'.had \subseteq Entries'
    BY <1>1 DEF OpStart, StopInv, EntryFirst, Entries, In
  <1>3. NoFlat'
    BY <1>0 DEF OpStart, NoFlat
  <1> QED
    BY <1>1, <1>2, <1>3 DEF CallShape, KillLasts, Closing

\* The net is read again for every row: short, it is the size of the order; not
\* short, nothing is left to close.
LEMMA KillNetStep ==
    ASSUME TypeOK, NetInv, KillInv, UNCHANGED env, OpNet
    PROVE  KillInv'
  <1> SUFFICES ASSUME env.flattens = 1
               PROVE  CallShape' /\ KillLasts' /\ (refusals' = 0 => Closing')
    BY DEF KillInv
  <1>0. CallShape /\ KillLasts /\ (refusals = 0 => Closing)
    BY DEF KillInv
  <1>1. UNCHANGED <<net, job, flat, halted, refusals>> /\ op.pc = "net" /\ op \in Op
    BY DEF OpNet, TypeOK
  <1>2. Entries' = Entries
    BY <1>1 DEF Entries, In
  <1>3. /\ net \in Int /\ Entries \in SUBSET Jobs /\ Cardinality(Entries) \in Nat
        /\ Cardinality(Entering) \in Nat /\ Entering = Entries \ op.had
    BY EnteringSets
  <1>4. ASSUME op'.had = op.had PROVE Entering' = Entering /\ (Covered => Covered')
    <2>1. Entering' = Entering
      BY <1>1, <1>4 DEF Entering, In
    <2> QED
      BY <1>1, <2>1 DEF Covered
  <1>5. ASSUME NEW j \in op.rows, net < 0,
               op' = [op EXCEPT !.pc = "cancel", !.rows = op.rows \ {j}, !.at = {j}, !.qty = -net]
        PROVE  CallShape' /\ KillLasts' /\ (refusals' = 0 => Closing')
    <2>1. /\ op'.pc = "cancel" /\ op'.rows = op.rows \ {j} /\ op'.had = op.had
          /\ op'.qty = -net /\ op'.left = op.left
      BY <1>1, <1>5 DEF Op
    <2>2. op'.rows # op'.had
      BY <1>0, <1>5, <2>1 DEF CallShape
    <2>3. -net \in Sizes
      <3>1. Cardinality(Entries) <= Cardinality(Jobs) /\ Cardinality(Jobs) \in Nat
        BY <1>3, JobSets, SizesType
      <3>2. -net <= Cardinality(Entries)
        BY DEF NetInv, NetFloor
      <3> QED
        BY <1>3, <1>5, <3>1, <3>2 DEF Sizes
    <2>4. Covered' \/ (NoFlat' /\ -net' - op'.qty <= Cardinality(Entering')) \/ refusals' # 0
      <3>1. CASE op.rows = op.had
        BY <1>0, <1>1, <1>3, <1>4, <2>1, <3>1 DEF CallShape, NoFlat
      <3>2. CASE op.rows # op.had
        <4>1. refusals = 0 => Covered
          BY <1>0, <1>1, <3>2 DEF Closing
        <4>2. refusals' = 0 => Covered'
          BY <1>1, <1>4, <2>1, <4>1
        <4> QED
          BY <4>2
      <3> QED
        BY <3>1, <3>2
    <2> QED
      BY <1>0, <1>1, <1>2, <2>1, <2>2, <2>3, <2>4 DEF CallShape, KillLasts, Closing
  <1>6. ASSUME NEW j \in op.rows, ~(net < 0), op' = [op EXCEPT !.rows = op.rows \ {j}]
        PROVE  CallShape' /\ KillLasts' /\ (refusals' = 0 => Closing')
    <2>1. /\ op'.pc = "net" /\ op'.rows = op.rows \ {j} /\ op'.had = op.had
          /\ op'.left = op.left
      BY <1>1, <1>6 DEF Op
    <2>2. op'.rows # op'.had
      BY <1>0, <1>6, <2>1 DEF CallShape
    <2>3. Covered'
      BY <1>1, <1>3, <1>4, <1>6, <2>1 DEF Covered
    <2> QED
      BY <1>0, <1>1, <1>2, <2>1, <2>2, <2>3 DEF CallShape, KillLasts, Closing
  <1>7. ASSUME op.rows = {}, op' = [op EXCEPT !.pc = "abort"]
        PROVE  CallShape' /\ KillLasts' /\ (refusals' = 0 => Closing')
    <2>1. /\ op'.pc = "abort" /\ op'.rows = op.rows /\ op'.had = op.had
          /\ op'.left = op.left
      BY <1>1, <1>7 DEF Op
    <2>2. op.had = {} => Covered
      <3>1. -net <= Cardinality(Entries)
        BY DEF NetInv, NetFloor
      <3> QED
        BY <1>3, <3>1 DEF Covered
    <2>3. refusals = 0 => Covered'
      BY <1>0, <1>1, <1>4, <1>7, <2>1, <2>2 DEF Closing
    <2> QED
      BY <1>0, <1>1, <1>2, <2>1, <2>3 DEF CallShape, KillLasts, Closing
  <1> QED
    BY <1>5, <1>6, <1>7 DEF OpNet

LEMMA KillCancelStep ==
    ASSUME TypeOK, KillInv, UNCHANGED env, OpCancel
    PROVE  KillInv'
  <1> SUFFICES ASSUME env.flattens = 1
               PROVE  CallShape' /\ KillLasts' /\ (refusals' = 0 => Closing')
    BY DEF KillInv
  <1>0. CallShape /\ KillLasts /\ (refusals = 0 => Closing)
    BY DEF KillInv
  <1>1. /\ UNCHANGED <<net, flat, halted, refusals>> /\ op.pc = "cancel"
        /\ op'.pc = "place" /\ op'.rows = op.rows /\ op'.had = op.had /\ op'.qty = op.qty
        /\ op'.left = op.left
    BY DEF OpCancel, TypeOK, Op
  <1>2. \A k \in Jobs : job'[k].entry = job[k].entry
    BY OpJob DEF OpStep
  <1>3. Entries' = Entries /\ Entering' = Entering
    BY <1>1, <1>2 DEF Entries, Entering, In
  <1>4. Covered' = Covered /\ NoFlat' = NoFlat
    BY <1>1, <1>3 DEF Covered, NoFlat
  <1> QED
    BY <1>0, <1>1, <1>3, <1>4 DEF CallShape, KillLasts, Closing

\* The first order is sent; an order under a key in use is covered already.
LEMMA KillPlaceStep ==
    ASSUME TypeOK, KillInv, UNCHANGED env, OpPlace
    PROVE  KillInv'
  <1> SUFFICES ASSUME env.flattens = 1
               PROVE  CallShape' /\ KillLasts' /\ (refusals' = 0 => Closing')
    BY DEF KillInv
  <1>0. CallShape /\ KillLasts /\ (refusals = 0 => Closing)
    BY DEF KillInv
  <1>1. /\ UNCHANGED <<net, job, halted>> /\ op.pc = "place" /\ op.qty \in Sizes
        /\ flat \in [Sizes -> KeyStates]
    BY <1>0 DEF OpPlace, CallShape, TypeOK
  <1>2. /\ op'.pc = "net" /\ op'.rows = op.rows /\ op'.had = op.had /\ op'.left = op.left
    BY DEF OpPlace, TypeOK, Op
  <1>3. Entries' = Entries /\ Entering' = Entering
    BY <1>1, <1>2 DEF Entries, Entering, In
  <1>4. op.left = 0
    BY <1>0, <1>1 DEF CallShape
  <1>5. CallShape' /\ KillLasts'
    BY <1>0, <1>1, <1>2, <1>3, <1>4 DEF CallShape, KillLasts
  <1>6. ASSUME refusals' = 0 PROVE Closing'
    <2>1. /\ refusals = 0
          /\ \/ flat[op.qty] = "FAILED" /\ UNCHANGED flat
             \/ flat' = [flat EXCEPT ![op.qty] = PlaceKey(flat[op.qty])]
      BY <1>6, ExitsAssumption DEF OpPlace, TypeOK
    <2>2. Covered \/ (NoFlat /\ -net - op.qty <= Cardinality(Entering))
      BY <1>0, <1>1, <2>1 DEF Closing
    <2>3. CASE Covered
      <3>1. \A n \in Sizes : flat[n] = "sent" => flat'[n] = "sent"
        BY <1>1, <2>1 DEF PlaceKey
      <3>2. Covered'
        BY <1>1, <1>3, <2>3, <3>1 DEF Covered
      <3> QED
        BY <1>2, <3>2 DEF Closing
    <2>4. CASE NoFlat /\ -net - op.qty <= Cardinality(Entering)
      <3>1. flat'[op.qty] = "sent"
        BY <1>1, <2>1, <2>4 DEF PlaceKey, NoFlat
      <3>2. Covered'
        BY <1>1, <1>3, <2>4, <3>1 DEF Covered
      <3> QED
        BY <1>2, <3>2 DEF Closing
    <2> QED
      BY <2>2, <2>3, <2>4
  <1> QED
    BY <1>5, <1>6

\* Kill aborts every job, then halts the desk.
LEMMA KillEndStep ==
    ASSUME TypeOK, KillInv, UNCHANGED env, OpAbort \/ OpHalt
    PROVE  KillInv'
  <1> SUFFICES ASSUME env.flattens = 1
               PROVE  CallShape' /\ KillLasts' /\ (refusals' = 0 => Closing')
    BY DEF KillInv
  <1>0. CallShape /\ KillLasts /\ (refusals = 0 => Closing)
    BY DEF KillInv
  <1>1. /\ UNCHANGED <<net, flat, refusals>>
        /\ op'.rows = op.rows /\ op'.had = op.had /\ op'.left = op.left
    BY DEF OpAbort, OpHalt, TypeOK, Op
  <1>2. \A k \in Jobs : job'[k].entry = job[k].entry
    BY OpJob DEF OpStep
  <1>3. Entries' = Entries /\ Entering' = Entering
    BY <1>1, <1>2 DEF Entries, Entering, In
  <1>4. Covered' = Covered
    BY <1>1, <1>3 DEF Covered
  <1>5. CASE OpAbort
    <2>1. /\ op.pc = "abort" /\ halted' = halted
          /\ op'.pc = IF env.kill THEN "halt" ELSE "idle"
      BY <1>5 DEF OpAbort, TypeOK, Op
    <2>2. env.kill => AllAborted'
      BY <1>5 DEF OpAbort, AllAborted, TypeOK, Job
    <2> QED
      BY <1>0, <1>1, <1>3, <1>4, <2>1, <2>2 DEF CallShape, KillLasts, Closing
  <1>6. CASE OpHalt
    <2>1. /\ op.pc = "halt" /\ halted' /\ op'.pc = "idle" /\ UNCHANGED job
      BY <1>6 DEF OpHalt, TypeOK, Op
    <2> QED
      BY <1>0, <1>1, <1>3, <1>4, <2>1 DEF CallShape, KillLasts, Closing, AllAborted
  <1> QED
    BY <1>5, <1>6

LEMMA KillStep == TypeOK /\ StopInv /\ KeyInv /\ NetInv /\ KillInv /\ [Next]_vars => KillInv'
  <1> SUFFICES ASSUME TypeOK, StopInv, KeyInv, NetInv, KillInv, [Next]_vars PROVE KillInv'
    OBVIOUS
  <1>1. CASE UNCHANGED vars
    <2>1. UNCHANGED <<net, job, flat, op, halted, refusals, env>>
      BY <1>1 DEF vars
    <2>2. Entries' = Entries /\ Entering' = Entering /\ NoFlat' = NoFlat
          /\ AllAborted' = AllAborted
      BY <2>1 DEF Entries, Entering, NoFlat, AllAborted, In
    <2>3. Covered' = Covered
      BY <2>1, <2>2 DEF Covered
    <2> QED
      BY <2>1, <2>2, <2>3 DEF KillInv, CallShape, KillLasts, Closing
  <1>2. \A j \in env.jobs : j \in Jobs
    BY EnvType
  <1> QED
    BY <1>1, <1>2, KillJobStep, KillFillStep, KillStartStep, KillNetStep, KillCancelStep,
       KillPlaceStep, KillEndStep DEF Next, OpStep

LEMMA KillInvHolds == TypeOK /\ StopInv /\ KillInv /\ env.flattens = 1 => KillHolds
  <1> SUFFICES ASSUME TypeOK, StopInv, KillInv, env.flattens = 1,
                      env.kill, op.pc = "idle", op.left = 0, refusals = 0,
                      \A n \in Sizes : ~Working(n)
               PROVE  /\ halted
                      /\ \A j \in env.jobs : job[j].aborted
                      /\ -net <= Cardinality({j \in env.jobs : In(j) /\ j \notin op.had})
    BY DEF KillHolds
  <1>0. \A n \in Sizes : flat[n] # "sent"
    BY DEF Working
  <1>1. halted /\ AllAborted /\ Covered
    BY DEF KillInv, KillLasts, Closing
  <1>2. Entering = {j \in env.jobs : In(j) /\ j \notin op.had}
    BY EnvType DEF Entering, StopInv, EntryFirst
  <1>3. -net <= Cardinality(Entering)
    BY <1>0, <1>1 DEF Covered
  <1> QED
    BY <1>1, <1>2, <1>3, EnvType DEF AllAborted

\* The one kill of the day, with none of its orders refused, closes everything
\* that was booked when it began, whatever fills, stops and exits come between
\* its steps, and leaves every job aborted and the desk halted.
THEOREM KillHoldsOnce == Spec => [](env.flattens = 1 => KillHolds)
  BY TypeInit, TypeStep, StopInit, StopStep, KeyInit, KeyStep, NetInit, NetStep, KillInit,
     KillStep, KillInvHolds, PTL DEF Spec

=============================================================================
