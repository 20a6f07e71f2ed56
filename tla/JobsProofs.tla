----------------------------- MODULE JobsProofs -----------------------------
(***************************************************************************)
(* Theorems about Jobs, for every set of calls, templates and strikes,     *)
(* every list of follow-ups, every number of attempts, and any number of   *)
(* rows, aborts, rejected adds, failed statements and restarts.            *)
(***************************************************************************)
EXTENDS Jobs, FiniteSetTheorems, SequenceTheorems, TLAPS

-----------------------------------------------------------------------------
(***************************************************************************)
(* Sequences                                                               *)
(***************************************************************************)

\* Replacing an element keeps the others.
LEMMA PutSeq ==
    ASSUME NEW S, NEW s \in Seq(S), NEW i \in DOMAIN s, NEW e \in S,
           NEW t, t = [s EXCEPT ![i] = e]
    PROVE  /\ t \in Seq(S) /\ Len(t) = Len(s) /\ DOMAIN t = DOMAIN s
           /\ t[i] = e /\ \A k \in DOMAIN s \ {i} : t[k] = s[k]
  <1>1. i \in 1..Len(s) /\ DOMAIN s = 1..Len(s)
    BY LenProperties
  <1> QED
    BY <1>1, ExceptSeq, LenProperties

\* Appending an element keeps the others.
LEMMA AddSeq ==
    ASSUME NEW S, NEW s \in Seq(S), NEW e \in S, NEW t, t = Append(s, e)
    PROVE  /\ t \in Seq(S) /\ Len(t) = Len(s) + 1
           /\ DOMAIN t = DOMAIN s \cup {Len(s) + 1} /\ Len(s) + 1 \notin DOMAIN s
           /\ t[Len(s) + 1] = e /\ \A k \in DOMAIN s : t[k] = s[k]
  <1>1. Len(s) \in Nat /\ DOMAIN s = 1..Len(s)
    BY LenProperties
  <1>2. t \in Seq(S) /\ Len(t) = Len(s) + 1 /\ \A k \in 1..Len(s) : t[k] = s[k]
        /\ t[Len(s) + 1] = e
    BY <1>1, AppendProperties
  <1>3. DOMAIN t = 1..(Len(s) + 1)
    BY <1>2, LenProperties
  <1> QED
    BY <1>1, <1>2, <1>3

-----------------------------------------------------------------------------
(***************************************************************************)
(* The inductive invariant                                                 *)
(***************************************************************************)

\* The rows a call holds: inserted and not yet done with.
Holds(q, r) == call[q].pc \in {"add", "queued", "reject"} /\ call[q].row = r

\* A row has at most one job, and the id it stores is that job.
Linked ==
    /\ Len(rows) <= MaxRows
    /\ \A j \in JobIds : jobs[j].row \in RowIds
    /\ \A i, j \in JobIds : jobs[i].row = jobs[j].row => i = j
    /\ \A r \in RowIds : rows[r].queueId # 0 =>
          rows[r].queueId \in JobIds /\ jobs[rows[r].queueId].row = r

\* Every call holds a row of its own, which has no job before the add and its
\* job after it.
Calls ==
    \A q \in Requests :
        /\ call[q].pc \in {"add", "queued", "reject"} => call[q].row \in RowIds
        /\ call[q].pc = "add" => \A j \in JobIds : jobs[j].row # call[q].row
        /\ call[q].pc = "queued" =>
              call[q].job \in JobIds /\ jobs[call[q].job].row = call[q].row
        /\ \A p \in Requests, r \in RowIds : Holds(q, r) /\ Holds(p, r) => p = q

\* What the worker has of a job in hand fits the state of the job in Redis.
JobOk(j) ==
    /\ steps[j].pc \in {"place", "arm", "throw"} => jobs[j].state = "active"
    /\ steps[j].pc = "completed" => jobs[j].state = "completed"
    /\ steps[j].pc \in {"failed", "failedWrite"} => jobs[j].state \in {"failed", "removed"}
    /\ steps[j].pc = "failedWrite" => steps[j].queueId \in {0, j}
    /\ Runnable(j) => jobs[j].tries < MaxAttempts
    /\ steps[j].pc = "arm" =>
          \A i \in 1..steps[j].armed : FollowUps[i] \in follow[jobs[j].row]
    /\ jobs[j].state = "completed" => AllArmed(jobs[j].row)

Worker == \A j \in JobIds : JobOk(j)

\* At most one row of a template is open, and a job that can still enter is
\* known only to an open row.
Opens ==
    /\ \A r, s \in RowIds :
          /\ rows[r].status \in OpenStatuses /\ rows[s].status \in OpenStatuses
          /\ rows[r].template = rows[s].template
          => r = s
    /\ \A j \in JobIds : Runnable(j) /\ rows[jobs[j].row].queueId = j =>
          rows[jobs[j].row].status \in OpenStatuses

\* The rows the boot sweep may still report, and those it has reported.
Swept ==
    lost \cup (IF sweep.pc = "list" THEN 1..sweep.old ELSE {})
         \cup {s.row : s \in sweep.todo}
         \cup (IF sweep.pc = "fail" THEN {sweep.at.row} ELSE {})

\* They are older than every call and every event handler at work, so that the
\* id the sweep has read is the id they store.
Sweeping ==
    /\ Swept \subseteq RowIds
    /\ \A q \in Requests, r \in Swept : ~Holds(q, r)
    /\ \A j \in JobIds : steps[j].pc = "failedWrite" /\ jobs[j].row \in Swept =>
          steps[j].queueId = rows[jobs[j].row].queueId
    /\ \A s \in sweep.todo : s.queueId = rows[s.row].queueId
    /\ sweep.pc = "fail" => /\ sweep.at.queueId = rows[sweep.at.row].queueId
                            /\ NeedsReconcile(sweep.at.queueId)
    /\ \A r \in lost : rows[r].queueId # 0 => jobs[rows[r].queueId].state = "removed"

JobsInv == Linked /\ Calls /\ Worker /\ Opens /\ Sweeping

\* The three properties follow.
LEMMA InvProperties ==
    TypeOK /\ JobsInv => OneKnownRun /\ CompletedIsArmed /\ LostIsLost
  <1> SUFFICES ASSUME TypeOK, JobsInv PROVE OneKnownRun /\ CompletedIsArmed /\ LostIsLost
    OBVIOUS
  <1>1. OneKnownRun
    <2> SUFFICES ASSUME NEW i \in JobIds, NEW j \in JobIds, Runnable(i), Runnable(j),
                        rows[jobs[i].row].queueId = i, rows[jobs[j].row].queueId = j,
                        rows[jobs[i].row].template = rows[jobs[j].row].template
                 PROVE  i = j
      BY DEF OneKnownRun
    <2>1. jobs[i].row \in RowIds /\ jobs[j].row \in RowIds
      BY DEF JobsInv, Linked
    <2>2. jobs[i].row = jobs[j].row
      BY <2>1 DEF JobsInv, Opens
    <2> QED
      BY <2>2
  <1>2. CompletedIsArmed
    BY DEF JobsInv, Worker, JobOk, CompletedIsArmed
  <1>3. LostIsLost
    <2> SUFFICES ASSUME NEW r \in lost, rows[r].queueId # 0, NEW j \in JobIds,
                        jobs[j].row = r
                 PROVE  ~Runnable(j)
      BY DEF LostIsLost
    <2>1. r \in RowIds
      BY DEF JobsInv, Sweeping, Swept
    <2>2. rows[r].queueId = j
      BY <2>1 DEF JobsInv, Linked
    <2> QED
      BY <2>2 DEF JobsInv, Sweeping, Runnable
  <1> QED
    BY <1>1, <1>2, <1>3

\* The rows and the jobs, spelled out for the provers.
LEMMA Shapes ==
    ASSUME TypeOK, JobsInv
    PROVE  /\ Len(rows) \in Nat /\ RowIds = 1..Len(rows)
           /\ Len(jobs) \in Nat /\ JobIds = 1..Len(jobs)
           /\ DOMAIN steps = JobIds /\ DOMAIN legs = RowIds /\ DOMAIN follow = RowIds
           /\ \A r \in RowIds : rows[r] \in JobRow /\ legs[r] \in SUBSET Strikes
                                /\ follow[r] \in SUBSET {"aso", "exit", "target"}
           /\ \A j \in JobIds : jobs[j] \in QueueJob /\ steps[j] \in Step
                                /\ jobs[j].row \in RowIds
  <1>1. /\ rows \in Seq(JobRow) /\ jobs \in Seq(QueueJob) /\ steps \in Seq(Step)
        /\ legs \in Seq(SUBSET Strikes) /\ follow \in Seq(SUBSET {"aso", "exit", "target"})
        /\ Len(steps) = Len(jobs) /\ Len(legs) = Len(rows) /\ Len(follow) = Len(rows)
    BY DEF TypeOK
  <1>2. \A j \in JobIds : jobs[j].row \in RowIds
    BY DEF JobsInv, Linked
  <1> QED
    BY <1>1, <1>2, LenProperties, ElementOfSeq DEF RowIds, JobIds

\* A row has one job at most, so there are no more jobs than rows.
LEMMA JobCount == ASSUME TypeOK, JobsInv PROVE Len(jobs) <= Len(rows)
  <1>0. Len(rows) \in Nat /\ Len(jobs) \in Nat /\ RowIds = 1..Len(rows) /\ JobIds = 1..Len(jobs)
    BY Shapes
  <1> SUFFICES ASSUME Len(jobs) > Len(rows) PROVE FALSE
    BY <1>0
  <1> DEFINE rowOf == [j \in JobIds |-> jobs[j].row]
  <1>1. IsFiniteSet(JobIds) /\ IsFiniteSet(RowIds)
        /\ Cardinality(JobIds) = Len(jobs) /\ Cardinality(RowIds) = Len(rows)
    <2>1. ASSUME NEW n \in Nat PROVE IsFiniteSet(1..n) /\ Cardinality(1..n) = n
      <3>1. 1 \in Int /\ n \in Int
        OBVIOUS
      <3>2. IsFiniteSet(1..n) /\ Cardinality(1..n) = IF 1 > n THEN 0 ELSE n - 1 + 1
        BY <3>1, FS_Interval, Zenon
      <3> QED
        BY <3>2
    <2> QED
      BY <1>0, <2>1
  <1>2. rowOf \in [JobIds -> RowIds]
    BY DEF JobsInv, Linked
  <1>3. \A i, j \in JobIds : rowOf[i] = rowOf[j] => i = j
    BY DEF JobsInv, Linked
  <1> HIDE DEF rowOf
  <1>4. Cardinality(RowIds) < Cardinality(JobIds)
    BY <1>0, <1>1
  <1>5. \E i, j \in JobIds : i # j /\ rowOf[i] = rowOf[j]
    BY <1>1, <1>2, <1>4, FS_PigeonHole
  <1> QED
    BY <1>3, <1>5

\* The id a row stores is none or the job of the row.
LEMMA StoredId ==
    ASSUME TypeOK, JobsInv, NEW j \in JobIds
    PROVE  rows[jobs[j].row].queueId \in {0, j}
  BY Shapes DEF JobsInv, Linked

LEMMA InitHolds == Init => TypeOK /\ JobsInv
  <1> SUFFICES ASSUME Init PROVE TypeOK /\ JobsInv
    OBVIOUS
  <1>1. /\ RowIds = {} /\ JobIds = {} /\ Len(rows) = 0 /\ Len(jobs) = 0
        /\ Len(steps) = 0 /\ Len(legs) = 0 /\ Len(follow) = 0
    BY EmptySeq DEF Init, RowIds, JobIds
  <1>2. call \in [Requests -> Call] /\ sweep \in Sweep /\ 0 \in 0..MaxFaults /\ 0 <= MaxRows
    BY JobsAssumption DEF Init, IdleCall, Call, SweepOff, Sweep, Listed
  <1>3. TypeOK
    BY <1>1, <1>2, EmptySeq DEF Init, TypeOK
  <1>4. Swept = {}
    BY DEF Init, Swept, SweepOff
  <1>5. \A q \in Requests : call[q].pc = "idle"
    BY DEF Init, IdleCall
  <1>6. Linked /\ Calls /\ Worker /\ Opens
    BY <1>1, <1>2, <1>5 DEF Linked, Calls, Worker, Opens, Holds
  <1>7. Sweeping
    BY <1>1, <1>4 DEF Sweeping, Init, SweepOff
  <1> QED
    BY <1>3, <1>6, <1>7 DEF JobsInv

-----------------------------------------------------------------------------
(***************************************************************************)
(* What keeps the invariant                                                *)
(***************************************************************************)

\* One job and the worker's hold on it change; the rows do not.
LEMMA QueueMove ==
    ASSUME TypeOK, JobsInv, NEW j \in JobIds,
           UNCHANGED <<rows, lost, call, sweep>>,
           JobIds' = JobIds,
           \A i \in JobIds \ {j} : jobs'[i] = jobs[i] /\ steps'[i] = steps[i],
           jobs'[j].row = jobs[j].row,
           \A r \in RowIds : follow[r] \subseteq follow'[r],
           Runnable(j)' => Runnable(j),
           jobs[j].state = "removed" => jobs'[j].state = "removed",
           steps'[j].pc = "failedWrite" => steps'[j].queueId = rows[jobs[j].row].queueId
                                           \/ steps'[j] = steps[j],
           JobOk(j)'
    PROVE  JobsInv'
  <1>0. RowIds' = RowIds /\ \A i \in JobIds : jobs'[i].row = jobs[i].row /\ jobs[i].row \in RowIds
    BY Shapes DEF RowIds
  <1>1. Linked'
    BY <1>0 DEF JobsInv, Linked
  <1>2. Calls'
    BY <1>0 DEF JobsInv, Calls, Holds
  <1>3. Worker'
    <2> SUFFICES ASSUME NEW i \in JobIds \ {j} PROVE JobOk(i)'
      BY DEF Worker
    <2>1. JobOk(i)
      BY DEF JobsInv, Worker
    <2> QED
      BY <1>0, <2>1 DEF JobOk, Runnable, AllArmed
  <1>4. Opens'
    BY <1>0 DEF JobsInv, Opens, Runnable
  <1>5. Sweeping'
    <2>1. Swept' = Swept
      BY DEF Swept
    <2>2. \A id : NeedsReconcile(id) => NeedsReconcile(id)'
      BY DEF NeedsReconcile
    <2>3. \A r \in lost : rows[r].queueId # 0 => jobs'[rows[r].queueId].state = "removed"
      <3> SUFFICES ASSUME NEW r \in lost, rows[r].queueId # 0
                   PROVE  jobs'[rows[r].queueId].state = "removed"
        OBVIOUS
      <3>1. r \in RowIds
        BY DEF JobsInv, Sweeping, Swept
      <3>2. rows[r].queueId \in JobIds /\ jobs[rows[r].queueId].state = "removed"
        BY <3>1 DEF JobsInv, Linked, Sweeping
      <3> QED
        BY <3>2
    <2>4. \A i \in JobIds : steps'[i].pc = "failedWrite" /\ jobs'[i].row \in Swept =>
             steps'[i].queueId = rows[jobs'[i].row].queueId
      BY <1>0 DEF JobsInv, Sweeping
    <2> QED
      BY <1>0, <2>1, <2>2, <2>3, <2>4 DEF JobsInv, Sweeping, Holds
  <1> QED
    BY <1>1, <1>2, <1>3, <1>4, <1>5 DEF JobsInv

\* A call ends or turns to its catch block, a handler ends; the stores do not
\* change.
LEMMA LocalMove ==
    ASSUME TypeOK, JobsInv, UNCHANGED <<rows, jobs, follow, lost, sweep>>,
           \A j \in JobIds : steps'[j] = steps[j] \/ steps'[j].pc = "none",
           \A q \in Requests :
              \/ call'[q] = call[q]
              \/ call'[q].pc \in {"idle", "insert"}
              \/ /\ call[q].pc \in {"add", "queued"} /\ call'[q].pc = "reject"
                 /\ call'[q].row = call[q].row
    PROVE  JobsInv'
  <1>0. RowIds' = RowIds /\ JobIds' = JobIds
    BY DEF RowIds, JobIds
  <1>1. Linked' /\ Opens'
    BY <1>0 DEF JobsInv, Linked, Opens, Runnable
  <1>2. \A q \in Requests, r \in RowIds : Holds(q, r)' => Holds(q, r)
    BY DEF Holds
  <1>3. Calls'
    BY <1>0, <1>2 DEF JobsInv, Calls
  <1>4. Worker'
    <2> SUFFICES ASSUME NEW j \in JobIds PROVE JobOk(j)'
      BY <1>0 DEF Worker
    <2>1. JobOk(j)
      BY DEF JobsInv, Worker
    <2> QED
      BY <2>1 DEF JobOk, Runnable, AllArmed
  <1>5. Swept' = Swept /\ Swept \subseteq RowIds
    BY DEF Swept, JobsInv, Sweeping
  <1>6. Sweeping'
    BY <1>0, <1>2, <1>5 DEF JobsInv, Sweeping, NeedsReconcile
  <1> QED
    BY <1>1, <1>3, <1>4, <1>6 DEF JobsInv

\* One row changes: it opens only if the index allows it, its id is its own
\* job's, and it keeps the id if the sweep may still report it.
LEMMA RowMove ==
    ASSUME TypeOK, JobsInv, UNCHANGED <<jobs, follow>>,
           NEW r \in RowIds, NEW rec, RowIds' = RowIds, Len(rows') = Len(rows),
           rows'[r] = rec, \A s \in RowIds \ {r} : rows'[s] = rows[s],
           rec.template = rows[r].template,
           \A j \in JobIds : steps'[j] = steps[j] \/ steps'[j].pc = "none",
           \A q \in Requests : call'[q] = call[q] \/ call'[q].pc = "idle",
           \/ UNCHANGED <<lost, sweep>>
           \/ /\ sweep'.pc # "fail" /\ Swept' \subseteq Swept /\ sweep'.todo \subseteq sweep.todo
              /\ lost' = lost \cup {r}
              /\ rec.queueId # 0 => jobs[rec.queueId].state = "removed",
           rec.status \in OpenStatuses =>
              rows[r].status \in OpenStatuses \/ IndexAllows(rec.template, r),
           rec.queueId # 0 => rec.queueId \in JobIds /\ jobs[rec.queueId].row = r,
           r \in Swept => rec.queueId = rows[r].queueId,
           \A j \in JobIds : Runnable(j) /\ jobs[j].row = r /\ rec.queueId = j =>
              rec.status \in OpenStatuses
    PROVE  JobsInv'
  <1>0. JobIds' = JobIds /\ \A j \in JobIds : jobs[j].row \in RowIds
    BY Shapes DEF JobIds
  <1>1. Linked'
    BY <1>0 DEF JobsInv, Linked
  <1>2. \A q \in Requests, s \in RowIds : Holds(q, s)' => Holds(q, s)
    BY DEF Holds
  <1>3. Calls'
    BY <1>0, <1>2 DEF JobsInv, Calls
  <1>4. Worker'
    <2> SUFFICES ASSUME NEW j \in JobIds PROVE JobOk(j)'
      BY <1>0 DEF Worker
    <2>1. JobOk(j)
      BY DEF JobsInv, Worker
    <2> QED
      BY <2>1 DEF JobOk, Runnable, AllArmed
  <1>5. Opens'
    <2>1. ASSUME NEW s \in RowIds, s # r, rows[s].status \in OpenStatuses,
                 rec.status \in OpenStatuses, rows[s].template = rec.template
          PROVE  FALSE
      BY <2>1 DEF JobsInv, Opens, IndexAllows, OpenRows
    <2>2. \A s, t \in RowIds :
             /\ rows'[s].status \in OpenStatuses /\ rows'[t].status \in OpenStatuses
             /\ rows'[s].template = rows'[t].template
             => s = t
      BY <2>1 DEF JobsInv, Opens
    <2>3. \A j \in JobIds : Runnable(j)' /\ rows'[jobs[j].row].queueId = j =>
             rows'[jobs[j].row].status \in OpenStatuses
      BY <1>0 DEF JobsInv, Opens, Runnable
    <2> QED
      BY <1>0, <2>2, <2>3 DEF Opens
  <1>6. Sweeping'
    <2>1. /\ Swept' \subseteq Swept /\ Swept \subseteq RowIds /\ sweep'.todo \subseteq sweep.todo
          /\ sweep'.pc = "fail" => sweep' = sweep
      BY DEF Swept, JobsInv, Sweeping
    <2>2. \A s \in Swept : rows'[s].queueId = rows[s].queueId
      BY <2>1
    <2>3. \A s \in sweep.todo : s.row \in Swept
      BY DEF Swept
    <2>4. sweep.pc = "fail" => sweep.at.row \in Swept
      BY DEF Swept
    <2>5. \A s \in lost' : rows'[s].queueId # 0 => jobs'[rows'[s].queueId].state = "removed"
      BY <2>1, <2>2 DEF JobsInv, Sweeping, Swept
    <2>7. \A q \in Requests, s \in Swept' : ~Holds(q, s)'
      BY <1>2, <2>1 DEF JobsInv, Sweeping
    <2>8. \A j \in JobIds : steps'[j].pc = "failedWrite" /\ jobs'[j].row \in Swept' =>
             steps'[j].queueId = rows'[jobs'[j].row].queueId
      BY <2>1, <2>2 DEF JobsInv, Sweeping
    <2>9. \A s \in sweep'.todo : s.queueId = rows'[s.row].queueId
      BY <2>1, <2>2, <2>3 DEF JobsInv, Sweeping
    <2>10. (sweep.pc = "fail" => /\ sweep.at.queueId = rows[sweep.at.row].queueId
                                 /\ NeedsReconcile(sweep.at.queueId))'
      BY <2>1, <2>2, <2>4 DEF JobsInv, Sweeping, NeedsReconcile, JobIds
    <2> QED
      BY <1>0, <2>1, <2>5, <2>7, <2>8, <2>9, <2>10 DEF Sweeping
  <1> QED
    BY <1>1, <1>3, <1>4, <1>5, <1>6 DEF JobsInv

\* What writing one call, row, job or step changes.
LEMMA CallPut ==
    ASSUME TypeOK, NEW q \in Requests, NEW local \in Call, SetCall(q, local)
    PROVE  /\ call' \in [Requests -> Call] /\ call'[q] = local
           /\ \A p \in Requests \ {q} : call'[p] = call[p]
  BY DEF SetCall, TypeOK

LEMMA RowPut ==
    ASSUME TypeOK, NEW r \in RowIds, NEW rec \in JobRow, SetRow(r, rec)
    PROVE  /\ rows' \in Seq(JobRow) /\ Len(rows') = Len(rows) /\ RowIds' = RowIds
           /\ rows'[r] = rec /\ \A s \in RowIds \ {r} : rows'[s] = rows[s]
  BY PutSeq DEF SetRow, TypeOK, RowIds

LEMMA JobPut ==
    ASSUME TypeOK, NEW j \in JobIds, NEW rec \in QueueJob, jobs' = [jobs EXCEPT ![j] = rec]
    PROVE  /\ jobs' \in Seq(QueueJob) /\ Len(jobs') = Len(jobs) /\ JobIds' = JobIds
           /\ jobs'[j] = rec /\ \A i \in JobIds \ {j} : jobs'[i] = jobs[i]
  BY PutSeq DEF TypeOK, JobIds

LEMMA StepPut ==
    ASSUME TypeOK, JobsInv, NEW j \in JobIds, NEW st \in Step, steps' = [steps EXCEPT ![j] = st]
    PROVE  /\ steps' \in Seq(Step) /\ Len(steps') = Len(steps)
           /\ steps'[j] = st /\ \A i \in JobIds \ {j} : steps'[i] = steps[i]
  <1>1. j \in DOMAIN steps /\ DOMAIN steps = JobIds
    BY Shapes
  <1> QED
    BY <1>1, PutSeq DEF TypeOK

LEMMA NoStepType ==
    \A pc \in {"none", "place", "arm", "throw", "completed", "failed", "failedWrite"} :
        /\ [NoStep EXCEPT !.pc = pc] \in Step
        /\ [NoStep EXCEPT !.pc = pc].pc = pc
        /\ [NoStep EXCEPT !.pc = pc].armed = 0
        /\ [NoStep EXCEPT !.pc = pc].queueId = 0
  <1>1. Len(FollowUps) \in Nat
    BY JobsAssumption, LenProperties
  <1> QED
    BY <1>1 DEF NoStep, Step

\* A fault more stays within the bound.
LEMMA FaultType ==
    ASSUME TypeOK
    PROVE  /\ MayFail /\ redisFails' = redisFails + 1 => redisFails' \in 0..MaxFaults
           /\ DbFails => dbErrors' \in 0..MaxFaults
           /\ MayFail /\ crashes' = crashes + 1 => crashes' \in 0..MaxFaults
  BY SMTT(30), JobsAssumption DEF TypeOK, MayFail, DbFails

-----------------------------------------------------------------------------
(***************************************************************************)
(* The steps of enqueueTradeJob                                            *)
(***************************************************************************)
LEMMA SelectOpenStep ==
    ASSUME TypeOK, JobsInv, NEW q \in Requests, SelectOpen(q)
    PROVE  TypeOK' /\ JobsInv'
  <1>1. [IdleCall EXCEPT !.pc = "insert"] \in Call
    BY DEF IdleCall, Call
  <1>2. /\ call' \in [Requests -> Call] /\ call'[q].pc = "insert"
        /\ \A p \in Requests \ {q} : call'[p] = call[p]
    BY <1>1, CallPut DEF SelectOpen, IdleCall
  <1>3. TypeOK'
    BY <1>2 DEF SelectOpen, queueVars, deskVars, TypeOK
  <1>4. JobsInv'
    BY <1>2, LocalMove DEF SelectOpen, queueVars, deskVars
  <1> QED
    BY <1>3, <1>4

\* The new row has no job, no call holds it yet, and the sweep is about older
\* rows.
LEMMA InsertRowStep ==
    ASSUME TypeOK, JobsInv, NEW q \in Requests, InsertRow(q)
    PROVE  TypeOK' /\ JobsInv'
  <1> DEFINE r == Len(rows) + 1
             rec == [template |-> TemplateOf[q], status |-> "PENDING", queueId |-> 0,
                     abort |-> FALSE]
             local == [call[q] EXCEPT !.pc = "add", !.row = r]
  <1>0. /\ Len(rows) \in Nat /\ RowIds = 1..Len(rows) /\ Len(rows) + 1 \notin RowIds
        /\ \A j \in JobIds : jobs[j].row \in RowIds
    BY Shapes
  <1>1. UNCHANGED <<jobs, steps, alerts, lost, redisFails, dbErrors, aborting, sweep, crashes>>
    BY DEF InsertRow, deskVars
  <1>2. CASE /\ ~IndexAllows(TemplateOf[q], r) /\ SetCall(q, IdleCall)
             /\ UNCHANGED <<rows, legs, follow>>
    <2>1. IdleCall \in Call /\ IdleCall.pc = "idle"
      BY DEF IdleCall, Call
    <2>2. /\ call' \in [Requests -> Call] /\ call'[q].pc = "idle"
          /\ \A p \in Requests \ {q} : call'[p] = call[p]
      BY <1>2, <2>1, CallPut
    <2>3. TypeOK'
      BY <1>1, <1>2, <2>2 DEF TypeOK
    <2>4. JobsInv'
      BY <1>1, <1>2, <2>2, LocalMove
    <2> QED
      BY <2>3, <2>4
  <1>3. CASE /\ IndexAllows(TemplateOf[q], r) /\ Len(rows) < MaxRows
             /\ rows' = Append(rows, rec) /\ legs' = Append(legs, {})
             /\ follow' = Append(follow, {}) /\ SetCall(q, local)
    <2>1. rec \in JobRow /\ local \in Call /\ local.pc = "add" /\ local.row = r
      <3>1. rec \in JobRow
        BY JobsAssumption DEF JobRow, JobStatus
      <3>2. call[q] \in Call /\ r \in Nat
        BY <1>0 DEF TypeOK
      <3>3. local \in Call /\ local.pc = "add" /\ local.row = r
        BY <3>2 DEF Call
      <3> QED
        BY <3>1, <3>3
    <2>2. /\ rec.template = TemplateOf[q] /\ rec.status \in OpenStatuses /\ rec.queueId = 0
      BY DEF OpenStatuses
    <2> HIDE DEF rec, local
    <2>3. /\ rows' \in Seq(JobRow) /\ Len(rows') = Len(rows) + 1 /\ RowIds' = RowIds \cup {r}
          /\ rows'[r] = rec /\ \A s \in RowIds : rows'[s] = rows[s]
      BY <1>3, <2>1, AddSeq DEF TypeOK, RowIds
    <2>4. /\ legs' \in Seq(SUBSET Strikes) /\ Len(legs') = Len(rows) + 1
      BY <1>3, AddSeq DEF TypeOK
    <2>5. /\ follow' \in Seq(SUBSET {"aso", "exit", "target"}) /\ Len(follow') = Len(rows) + 1
          /\ \A s \in RowIds : follow'[s] = follow[s]
      <3>1. /\ follow \in Seq(SUBSET {"aso", "exit", "target"}) /\ DOMAIN follow = RowIds
            /\ Len(follow) = Len(rows)
        BY Shapes DEF TypeOK
      <3>2. {} \in SUBSET {"aso", "exit", "target"}
        OBVIOUS
      <3> QED
        BY <1>3, <3>1, <3>2, AddSeq
    <2>6. /\ call' \in [Requests -> Call] /\ call'[q] = local
          /\ \A p \in Requests \ {q} : call'[p] = call[p]
      BY <1>3, <2>1, CallPut
    <2>7. TypeOK'
      BY <1>1, <2>3, <2>4, <2>5, <2>6 DEF TypeOK
    <2>8. Linked'
      BY <1>0, <1>1, <1>3, <2>2, <2>3, JobsAssumption DEF JobsInv, Linked, JobIds
    <2>9. \A p \in Requests, s \in RowIds' : Holds(p, s)' =>
             (p = q /\ s = r) \/ (s \in RowIds /\ Holds(p, s) /\ p # q)
      BY <1>0, <2>1, <2>3, <2>6 DEF Holds, JobsInv, Calls
    <2>10. Calls'
      <3>1. \A p \in Requests :
               /\ call'[p].pc \in {"add", "queued", "reject"} => call'[p].row \in RowIds'
               /\ call'[p].pc = "add" => \A j \in JobIds : jobs[j].row # call'[p].row
               /\ call'[p].pc = "queued" =>
                     call'[p].job \in JobIds /\ jobs[call'[p].job].row = call'[p].row
        BY <1>0, <2>1, <2>3, <2>6 DEF JobsInv, Calls
      <3>2. \A p, o \in Requests, s \in RowIds' : Holds(p, s)' /\ Holds(o, s)' => p = o
        BY <1>0, <2>9 DEF JobsInv, Calls
      <3> QED
        BY <1>1, <3>1, <3>2 DEF Calls, JobIds
    <2>11. Worker'
      <3> SUFFICES ASSUME NEW j \in JobIds PROVE JobOk(j)'
        BY <1>1 DEF Worker, JobIds
      <3>1. JobOk(j)
        BY DEF JobsInv, Worker
      <3> QED
        BY <1>0, <1>1, <2>5, <3>1 DEF JobOk, Runnable, AllArmed
    <2>12. Opens'
      <3>1. \A s \in RowIds : ~(rows[s].status \in OpenStatuses /\ rows[s].template = rec.template)
        BY <1>0, <1>3, <2>2 DEF IndexAllows, OpenRows
      <3> QED
        BY <1>0, <1>1, <2>2, <2>3, <3>1 DEF JobsInv, Opens, JobIds, Runnable
    <2>13. Sweeping'
      <3>1. Swept' = Swept /\ Swept \subseteq RowIds
        BY <1>1 DEF JobsInv, Sweeping, Swept
      <3>2. /\ \A s \in sweep.todo : s.row \in Swept
            /\ sweep.pc = "fail" => sweep.at.row \in Swept
            /\ lost \subseteq Swept
        BY DEF Swept
      <3>3. \A s \in Swept : rows'[s] = rows[s]
        BY <2>3, <3>1
      <3>4. \A p \in Requests, s \in Swept : ~Holds(p, s)'
        BY <1>0, <2>3, <2>9, <3>1 DEF JobsInv, Sweeping
      <3> QED
        BY <1>1, <2>3, <3>1, <3>2, <3>3, <3>4 DEF JobsInv, Sweeping, NeedsReconcile, JobIds
    <2> QED
      BY <2>7, <2>8, <2>10, <2>11, <2>12, <2>13 DEF JobsInv
  <1> QED
    BY <1>2, <1>3 DEF InsertRow

\* The job that is added is the first of its row.
LEMMA AddJobStep ==
    ASSUME TypeOK, JobsInv, NEW q \in Requests, AddJob(q)
    PROVE  TypeOK' /\ JobsInv'
  <1>n. PICK n \in Nat : n = Len(jobs) + 1
    BY Shapes
  <1> DEFINE rec == [row |-> call[q].row, late |-> FALSE, tries |-> 0, state |-> "waiting"]
             over == [call[q] EXCEPT !.pc = "reject"]
             done == [call[q] EXCEPT !.pc = "queued", !.job = n]
  <1>0. /\ Len(jobs) \in Nat /\ n = Len(jobs) + 1 /\ JobIds = 1..Len(jobs) /\ n \notin JobIds /\ n # 0
        /\ DOMAIN steps = JobIds /\ Len(steps) = Len(jobs)
        /\ \A j \in JobIds : jobs[j].row \in RowIds
    BY <1>n, Shapes DEF TypeOK
  <1>1. /\ UNCHANGED <<rows, legs, follow, alerts, lost, redisFails, dbErrors, aborting,
                       sweep, crashes>>
        /\ call[q].pc = "add" /\ call[q] \in Call
    BY DEF AddJob, deskVars, TypeOK
  <1>2. call[q].row \in RowIds /\ \A j \in JobIds : jobs[j].row # call[q].row
    BY <1>1 DEF JobsInv, Calls
  <1>3. CASE SetCall(q, over) /\ UNCHANGED <<jobs, steps>>
    <2>1. over \in Call /\ over.pc = "reject" /\ over.row = call[q].row
      BY <1>1 DEF Call
    <2> HIDE DEF over
    <2>2. /\ call' \in [Requests -> Call] /\ call'[q] = over
          /\ \A p \in Requests \ {q} : call'[p] = call[p]
      BY <1>3, <2>1, CallPut
    <2>3. TypeOK'
      BY <1>1, <1>3, <2>2 DEF TypeOK
    <2>4. JobsInv'
      BY <1>1, <1>3, <2>1, <2>2, LocalMove
    <2> QED
      BY <2>3, <2>4
  <1>4. CASE /\ jobs' = Append(jobs, rec) /\ steps' = Append(steps, NoStep)
             /\ SetCall(q, done)
    <2>1. rec \in QueueJob /\ rec.row = call[q].row /\ rec.state = "waiting" /\ rec.tries = 0
      BY <1>1, JobsAssumption DEF QueueJob, Call
    <2>2. done \in Call /\ done.pc = "queued" /\ done.row = call[q].row /\ done.job = n
      BY <1>0, <1>1 DEF Call
    <2> HIDE DEF rec, done
    <2>3. /\ jobs' \in Seq(QueueJob) /\ Len(jobs') = Len(jobs) + 1 /\ JobIds' = JobIds \cup {n}
          /\ jobs'[n] = rec /\ \A j \in JobIds : jobs'[j] = jobs[j]
      BY <1>0, <1>4, <2>1, AddSeq DEF TypeOK, JobIds
    <2>4. /\ steps' \in Seq(Step) /\ Len(steps') = Len(steps) + 1
          /\ steps'[n] = NoStep /\ \A j \in JobIds : steps'[j] = steps[j]
      <3>1. NoStep \in Step
        BY JobsAssumption, LenProperties DEF NoStep, Step
      <3> QED
        BY <1>0, <1>4, <3>1, AddSeq DEF TypeOK
    <2>5. /\ call' \in [Requests -> Call] /\ call'[q] = done
          /\ \A p \in Requests \ {q} : call'[p] = call[p]
      BY <1>4, <2>2, CallPut
    <2>6. TypeOK'
      BY <1>0, <1>1, <2>3, <2>4, <2>5 DEF TypeOK
    <2>7. RowIds' = RowIds /\ \A r \in RowIds : rows[r].queueId # n
      BY <1>0, <1>1 DEF JobsInv, Linked, RowIds
    <2>8. Linked'
      BY <1>0, <1>1, <1>2, <2>1, <2>3, <2>7 DEF JobsInv, Linked
    <2>9. \A p \in Requests, r \in RowIds : Holds(p, r)' <=> Holds(p, r)
      BY <1>1, <2>2, <2>5 DEF Holds
    <2>10. Calls'
      <3>1. ASSUME NEW p \in Requests \ {q}, call[p].pc = "add"
            PROVE  \A j \in JobIds' : jobs'[j].row # call[p].row
        <4>1. call[p].row # call[q].row
          BY <1>1, <1>2, <3>1 DEF JobsInv, Calls, Holds
        <4> QED
          BY <2>1, <2>3, <3>1, <4>1 DEF JobsInv, Calls
      <3>2. \A p \in Requests :
               /\ call'[p].pc \in {"add", "queued", "reject"} => call'[p].row \in RowIds
               /\ call'[p].pc = "add" => \A j \in JobIds' : jobs'[j].row # call'[p].row
               /\ call'[p].pc = "queued" =>
                     call'[p].job \in JobIds' /\ jobs'[call'[p].job].row = call'[p].row
        BY <1>0, <1>2, <2>1, <2>2, <2>3, <2>5, <3>1 DEF JobsInv, Calls
      <3>3. \A p, o \in Requests, r \in RowIds : Holds(p, r)' /\ Holds(o, r)' => p = o
        BY <2>9 DEF JobsInv, Calls
      <3> QED
        BY <2>7, <3>2, <3>3 DEF Calls
    <2>11. Worker'
      <3>1. ASSUME NEW j \in JobIds PROVE JobOk(j)'
        <4>1. JobOk(j)
          BY DEF JobsInv, Worker
        <4> QED
          BY <1>1, <2>3, <2>4, <4>1 DEF JobOk, Runnable, AllArmed
      <3>2. JobOk(n)'
        BY <2>1, <2>3, <2>4, JobsAssumption DEF JobOk, NoStep, Runnable
      <3> QED
        BY <2>3, <3>1, <3>2 DEF Worker
    <2>12. Opens'
      BY <1>1, <1>2, <2>1, <2>3, <2>7 DEF JobsInv, Opens, Runnable
    <2>13. Sweeping'
      <3>1. Swept' = Swept /\ Swept \subseteq RowIds
        BY <1>1 DEF JobsInv, Sweeping, Swept
      <3>2. \A p \in Requests, r \in Swept : ~Holds(p, r)'
        BY <2>9, <3>1 DEF JobsInv, Sweeping
      <3>3. \A j \in JobIds' : steps'[j].pc = "failedWrite" /\ jobs'[j].row \in Swept =>
               steps'[j].queueId = rows[jobs'[j].row].queueId
        BY <2>3, <2>4 DEF JobsInv, Sweeping, NoStep
      <3>4. (sweep.pc = "fail" => /\ sweep.at.queueId = rows[sweep.at.row].queueId
                                  /\ NeedsReconcile(sweep.at.queueId))'
        <4>1. sweep.pc = "fail" => sweep.at.row \in RowIds
          BY <3>1 DEF Swept
        <4>2. sweep.pc = "fail" => sweep.at.queueId # n
          BY <2>7, <4>1 DEF JobsInv, Sweeping
        <4> QED
          BY <1>1, <2>3, <4>2 DEF JobsInv, Sweeping, NeedsReconcile
      <3>5. \A r \in lost : rows[r].queueId # 0 => jobs'[rows[r].queueId].state = "removed"
        <4>1. \A r \in lost : r \in RowIds
          BY <3>1 DEF Swept
        <4> QED
          BY <2>3, <4>1 DEF JobsInv, Linked, Sweeping
      <3> QED
        BY <1>1, <2>7, <3>1, <3>2, <3>3, <3>4, <3>5 DEF JobsInv, Sweeping
    <2> QED
      BY <2>6, <2>8, <2>10, <2>11, <2>12, <2>13 DEF JobsInv
  <1> QED
    BY <1>0, <1>3, <1>4 DEF AddJob

\* The row the call holds is newer than any the sweep is about, and its job is
\* the one the call added.
LEMMA MarkQueuedStep ==
    ASSUME TypeOK, JobsInv, NEW q \in Requests, MarkQueued(q)
    PROVE  TypeOK' /\ JobsInv'
  <1> DEFINE r == call[q].row
             rec == [rows[r] EXCEPT !.status = "QUEUE", !.queueId = call[q].job]
             over == [call[q] EXCEPT !.pc = "reject"]
  <1>1. /\ UNCHANGED <<alerts, lost, jobs, steps, legs, follow, redisFails, aborting,
                       sweep, crashes>>
        /\ call[q].pc = "queued" /\ call[q] \in Call
    BY DEF MarkQueued, queueVars, deskVars, TypeOK
  <1>2. /\ r \in RowIds /\ call[q].job \in JobIds /\ jobs[call[q].job].row = r
        /\ rows[r] \in JobRow /\ Holds(q, r)
    BY <1>1, Shapes DEF JobsInv, Calls, Holds
  <1>3. over \in Call /\ over.pc = "reject" /\ over.row = r
    BY <1>1 DEF Call
  <1>4. rec \in JobRow /\ rec.template = rows[r].template /\ rec.status = "QUEUE"
        /\ rec.queueId = call[q].job
    BY <1>1, <1>2 DEF JobRow, JobStatus, Call
  <1>5. IdleCall \in Call /\ IdleCall.pc = "idle"
    BY DEF IdleCall, Call
  <1> HIDE DEF over, rec, r
  <1>6. CASE /\ IndexAllows(rows[r].template, r) /\ SetRow(r, rec) /\ SetCall(q, IdleCall)
             /\ UNCHANGED dbErrors
    <2>1. /\ rows' \in Seq(JobRow) /\ Len(rows') = Len(rows) /\ RowIds' = RowIds
          /\ rows'[r] = rec /\ \A s \in RowIds \ {r} : rows'[s] = rows[s]
      BY <1>2, <1>4, <1>6, RowPut
    <2>2. /\ call' \in [Requests -> Call] /\ call'[q].pc = "idle"
          /\ \A p \in Requests \ {q} : call'[p] = call[p]
      BY <1>5, <1>6, CallPut
    <2>3. TypeOK'
      BY <1>1, <1>6, <2>1, <2>2 DEF TypeOK
    <2>4. r \notin Swept
      BY <1>2 DEF JobsInv, Sweeping
    <2>5. JobsInv'
      BY <1>1, <1>2, <1>4, <1>6, <2>1, <2>2, <2>4, RowMove DEF OpenStatuses
    <2> QED
      BY <2>3, <2>5
  <1>7. CASE SetCall(q, over) /\ UNCHANGED rows /\ (DbFails \/ UNCHANGED dbErrors)
    <2>1. /\ call' \in [Requests -> Call] /\ call'[q] = over
          /\ \A p \in Requests \ {q} : call'[p] = call[p]
      BY <1>3, <1>7, CallPut
    <2>2. TypeOK'
      BY <1>1, <1>7, <2>1, FaultType DEF TypeOK
    <2>3. JobsInv'
      BY <1>1, <1>3, <1>7, <2>1, LocalMove DEF r
    <2> QED
      BY <2>2, <2>3
  <1> QED
    BY <1>6, <1>7 DEF MarkQueued, r, rec, over

LEMMA MarkRejectedStep ==
    ASSUME TypeOK, JobsInv, NEW q \in Requests, MarkRejected(q)
    PROVE  TypeOK' /\ JobsInv'
  <1> DEFINE r == call[q].row
             rec == [rows[r] EXCEPT !.status = "REJECT", !.queueId = 0]
  <1>1. /\ UNCHANGED <<lost, jobs, steps, legs, follow, redisFails, aborting, sweep, crashes>>
        /\ call[q].pc = "reject" /\ call[q] \in Call
    BY DEF MarkRejected, queueVars, deskVars, TypeOK
  <1>2. r \in RowIds /\ r \in Nat /\ rows[r] \in JobRow /\ Holds(q, r)
    BY <1>1, Shapes DEF JobsInv, Calls, Holds
  <1>3. rec \in JobRow /\ rec.template = rows[r].template /\ rec.status = "REJECT"
        /\ rec.queueId = 0
    BY <1>2 DEF JobRow, JobStatus
  <1>4. IdleCall \in Call /\ IdleCall.pc = "idle"
    BY DEF IdleCall, Call
  <1> HIDE DEF rec, r
  <1>5. /\ call' \in [Requests -> Call] /\ call'[q].pc = "idle"
        /\ \A p \in Requests \ {q} : call'[p] = call[p]
    BY <1>4, CallPut DEF MarkRejected
  <1>6. CASE SetRow(r, rec) /\ alerts' = alerts \cup {r} /\ UNCHANGED dbErrors
    <2>1. /\ rows' \in Seq(JobRow) /\ Len(rows') = Len(rows) /\ RowIds' = RowIds
          /\ rows'[r] = rec /\ \A s \in RowIds \ {r} : rows'[s] = rows[s]
      BY <1>2, <1>3, <1>6, RowPut
    <2>2. TypeOK'
      BY <1>1, <1>2, <1>5, <1>6, <2>1 DEF TypeOK
    <2>3. r \notin Swept
      BY <1>2 DEF JobsInv, Sweeping
    <2>4. \A j \in JobIds : j # 0
      BY Shapes
    <2>5. JobsInv'
      BY <1>1, <1>2, <1>3, <1>5, <2>1, <2>3, <2>4, RowMove DEF OpenStatuses
    <2> QED
      BY <2>2, <2>5
  <1>7. CASE DbFails /\ UNCHANGED <<rows, alerts>>
    <2>1. TypeOK'
      BY <1>1, <1>5, <1>7, FaultType DEF TypeOK
    <2>2. JobsInv'
      BY <1>1, <1>5, <1>7, LocalMove
    <2> QED
      BY <2>1, <2>2
  <1> QED
    BY <1>6, <1>7 DEF MarkRejected, r, rec

-----------------------------------------------------------------------------
(***************************************************************************)
(* The steps of the worker                                                 *)
(***************************************************************************)

\* What a job and the worker's hold on it become, and the invariant of both, is
\* all that a step of the worker on the queue has to show.
LEMMA WorkerMove ==
    ASSUME TypeOK, JobsInv, NEW j \in JobIds,
           NEW rec \in QueueJob, NEW st \in Step,
           \/ jobs' = [jobs EXCEPT ![j] = rec]
           \/ jobs' = jobs /\ rec = jobs[j],
           \/ steps' = [steps EXCEPT ![j] = st]
           \/ steps' = steps /\ st = steps[j],
           UNCHANGED <<rows, alerts, lost, aborting, call, sweep, crashes>>,
           {redisFails', dbErrors'} \subseteq 0..MaxFaults,
           follow' \in Seq(SUBSET {"aso", "exit", "target"}), Len(follow') = Len(follow),
           legs' \in Seq(SUBSET Strikes), Len(legs') = Len(legs),
           \A r \in RowIds : follow[r] \subseteq follow'[r],
           rec.row = jobs[j].row,
           rec.state \in {"waiting", "active"} => Runnable(j),
           jobs[j].state = "removed" => rec.state = "removed",
           st.pc = "failedWrite" => st.queueId = rows[jobs[j].row].queueId \/ st = steps[j],
           JobOk(j)'
    PROVE  TypeOK' /\ JobsInv'
  <1>1. /\ jobs' \in Seq(QueueJob) /\ Len(jobs') = Len(jobs) /\ JobIds' = JobIds
        /\ jobs'[j] = rec /\ \A i \in JobIds \ {j} : jobs'[i] = jobs[i]
    BY JobPut DEF TypeOK, JobIds
  <1>2. /\ steps' \in Seq(Step) /\ Len(steps') = Len(steps)
        /\ steps'[j] = st /\ \A i \in JobIds \ {j} : steps'[i] = steps[i]
    BY StepPut DEF TypeOK
  <1>3. TypeOK'
    BY <1>1, <1>2 DEF TypeOK
  <1>4. Runnable(j)' => Runnable(j)
    BY <1>1 DEF Runnable
  <1>5. JobsInv'
    BY <1>1, <1>2, <1>4, QueueMove
  <1> QED
    BY <1>3, <1>5

\* What the worker does not write.
LEMMA WorkerFrame ==
    ASSUME TypeOK, UNCHANGED <<alerts, dbErrors, handlerVars>>, UNCHANGED redisFails
    PROVE  /\ UNCHANGED <<alerts, lost, aborting, call, sweep, crashes>>
           /\ {redisFails', dbErrors'} \subseteq 0..MaxFaults
  BY DEF handlerVars, deskVars, TypeOK

LEMMA StartStep ==
    ASSUME TypeOK, JobsInv, NEW j \in JobIds, Start(j)
    PROVE  TypeOK' /\ JobsInv'
  <1> DEFINE rec == [jobs[j] EXCEPT !.state = "active"]
  <1>1. /\ UNCHANGED <<rows, legs, follow>>
        /\ UNCHANGED <<alerts, lost, aborting, call, sweep, crashes>>
        /\ {redisFails', dbErrors'} \subseteq 0..MaxFaults
        /\ jobs[j].state = "waiting" /\ jobs' = [jobs EXCEPT ![j] = rec]
    BY WorkerFrame DEF Start, workerVars, SetJob
  <1>2. jobs[j] \in QueueJob
    BY Shapes
  <1>3. rec \in QueueJob /\ rec.row = jobs[j].row /\ rec.state = "active"
        /\ rec.tries = jobs[j].tries
    BY <1>2 DEF QueueJob
  <1> HIDE DEF rec
  <1>4. PICK st \in Step : steps' = [steps EXCEPT ![j] = st] /\ st.pc \in {"throw", "place"}
    <2>1. \A e \in SUBSET Strikes :
             /\ [NoStep EXCEPT !.pc = "place", !.entering = e] \in Step
             /\ [NoStep EXCEPT !.pc = "place", !.entering = e].pc = "place"
      <3>1. NoStep \in Step
        BY JobsAssumption, LenProperties DEF NoStep, Step
      <3> QED
        BY <3>1 DEF Step
    <2>2. CASE SetStep(j, "throw")
      BY <2>2, NoStepType DEF SetStep
    <2>3. ASSUME NEW e \in {{}} \cup {{s} : s \in Strikes},
                 steps' = [steps EXCEPT ![j] = [NoStep EXCEPT !.pc = "place", !.entering = e]]
          PROVE  \E st \in Step : steps' = [steps EXCEPT ![j] = st] /\ st.pc \in {"throw", "place"}
      <3>1. e \in SUBSET Strikes
        BY <2>3
      <3> QED
        BY <2>1, <2>3, <3>1
    <2> QED
      BY <2>2, <2>3 DEF Start
  <1>5. jobs'[j] = rec /\ steps'[j] = st
    BY <1>1, <1>3, <1>4, JobPut, StepPut
  <1>6. JobOk(j)'
    <2>1. JobOk(j)
      BY DEF JobsInv, Worker
    <2> QED
      BY <1>1, <1>3, <1>4, <1>5, <2>1 DEF JobOk, Runnable
  <1>7. legs \in Seq(SUBSET Strikes) /\ follow \in Seq(SUBSET {"aso", "exit", "target"})
    BY DEF TypeOK
  <1> QED
    BY <1>1, <1>3, <1>4, <1>6, <1>7, WorkerMove DEF Runnable

LEMMA PlaceStep ==
    ASSUME TypeOK, JobsInv, NEW j \in JobIds, Place(j)
    PROVE  TypeOK' /\ JobsInv'
  <1>1. /\ UNCHANGED <<rows, jobs, follow>>
        /\ UNCHANGED <<alerts, lost, aborting, call, sweep, crashes>>
        /\ {redisFails', dbErrors'} \subseteq 0..MaxFaults
        /\ steps[j].pc = "place"
    BY WorkerFrame DEF Place, workerVars
  <1>2. /\ jobs[j] \in QueueJob /\ steps[j].entering \in SUBSET Strikes
        /\ jobs[j].row \in DOMAIN legs
        /\ legs \in Seq(SUBSET Strikes) /\ legs[jobs[j].row] \in SUBSET Strikes
        /\ follow \in Seq(SUBSET {"aso", "exit", "target"})
    BY Shapes DEF TypeOK, Step
  <1>3. PICK st \in Step : steps' = [steps EXCEPT ![j] = st] /\ st.pc \in {"arm", "throw"}
                           /\ st.armed = 0
    BY NoStepType DEF Place, SetStep
  <1>4. PICK set \in SUBSET Strikes : legs' = [legs EXCEPT ![jobs[j].row] = set]
    BY <1>2 DEF Place
  <1>5. legs' \in Seq(SUBSET Strikes) /\ Len(legs') = Len(legs)
    BY <1>2, <1>4, PutSeq
  <1>6. steps'[j] = st
    BY <1>3, StepPut
  <1>7. JobOk(j)'
    <2>1. JobOk(j)
      BY DEF JobsInv, Worker
    <2> QED
      BY <1>1, <1>3, <1>6, <2>1 DEF JobOk, Runnable
  <1> QED
    BY <1>1, <1>2, <1>3, <1>5, <1>7, WorkerMove DEF Runnable, QueueJob

\* The armed follow-ups are a prefix of the list, and no follow-up is taken back.
LEMMA ArmFollowUpStep ==
    ASSUME TypeOK, JobsInv, NEW j \in JobIds, ArmFollowUp(j)
    PROVE  TypeOK' /\ JobsInv'
  <1> DEFINE r == jobs[j].row
             st == [steps[j] EXCEPT !.armed = steps[j].armed + 1]
             set == follow[r] \cup {FollowUps[steps[j].armed + 1]}
  <1>1. /\ UNCHANGED <<rows, jobs, legs>>
        /\ UNCHANGED <<alerts, lost, aborting, call, sweep, crashes>>
        /\ {redisFails', dbErrors'} \subseteq 0..MaxFaults
        /\ steps[j].pc = "arm" /\ steps[j].armed < Len(FollowUps)
        /\ follow' = [follow EXCEPT ![r] = set] /\ steps' = [steps EXCEPT ![j] = st]
    <2>1. UNCHANGED <<alerts, dbErrors, handlerVars>> /\ UNCHANGED redisFails
      BY DEF ArmFollowUp, workerVars
    <2>2. follow' = [follow EXCEPT ![r] = set]
      BY DEF ArmFollowUp
    <2>3. steps' = [steps EXCEPT ![j] = st]
      BY DEF ArmFollowUp
    <2> HIDE DEF r, st, set
    <2> QED
      BY <2>1, <2>2, <2>3, WorkerFrame DEF ArmFollowUp
  <1>2. /\ jobs[j] \in QueueJob /\ steps[j] \in Step /\ r \in DOMAIN follow /\ r \in RowIds
        /\ DOMAIN follow = RowIds /\ follow[r] \in SUBSET {"aso", "exit", "target"}
        /\ legs \in Seq(SUBSET Strikes) /\ follow \in Seq(SUBSET {"aso", "exit", "target"})
    BY Shapes DEF TypeOK
  <1>3. /\ steps[j].armed \in Nat /\ steps[j].armed + 1 \in 0..Len(FollowUps)
        /\ FollowUps[steps[j].armed + 1] \in {"aso", "exit", "target"}
    <2>1. Len(FollowUps) \in Nat /\ steps[j].armed \in 0..Len(FollowUps)
      BY <1>2, JobsAssumption, LenProperties DEF Step
    <2>2. steps[j].armed + 1 \in 1..Len(FollowUps)
      BY <1>1, <2>1
    <2> QED
      BY <2>1, <2>2, JobsAssumption, ElementOfSeq
  <1>4. st \in Step /\ st.pc = "arm" /\ st.armed = steps[j].armed + 1
    BY <1>1, <1>2, <1>3 DEF Step
  <1>5. set \in SUBSET {"aso", "exit", "target"} /\ follow[r] \subseteq set
        /\ FollowUps[steps[j].armed + 1] \in set
    BY <1>2, <1>3
  <1> HIDE DEF st, set
  <1>6. /\ follow' \in Seq(SUBSET {"aso", "exit", "target"}) /\ Len(follow') = Len(follow)
        /\ follow'[r] = set /\ \A s \in RowIds : follow[s] \subseteq follow'[s]
    BY <1>1, <1>2, <1>5, PutSeq
  <1>7. steps'[j] = st
    BY <1>1, <1>4, StepPut
  <1>8. JobOk(j)'
    <2>1. JobOk(j)
      BY DEF JobsInv, Worker
    <2>2. \A i \in 1..(steps[j].armed + 1) : FollowUps[i] \in set
      BY <1>1, <1>3, <1>5, <2>1 DEF JobOk
    <2> QED
      BY <1>1, <1>4, <1>6, <1>7, <2>1, <2>2 DEF JobOk, Runnable
  <1> QED
    BY <1>1, <1>2, <1>4, <1>6, <1>8, WorkerMove DEF Runnable

LEMMA ArmFailsStep ==
    ASSUME TypeOK, JobsInv, NEW j \in JobIds, ArmFails(j)
    PROVE  TypeOK' /\ JobsInv'
  <1>1. /\ UNCHANGED <<rows, jobs, legs, follow>>
        /\ UNCHANGED <<alerts, lost, aborting, call, sweep, crashes>>
        /\ {redisFails', dbErrors'} \subseteq 0..MaxFaults
        /\ steps[j].pc = "arm"
    BY FaultType DEF ArmFails, workerVars, handlerVars, deskVars, TypeOK
  <1>2. /\ jobs[j] \in QueueJob /\ legs \in Seq(SUBSET Strikes)
        /\ follow \in Seq(SUBSET {"aso", "exit", "target"})
    BY Shapes DEF TypeOK
  <1>3. PICK st \in Step : steps' = [steps EXCEPT ![j] = st] /\ st.pc = "throw"
    BY NoStepType DEF ArmFails, SetStep
  <1>4. steps'[j] = st
    BY <1>3, StepPut
  <1>5. JobOk(j)'
    <2>1. JobOk(j)
      BY DEF JobsInv, Worker
    <2> QED
      BY <1>1, <1>3, <1>4, <2>1 DEF JobOk, Runnable
  <1> QED
    BY <1>1, <1>2, <1>3, <1>5, WorkerMove DEF Runnable

\* An entry job completes when the whole list is armed.
LEMMA CompleteStep ==
    ASSUME TypeOK, JobsInv, NEW j \in JobIds, Complete(j)
    PROVE  TypeOK' /\ JobsInv'
  <1> DEFINE rec == [jobs[j] EXCEPT !.state = "completed"]
  <1>1. /\ UNCHANGED <<rows, legs, follow>>
        /\ UNCHANGED <<alerts, lost, aborting, call, sweep, crashes>>
        /\ {redisFails', dbErrors'} \subseteq 0..MaxFaults
        /\ steps[j].pc = "arm" /\ steps[j].armed = Len(FollowUps)
        /\ jobs' = [jobs EXCEPT ![j] = rec]
    BY WorkerFrame DEF Complete, workerVars, SetJob
  <1>2. /\ jobs[j] \in QueueJob /\ legs \in Seq(SUBSET Strikes)
        /\ follow \in Seq(SUBSET {"aso", "exit", "target"})
    BY Shapes DEF TypeOK
  <1>3. rec \in QueueJob /\ rec.row = jobs[j].row /\ rec.state = "completed"
    BY <1>2 DEF QueueJob
  <1> HIDE DEF rec
  <1>4. PICK st \in Step : steps' = [steps EXCEPT ![j] = st] /\ st.pc = "completed"
    BY NoStepType DEF Complete, SetStep
  <1>5. jobs'[j] = rec /\ steps'[j] = st
    BY <1>1, <1>3, <1>4, JobPut, StepPut
  <1>6. JobOk(j)'
    <2>1. JobOk(j)
      BY DEF JobsInv, Worker
    <2>2. AllArmed(jobs[j].row)
      BY <1>1, <2>1, JobsAssumption, LenProperties DEF JobOk, AllArmed
    <2>3. jobs[j].state = "active"
      BY <1>1, <2>1 DEF JobOk
    <2> QED
      BY <1>1, <1>3, <1>4, <1>5, <2>2 DEF JobOk, Runnable, AllArmed
  <1>7. jobs[j].state = "active"
    BY <1>1 DEF JobsInv, Worker, JobOk
  <1> QED
    BY <1>1, <1>2, <1>3, <1>4, <1>6, <1>7, WorkerMove

LEMMA ThrowStep ==
    ASSUME TypeOK, JobsInv, NEW j \in JobIds, Throw(j)
    PROVE  TypeOK' /\ JobsInv'
  <1> DEFINE made == jobs[j].tries + 1
             again == [jobs[j] EXCEPT !.tries = made, !.state = "waiting"]
             gone == [jobs[j] EXCEPT !.tries = made, !.state = "failed"]
  <1>1. /\ UNCHANGED <<rows, legs, follow>>
        /\ UNCHANGED <<alerts, lost, aborting, call, sweep, crashes>>
        /\ {redisFails', dbErrors'} \subseteq 0..MaxFaults
        /\ steps[j].pc = "throw"
    BY WorkerFrame DEF Throw, workerVars
  <1>2. /\ jobs[j] \in QueueJob /\ legs \in Seq(SUBSET Strikes)
        /\ follow \in Seq(SUBSET {"aso", "exit", "target"})
    BY Shapes DEF TypeOK
  <1>3. JobOk(j) /\ jobs[j].state = "active" /\ jobs[j].tries < MaxAttempts
    BY <1>1 DEF JobsInv, Worker, JobOk, Runnable
  <1>4. made \in 0..MaxAttempts
    BY SMTT(30), <1>2, <1>3, JobsAssumption DEF QueueJob
  <1>5. /\ again \in QueueJob /\ again.row = jobs[j].row /\ again.state = "waiting"
        /\ again.tries = made
        /\ gone \in QueueJob /\ gone.row = jobs[j].row /\ gone.state = "failed"
    BY <1>2, <1>4 DEF QueueJob
  <1> HIDE DEF made, again, gone
  <1>6. CASE made < MaxAttempts /\ jobs' = [jobs EXCEPT ![j] = again] /\ SetStep(j, "none")
    <2>1. PICK st \in Step : steps' = [steps EXCEPT ![j] = st] /\ st.pc = "none"
      BY <1>6, NoStepType DEF SetStep
    <2>2. jobs'[j] = again /\ steps'[j] = st
      BY <1>5, <1>6, <2>1, JobPut, StepPut
    <2>3. JobOk(j)'
      BY <1>5, <1>6, <2>1, <2>2 DEF JobOk, Runnable
    <2> QED
      BY <1>1, <1>2, <1>3, <1>5, <1>6, <2>1, <2>3, WorkerMove DEF Runnable
  <1>7. CASE jobs' = [jobs EXCEPT ![j] = gone] /\ SetStep(j, "failed")
    <2>1. PICK st \in Step : steps' = [steps EXCEPT ![j] = st] /\ st.pc = "failed"
      BY <1>7, NoStepType DEF SetStep
    <2>2. jobs'[j] = gone /\ steps'[j] = st
      BY <1>5, <1>7, <2>1, JobPut, StepPut
    <2>3. JobOk(j)'
      BY <1>5, <2>1, <2>2 DEF JobOk, Runnable
    <2> QED
      BY <1>1, <1>2, <1>3, <1>5, <1>7, <2>1, <2>3, WorkerMove
  <1> QED
    BY <1>6, <1>7 DEF Throw, made, again, gone

-----------------------------------------------------------------------------
(***************************************************************************)
(* The steps of the event handlers                                         *)
(***************************************************************************)

\* The job has completed, so no known job that can enter is left on the row.
LEMMA OnCompletedStep ==
    ASSUME TypeOK, JobsInv, NEW j \in JobIds, OnCompleted(j)
    PROVE  TypeOK' /\ JobsInv'
  <1> DEFINE r == jobs[j].row
             rec == [rows[r] EXCEPT !.status = "COMPLETED"]
  <1>1. /\ UNCHANGED <<jobs, legs, follow, redisFails, alerts, lost, call, aborting, sweep,
                       crashes>>
        /\ steps[j].pc = "completed"
    BY DEF OnCompleted, handlerVars, deskVars
  <1>2. r \in RowIds /\ rows[r] \in JobRow
    BY Shapes
  <1>3. /\ rec \in JobRow /\ rec.template = rows[r].template /\ rec.status = "COMPLETED"
        /\ rec.queueId = rows[r].queueId
    BY <1>2 DEF JobRow, JobStatus
  <1>4. PICK st \in Step : steps' = [steps EXCEPT ![j] = st] /\ st.pc = "none"
    BY NoStepType DEF OnCompleted, SetStep
  <1>5. /\ steps' \in Seq(Step) /\ Len(steps') = Len(steps)
        /\ \A i \in JobIds : steps'[i] = steps[i] \/ steps'[i].pc = "none"
    BY <1>4, StepPut
  <1> HIDE DEF r, rec
  <1>6. CASE SetRow(r, rec) /\ UNCHANGED dbErrors
    <2>1. /\ rows' \in Seq(JobRow) /\ Len(rows') = Len(rows) /\ RowIds' = RowIds
          /\ rows'[r] = rec /\ \A s \in RowIds \ {r} : rows'[s] = rows[s]
      BY <1>2, <1>3, <1>6, RowPut
    <2>2. TypeOK'
      BY <1>1, <1>5, <1>6, <2>1 DEF TypeOK
    <2>3. \A i \in JobIds : jobs[i].row = r => ~Runnable(i)
      BY <1>1 DEF JobsInv, Linked, Worker, JobOk, Runnable, r
    <2>4. rec.queueId # 0 => rec.queueId \in JobIds /\ jobs[rec.queueId].row = r
      BY <1>2, <1>3 DEF JobsInv, Linked
    <2>5. JobsInv'
      BY <1>1, <1>2, <1>3, <1>5, <2>1, <2>3, <2>4, RowMove DEF OpenStatuses
    <2> QED
      BY <2>2, <2>5
  <1>7. CASE DbFails /\ UNCHANGED rows
    <2>1. TypeOK'
      BY <1>1, <1>5, <1>7, FaultType DEF TypeOK
    <2>2. JobsInv'
      BY <1>1, <1>5, <1>7, LocalMove
    <2> QED
      BY <2>1, <2>2
  <1> QED
    BY <1>6, <1>7 DEF OnCompleted, r, rec

LEMMA OnFailedReadStep ==
    ASSUME TypeOK, JobsInv, NEW j \in JobIds, OnFailedRead(j)
    PROVE  TypeOK' /\ JobsInv'
  <1> DEFINE id == rows[jobs[j].row].queueId
             read == [steps[j] EXCEPT !.pc = "failedWrite", !.queueId = id]
  <1>1. /\ UNCHANGED <<rows, jobs, legs, follow, redisFails, alerts, lost, call, aborting,
                       sweep, crashes>>
        /\ steps[j].pc = "failed"
    BY DEF OnFailedRead, handlerVars, deskVars
  <1>2. /\ jobs[j] \in QueueJob /\ steps[j] \in Step /\ rows[jobs[j].row] \in JobRow
        /\ legs \in Seq(SUBSET Strikes) /\ follow \in Seq(SUBSET {"aso", "exit", "target"})
    BY Shapes DEF TypeOK
  <1>3. /\ read \in Step /\ read.pc = "failedWrite" /\ read.queueId = id
    BY <1>2 DEF Step, JobRow
  <1>4. JobOk(j)
    BY DEF JobsInv, Worker
  <1>5. CASE steps' = [steps EXCEPT ![j] = read] /\ UNCHANGED dbErrors
    <2>1. steps'[j] = read
      BY <1>3, <1>5, StepPut
    <2>2. JobOk(j)'
      BY <1>1, <1>3, <1>4, <2>1, StoredId DEF JobOk, Runnable, AllArmed
    <2>3. {redisFails', dbErrors'} \subseteq 0..MaxFaults
      BY <1>1, <1>5 DEF TypeOK
    <2> QED
      BY <1>1, <1>2, <1>3, <1>5, <2>2, <2>3, WorkerMove DEF Runnable
  <1>6. CASE DbFails /\ SetStep(j, "none")
    <2>1. PICK st \in Step : steps' = [steps EXCEPT ![j] = st] /\ st.pc = "none"
      BY <1>6, NoStepType DEF SetStep
    <2>2. /\ steps' \in Seq(Step) /\ Len(steps') = Len(steps)
          /\ \A i \in JobIds : steps'[i] = steps[i] \/ steps'[i].pc = "none"
      BY <2>1, StepPut
    <2>3. TypeOK'
      BY <1>1, <1>6, <2>2, FaultType DEF TypeOK
    <2>4. JobsInv'
      BY <1>1, <2>2, LocalMove
    <2> QED
      BY <2>3, <2>4
  <1> QED
    BY <1>5, <1>6 DEF OnFailedRead

\* The id that is written back is none or the job that has failed; where the
\* sweep is about the row it is the id the row has.
LEMMA OnFailedWriteStep ==
    ASSUME TypeOK, JobsInv, NEW j \in JobIds, OnFailedWrite(j)
    PROVE  TypeOK' /\ JobsInv'
  <1> DEFINE r == jobs[j].row
             rec == [rows[r] EXCEPT !.status = "FAILED", !.queueId = steps[j].queueId]
  <1>1. /\ UNCHANGED <<jobs, legs, follow, redisFails, lost, call, aborting, sweep, crashes>>
        /\ steps[j].pc = "failedWrite"
    BY DEF OnFailedWrite, handlerVars, deskVars
  <1>2. r \in RowIds /\ r \in Nat /\ rows[r] \in JobRow /\ steps[j] \in Step
    BY Shapes
  <1>3. /\ rec \in JobRow /\ rec.template = rows[r].template /\ rec.status = "FAILED"
        /\ rec.queueId = steps[j].queueId
    BY <1>2 DEF JobRow, JobStatus, Step
  <1>4. PICK st \in Step : steps' = [steps EXCEPT ![j] = st] /\ st.pc = "none"
    BY NoStepType DEF OnFailedWrite, SetStep
  <1>5. /\ steps' \in Seq(Step) /\ Len(steps') = Len(steps)
        /\ \A i \in JobIds : steps'[i] = steps[i] \/ steps'[i].pc = "none"
    BY <1>4, StepPut
  <1> HIDE DEF r, rec
  <1>6. CASE SetRow(r, rec) /\ alerts' = alerts \cup {r} /\ UNCHANGED dbErrors
    <2>1. /\ rows' \in Seq(JobRow) /\ Len(rows') = Len(rows) /\ RowIds' = RowIds
          /\ rows'[r] = rec /\ \A s \in RowIds \ {r} : rows'[s] = rows[s]
      BY <1>2, <1>3, <1>6, RowPut
    <2>2. TypeOK'
      BY <1>1, <1>2, <1>5, <1>6, <2>1 DEF TypeOK
    <2>3. \A i \in JobIds : jobs[i].row = r => ~Runnable(i)
      BY <1>1 DEF JobsInv, Linked, Worker, JobOk, Runnable, r
    <2>4. rec.queueId # 0 => rec.queueId \in JobIds /\ jobs[rec.queueId].row = r
      BY <1>1, <1>3 DEF JobsInv, Worker, JobOk, r
    <2>5. r \in Swept => rec.queueId = rows[r].queueId
      BY <1>1, <1>3 DEF JobsInv, Sweeping, r
    <2>6. JobsInv'
      BY <1>1, <1>2, <1>3, <1>5, <2>1, <2>3, <2>4, <2>5, RowMove DEF OpenStatuses
    <2> QED
      BY <2>2, <2>6
  <1>7. CASE DbFails /\ UNCHANGED <<rows, alerts>>
    <2>1. TypeOK'
      BY <1>1, <1>5, <1>7, FaultType DEF TypeOK
    <2>2. JobsInv'
      BY <1>1, <1>5, <1>7, LocalMove
    <2> QED
      BY <2>1, <2>2
  <1> QED
    BY <1>6, <1>7 DEF OnFailedWrite, r, rec

-----------------------------------------------------------------------------
(***************************************************************************)
(* The operator, the clock, Redis, the process and the boot sweep          *)
(***************************************************************************)
LEMMA AbortMarkStep ==
    ASSUME TypeOK, JobsInv, NEW r \in RowIds, AbortMark(r)
    PROVE  TypeOK' /\ JobsInv'
  <1> DEFINE rec == [rows[r] EXCEPT !.abort = TRUE]
  <1>1. /\ UNCHANGED <<jobs, steps, legs, follow, redisFails, alerts, lost, dbErrors, call,
                       sweep, crashes>>
        /\ aborting' = aborting \cup {r} /\ SetRow(r, rec)
    BY DEF AbortMark, queueVars
  <1>2. r \in Nat /\ rows[r] \in JobRow
    BY Shapes
  <1>3. /\ rec \in JobRow /\ rec.template = rows[r].template /\ rec.status = rows[r].status
        /\ rec.queueId = rows[r].queueId
    BY <1>2 DEF JobRow
  <1> HIDE DEF rec
  <1>4. /\ rows' \in Seq(JobRow) /\ Len(rows') = Len(rows) /\ RowIds' = RowIds
        /\ rows'[r] = rec /\ \A s \in RowIds \ {r} : rows'[s] = rows[s]
    BY <1>1, <1>3, RowPut
  <1>5. TypeOK'
    BY <1>1, <1>2, <1>4 DEF TypeOK
  <1>6. rec.queueId # 0 => rec.queueId \in JobIds /\ jobs[rec.queueId].row = r
    BY <1>3 DEF JobsInv, Linked
  <1>7. \A j \in JobIds : Runnable(j) /\ jobs[j].row = r /\ rec.queueId = j =>
            rec.status \in OpenStatuses
    BY <1>3 DEF JobsInv, Opens
  <1>8. JobsInv'
    BY <1>1, <1>3, <1>4, <1>6, <1>7, RowMove
  <1> QED
    BY <1>5, <1>8

LEMMA AbortRemoveStep ==
    ASSUME TypeOK, JobsInv, NEW r \in RowIds, AbortRemove(r)
    PROVE  TypeOK' /\ JobsInv'
  <1> DEFINE j == rows[r].queueId
             rec == [jobs[j] EXCEPT !.state = "removed"]
  <1>1. /\ UNCHANGED <<rows, steps, legs, follow, redisFails, dbErrors, alerts, lost, call,
                       sweep, crashes>>
        /\ aborting' = aborting \ {r}
    BY DEF AbortRemove
  <1>2. CASE j # 0 /\ jobs[j].state \in {"waiting", "failed"} /\ SetJob(j, "removed")
    <2>1. j \in JobIds /\ jobs[j] \in QueueJob
      BY <1>2, Shapes DEF JobsInv, Linked
    <2>2. rec \in QueueJob /\ rec.row = jobs[j].row /\ rec.state = "removed"
      BY <2>1 DEF QueueJob
    <2>3. jobs' = [jobs EXCEPT ![j] = rec]
      BY <1>2 DEF SetJob
    <2> HIDE DEF rec
    <2>4. PICK i \in JobIds : i = j
      BY <2>1
    <2>5. /\ jobs' \in Seq(QueueJob) /\ Len(jobs') = Len(jobs) /\ JobIds' = JobIds
          /\ jobs'[i] = rec /\ \A k \in JobIds \ {i} : jobs'[k] = jobs[k]
      BY <2>2, <2>3, <2>4, JobPut
    <2>6. TypeOK'
      BY <1>1, <2>5 DEF TypeOK
    <2>7. JobOk(i)
      BY DEF JobsInv, Worker
    <2>8. JobOk(i)'
      BY <1>1, <1>2, <2>2, <2>4, <2>5, <2>7 DEF JobOk, Runnable
    <2>9. ~Runnable(i)'
      BY <2>2, <2>5 DEF Runnable
    <2>10. JobsInv'
      BY <1>1, <2>2, <2>4, <2>5, <2>8, <2>9, QueueMove
    <2> QED
      BY <2>6, <2>10
  <1>3. CASE UNCHANGED jobs
    <2>1. TypeOK'
      BY <1>1, <1>3 DEF TypeOK
    <2>2. JobsInv'
      BY <1>1, <1>3, LocalMove
    <2> QED
      BY <2>1, <2>2
  <1> QED
    BY <1>2, <1>3 DEF AbortRemove

\* A job gets late, or stalls and is handed out again: it could run before.
LEMMA RedisStep ==
    ASSUME TypeOK, JobsInv, NEW j \in JobIds, JobGetsLate(j) \/ Stall(j)
    PROVE  TypeOK' /\ JobsInv'
  <1>1. /\ UNCHANGED <<rows, steps, legs, follow>>
        /\ UNCHANGED <<alerts, lost, aborting, call, sweep, crashes>>
        /\ {redisFails', dbErrors'} \subseteq 0..MaxFaults
        /\ jobs[j].state \in {"waiting", "active"}
        /\ jobs[j].state = "active" => steps[j].pc = "none"
    BY WorkerFrame DEF JobGetsLate, Stall, workerVars
  <1>2. /\ jobs[j] \in QueueJob /\ steps[j] \in Step /\ legs \in Seq(SUBSET Strikes)
        /\ follow \in Seq(SUBSET {"aso", "exit", "target"})
    BY Shapes DEF TypeOK
  <1>3. PICK rec \in QueueJob : /\ jobs' = [jobs EXCEPT ![j] = rec]
                                /\ rec.row = jobs[j].row /\ rec.tries = jobs[j].tries
                                /\ rec.state = "waiting"
    <2>1. /\ [jobs[j] EXCEPT !.late = TRUE] \in QueueJob
          /\ [jobs[j] EXCEPT !.state = "waiting", !.late = TRUE] \in QueueJob
      BY <1>2 DEF QueueJob
    <2> QED
      BY <1>2, <2>1 DEF JobGetsLate, Stall, QueueJob
  <1>4. jobs'[j] = rec /\ steps'[j] = steps[j]
    BY <1>1, <1>3, JobPut
  <1>5. JobOk(j)'
    <2>1. JobOk(j)
      BY DEF JobsInv, Worker
    <2> QED
      BY <1>1, <1>3, <1>4, <2>1 DEF JobOk, Runnable
  <1> QED
    BY <1>1, <1>2, <1>3, <1>5, WorkerMove DEF Runnable

\* After a restart no call and no handler is at work, so the sweep may be about
\* every row there is.
LEMMA CrashStep ==
    ASSUME TypeOK, JobsInv, Crash
    PROVE  TypeOK' /\ JobsInv'
  <1>1. /\ UNCHANGED <<rows, jobs, legs, follow, redisFails, dbErrors, alerts, lost>>
        /\ call' = [q \in Requests |-> IdleCall] /\ steps' = [j \in JobIds |-> NoStep]
        /\ aborting' = {} /\ crashes' \in 0..MaxFaults
    BY FaultType DEF Crash
  <1>2. PICK n \in 0..Len(rows) : sweep' = [SweepOff EXCEPT !.pc = "list", !.old = n]
    BY DEF Crash
  <1>3. /\ Len(rows) \in Nat /\ RowIds = 1..Len(rows) /\ Len(rows) <= MaxRows
        /\ Len(jobs) \in Nat /\ JobIds = 1..Len(jobs) /\ Len(steps) = Len(jobs)
        /\ RowIds' = RowIds /\ JobIds' = JobIds
    BY <1>1, Shapes DEF JobsInv, Linked, TypeOK, RowIds, JobIds
  <1>4. /\ sweep' \in Sweep /\ sweep'.pc = "list" /\ sweep'.todo = {} /\ sweep'.old = n
    <2>1. SweepOff \in Sweep /\ SweepOff.todo = {}
      BY JobsAssumption DEF SweepOff, Sweep, Listed
    <2>2. n \in 0..MaxRows
      BY <1>3, JobsAssumption
    <2> HIDE DEF SweepOff
    <2> QED
      BY <1>2, <2>1, <2>2 DEF Sweep
  <1>5. call' \in [Requests -> Call] /\ \A q \in Requests : call'[q].pc = "idle"
    BY <1>1 DEF IdleCall, Call
  <1>6. /\ steps' \in Seq(Step) /\ Len(steps') = Len(jobs)
        /\ \A j \in JobIds : steps'[j].pc = "none"
    <2>1. NoStep \in Step /\ NoStep.pc = "none"
      BY JobsAssumption, LenProperties DEF NoStep, Step
    <2> QED
      BY <1>1, <1>3, <2>1
  <1>7. TypeOK'
    BY <1>1, <1>3, <1>4, <1>5, <1>6 DEF TypeOK
  <1>8. \A q \in Requests, r \in RowIds : ~Holds(q, r)'
    BY <1>5 DEF Holds
  <1>9. Linked' /\ Calls' /\ Opens'
    BY <1>1, <1>3, <1>5, <1>8 DEF JobsInv, Linked, Calls, Opens, Runnable
  <1>10. Worker'
    <2> SUFFICES ASSUME NEW j \in JobIds PROVE JobOk(j)'
      BY <1>3 DEF Worker
    <2>1. JobOk(j)
      BY DEF JobsInv, Worker
    <2> QED
      BY <1>1, <1>6, <2>1 DEF JobOk, Runnable, AllArmed
  <1>11. Sweeping'
    <2>1. lost \subseteq RowIds
      BY DEF JobsInv, Sweeping, Swept
    <2>2. Swept' = lost \cup 1..n
      BY <1>1, <1>4 DEF Swept
    <2>3. Swept' \subseteq RowIds
      BY <1>3, <2>1, <2>2
    <2> QED
      BY <1>1, <1>3, <1>4, <1>6, <1>8, <2>3 DEF JobsInv, Sweeping
  <1> QED
    BY <1>7, <1>9, <1>10, <1>11 DEF JobsInv

\* A step of the sweep that writes no row only forgets rows.
LEMMA SweepMove ==
    ASSUME TypeOK, JobsInv, UNCHANGED <<rows, alerts, lost, sweepVars>>,
           sweep' \in Sweep, sweep'.pc # "list", Swept' \subseteq Swept,
           \A s \in sweep'.todo : s.queueId = rows[s.row].queueId,
           sweep'.pc = "fail" => /\ sweep'.at.queueId = rows[sweep'.at.row].queueId
                                 /\ sweep'.at.queueId \notin {j \in JobIds : jobs[j].state # "removed"}
    PROVE  TypeOK' /\ JobsInv'
  <1>1. /\ UNCHANGED <<rows, jobs, steps, legs, follow, redisFails, dbErrors, call, aborting,
                       crashes, alerts, lost>>
        /\ RowIds' = RowIds /\ JobIds' = JobIds
    BY DEF sweepVars, RowIds, JobIds
  <1>2. TypeOK'
    BY <1>1 DEF TypeOK
  <1>3. Linked' /\ Calls' /\ Opens'
    BY <1>1 DEF JobsInv, Linked, Calls, Opens, Holds, Runnable
  <1>4. Worker'
    BY <1>1 DEF JobsInv, Worker, JobOk, Runnable, AllArmed
  <1>5. Sweeping'
    <2>1. Swept' \subseteq RowIds
      BY DEF JobsInv, Sweeping
    <2>2. \A q \in Requests, r \in Swept' : ~Holds(q, r)'
      BY <1>1 DEF JobsInv, Sweeping, Holds
    <2>3. \A j \in JobIds : steps'[j].pc = "failedWrite" /\ jobs'[j].row \in Swept' =>
             steps'[j].queueId = rows'[jobs'[j].row].queueId
      BY <1>1 DEF JobsInv, Sweeping
    <2>4. (sweep.pc = "fail" => /\ sweep.at.queueId = rows[sweep.at.row].queueId
                                /\ NeedsReconcile(sweep.at.queueId))'
      BY <1>1 DEF NeedsReconcile
    <2> QED
      BY <1>1, <2>1, <2>2, <2>3, <2>4 DEF JobsInv, Sweeping
  <1> QED
    BY <1>2, <1>3, <1>4, <1>5 DEF JobsInv

LEMMA SweepRestType ==
    ASSUME NEW todo \in SUBSET Listed
    PROVE  /\ SweepRest(todo) \in Sweep /\ SweepRest(todo).todo = todo
           /\ SweepRest(todo).pc \in {"off", "rows"}
  <1>1. SweepOff \in Sweep /\ SweepOff.todo = {} /\ SweepOff.pc = "off"
    BY JobsAssumption DEF SweepOff, Sweep, Listed
  <1> HIDE DEF SweepOff
  <1> QED
    BY <1>1 DEF SweepRest, Sweep

LEMMA SweepListStep ==
    ASSUME TypeOK, JobsInv, SweepList
    PROVE  TypeOK' /\ JobsInv'
  <1> DEFINE open == {s \in 1..sweep.old : rows[s].status \in OpenStatuses}
             todo == {[row |-> r, queueId |-> rows[r].queueId] : r \in open}
  <1>1. sweep.pc = "list" /\ sweep' = SweepRest(todo) /\ UNCHANGED <<rows, alerts, lost, sweepVars>>
    BY DEF SweepList
  <1>2. \A r \in open : r \in Swept
    BY <1>1 DEF Swept
  <1>3. \A r \in open : r \in 0..MaxRows /\ rows[r].queueId \in 0..MaxRows
    <2> SUFFICES ASSUME NEW r \in open PROVE r \in 0..MaxRows /\ rows[r].queueId \in 0..MaxRows
      OBVIOUS
    <2>1. r \in RowIds
      BY <1>2 DEF JobsInv, Sweeping
    <2>2. /\ Len(rows) \in Nat /\ RowIds = 1..Len(rows) /\ Len(jobs) \in Nat
          /\ JobIds = 1..Len(jobs) /\ Len(jobs) <= Len(rows) /\ Len(rows) <= MaxRows
          /\ MaxRows \in Nat
      BY Shapes, JobCount, JobsAssumption DEF JobsInv, Linked
    <2>3. rows[r].queueId = 0 \/ rows[r].queueId \in JobIds
      BY <2>1 DEF JobsInv, Linked
    <2> QED
      BY <2>1, <2>2, <2>3
  <1>4. todo \in SUBSET Listed
    BY <1>3 DEF Listed
  <1>5. \A s \in todo : s.row \in open /\ s.queueId = rows[s.row].queueId
    OBVIOUS
  <1> HIDE DEF open, todo
  <1>6. sweep' \in Sweep /\ sweep'.todo = todo /\ sweep'.pc \in {"off", "rows"}
    BY <1>1, <1>4, SweepRestType
  <1>7. Swept' \subseteq Swept
    <2>1. lost' = lost
      BY <1>1
    <2> QED
      BY <1>2, <1>5, <1>6, <2>1 DEF Swept
  <1> QED
    BY <1>1, <1>5, <1>6, <1>7, SweepMove

\* A row goes to the UPDATE only when its job is gone from Redis, and a job that
\* is gone stays gone.
LEMMA SweepRowStep ==
    ASSUME TypeOK, JobsInv, SweepRow
    PROVE  TypeOK' /\ JobsInv'
  <1>1. /\ sweep.pc = "rows" /\ sweep \in Sweep /\ UNCHANGED <<rows, alerts, lost, sweepVars>>
    BY DEF SweepRow, TypeOK
  <1>2. PICK s \in sweep.todo :
            \/ /\ NeedsReconcile(s.queueId)
               /\ sweep' = [sweep EXCEPT !.pc = "fail", !.todo = sweep.todo \ {s}, !.at = s]
            \/ sweep' = SweepRest(sweep.todo \ {s})
    BY DEF SweepRow
  <1>3. sweep.todo \in SUBSET Listed /\ s \in Listed /\ sweep.todo \ {s} \in SUBSET Listed
    BY <1>1 DEF Sweep
  <1>4. \A x \in sweep.todo : x.row \in Swept /\ x.queueId = rows[x.row].queueId
    BY DEF Swept, JobsInv, Sweeping
  <1>5. lost' = lost
    BY <1>1
  <1>6. CASE /\ NeedsReconcile(s.queueId)
             /\ sweep' = [sweep EXCEPT !.pc = "fail", !.todo = sweep.todo \ {s}, !.at = s]
    <2>1. /\ sweep' \in Sweep /\ sweep'.pc = "fail" /\ sweep'.todo = sweep.todo \ {s}
          /\ sweep'.at = s
      BY <1>1, <1>3, <1>6 DEF Sweep
    <2>2. Swept' \subseteq Swept
      BY <1>4, <1>5, <2>1 DEF Swept
    <2> QED
      BY <1>1, <1>4, <1>6, <2>1, <2>2, SweepMove DEF NeedsReconcile
  <1>7. CASE sweep' = SweepRest(sweep.todo \ {s})
    <2>1. /\ sweep' \in Sweep /\ sweep'.todo = sweep.todo \ {s} /\ sweep'.pc \in {"off", "rows"}
      BY <1>3, <1>7, SweepRestType
    <2>2. Swept' \subseteq Swept
      BY <1>4, <1>5, <2>1 DEF Swept
    <2> QED
      BY <1>1, <1>4, <2>1, <2>2, SweepMove
  <1> QED
    BY <1>2, <1>6, <1>7

LEMMA SweepFailStep ==
    ASSUME TypeOK, JobsInv, SweepFail
    PROVE  TypeOK' /\ JobsInv'
  <1> DEFINE r == sweep.at.row
             rec == [rows[r] EXCEPT !.status = "FAILED", !.queueId = sweep.at.queueId]
  <1>1. /\ UNCHANGED <<jobs, steps, legs, follow, redisFails, dbErrors, call, aborting, crashes>>
        /\ sweep.pc = "fail" /\ sweep \in Sweep /\ SetRow(r, rec)
        /\ alerts' = alerts \cup {r} /\ lost' = lost \cup {r} /\ sweep' = SweepRest(sweep.todo)
    BY DEF SweepFail, sweepVars, TypeOK
  <1>2. r \in Swept
    BY <1>1 DEF Swept
  <1>3. r \in RowIds /\ r \in Nat /\ rows[r] \in JobRow
    BY <1>2, Shapes DEF JobsInv, Sweeping
  <1>4. sweep.at.queueId = rows[r].queueId /\ NeedsReconcile(sweep.at.queueId)
    BY <1>1 DEF JobsInv, Sweeping
  <1>5. /\ rec \in JobRow /\ rec.template = rows[r].template /\ rec.status = "FAILED"
        /\ rec.queueId = rows[r].queueId
    BY <1>3, <1>4 DEF JobRow, JobStatus
  <1>6. rec.queueId # 0 => /\ rec.queueId \in JobIds /\ jobs[rec.queueId].row = r
                           /\ jobs[rec.queueId].state = "removed"
    BY <1>3, <1>4, <1>5 DEF JobsInv, Linked, NeedsReconcile
  <1> HIDE DEF r, rec
  <1>7. /\ rows' \in Seq(JobRow) /\ Len(rows') = Len(rows) /\ RowIds' = RowIds
        /\ rows'[r] = rec /\ \A s \in RowIds \ {r} : rows'[s] = rows[s]
    BY <1>1, <1>3, <1>5, RowPut
  <1>8. /\ sweep' \in Sweep /\ sweep'.todo = sweep.todo /\ sweep'.pc \in {"off", "rows"}
    BY <1>1, SweepRestType DEF Sweep
  <1>9. TypeOK'
    BY <1>1, <1>3, <1>7, <1>8 DEF TypeOK
  <1>10. Swept' \subseteq Swept
    BY <1>1, <1>2, <1>8 DEF Swept
  <1>11. \A j \in JobIds : ~(Runnable(j) /\ jobs[j].row = r /\ rec.queueId = j)
    BY <1>6, Shapes DEF Runnable
  <1>12. JobsInv'
    BY <1>1, <1>3, <1>5, <1>6, <1>7, <1>8, <1>10, <1>11, RowMove DEF OpenStatuses
  <1> QED
    BY <1>9, <1>12

-----------------------------------------------------------------------------
LEMMA NextStep == TypeOK /\ JobsInv /\ [Next]_vars => TypeOK' /\ JobsInv'
  <1> SUFFICES ASSUME TypeOK, JobsInv, [Next]_vars PROVE TypeOK' /\ JobsInv'
    OBVIOUS
  <1>1. CASE UNCHANGED vars
    <2>1. TypeOK'
      BY <1>1 DEF vars, TypeOK
    <2>2. JobsInv'
      BY <1>1, LocalMove DEF vars
    <2> QED
      BY <2>1, <2>2
  <1>2. ASSUME NEW q \in Requests, CallStep(q) PROVE TypeOK' /\ JobsInv'
    BY <1>2, SelectOpenStep, InsertRowStep, AddJobStep, MarkQueuedStep, MarkRejectedStep
    DEF CallStep
  <1>3. ASSUME NEW j \in JobIds, WorkerStep(j) PROVE TypeOK' /\ JobsInv'
    BY <1>3, StartStep, PlaceStep, ArmFollowUpStep, ArmFailsStep, CompleteStep, ThrowStep,
       OnCompletedStep, OnFailedReadStep, OnFailedWriteStep DEF WorkerStep
  <1>4. ASSUME NEW r \in RowIds, AbortMark(r) \/ AbortRemove(r) PROVE TypeOK' /\ JobsInv'
    BY <1>4, AbortMarkStep, AbortRemoveStep
  <1> QED
    BY <1>1, <1>2, <1>3, <1>4, RedisStep, CrashStep, SweepListStep, SweepRowStep, SweepFailStep
    DEF Next

\* Both stores and what each activity holds across an await stay well formed,
\* through restarts, rejected adds and failed statements.
THEOREM TypeCorrect == Spec => []TypeOK
  BY InitHolds, NextStep, PTL DEF Spec

\* A template never has two jobs that can still enter and that the rows know,
\* whoever sends it how often and whatever the sweep writes back.
THEOREM OneKnownRunHolds == Spec => []OneKnownRun
  BY InitHolds, NextStep, InvProperties, PTL DEF Spec

\* An entry job completes only with all of its follow-ups armed, in whatever
\* attempt it does.
THEOREM CompletedIsArmedHolds == Spec => []CompletedIsArmed
  BY InitHolds, NextStep, InvProperties, PTL DEF Spec

\* What the boot sweep reports as lost under a stored id never enters again,
\* through any number of later restarts.
THEOREM LostIsLostHolds == Spec => []LostIsLost
  BY InitHolds, NextStep, InvProperties, PTL DEF Spec

=============================================================================
