-------------------------------- MODULE Jobs --------------------------------
(***************************************************************************)
(* The life of an entry job: enqueueTradeJob writes a job_executions row   *)
(* and adds a job to the trading queue in Redis; the worker of             *)
(* tradingQueue runs the strategy and arms the follow-up jobs; jobControl  *)
(* aborts; reconcileOpenJobs sweeps at boot.                               *)
(*                                                                         *)
(* The row (Postgres) and the job (Redis) are two stores that no           *)
(* transaction joins.  What a strategy places is one leg set per strike,   *)
(* because placeOrder gives the orders of an equal intent back.  A job is  *)
(* kept in Redis when it ends (the queue has no removeOn options).  Rows of *)
(* Chase, the DELETE of a row and the SQUARED_OFF of the target watcher    *)
(* are left out, and so is the previous day: all rows are of today.        *)
(***************************************************************************)
EXTENDS Naturals, Sequences, FiniteSets

CONSTANTS
    Requests,       \* concurrent calls of enqueueTradeJob
    Templates,
    TemplateOf,     \* the template each call sends
    Strikes,        \* what the strategy may choose when it runs
    FollowUps,      \* the follow-up jobs of an entry, in the order they are armed
    MaxAttempts,    \* attempts of a queue job
    MaxRows,        \* bound: job rows
    MaxAborts,      \* bound: rows the operator aborts
    MaxFaults       \* bound: adds that Redis rejects, failing statements on a job
                    \* row and process restarts, together

ASSUME JobsAssumption ==
    /\ TemplateOf \in [Requests -> Templates]
    /\ FollowUps \in Seq({"aso", "exit", "target"})
    /\ MaxAttempts \in Nat \ {0}
    /\ {MaxRows, MaxAborts, MaxFaults} \subseteq Nat

VARIABLES
    rows,      \* job_executions; the row id is the index
    jobs,      \* the trading queue in Redis; the job id is the index
    steps,     \* per job: where the worker is in its processor or event handler
    legs,      \* per row: the strikes whose legs are open
    follow,    \* per row: the follow-up jobs in Redis (exit-<id>, target-<id>...)
    alerts,    \* rows with an ERROR alert (the WARN of a failed arm is left out)
    lost,      \* rows the boot sweep reported as lost
    call,      \* what each enqueueTradeJob holds across its awaits
    aborting,  \* aborts that have not removed the queue job yet
    sweep,     \* what the boot sweep holds across its awaits
    redisFails, dbErrors, crashes

vars == <<rows, jobs, steps, legs, follow, alerts, lost, call, aborting, sweep,
          redisFails, dbErrors, crashes>>

RowIds == DOMAIN rows
JobIds == DOMAIN jobs

JobStatus == {"PENDING", "QUEUE", "COMPLETED", "FAILED", "REJECT"}

\* The partial index of job_executions and the query of enqueueTradeJob.
\* (EXECUTING is a status of the schema that no code writes.)
OpenStatuses == {"PENDING", "QUEUE"}

\* queueId: queue->>'id', 0 when it is not stored.
JobRow == [template: Templates, status: JobStatus, queueId: Nat, abort: BOOLEAN]

\* late: due more than LATE_ENTRY_GRACE_MS ago; tries: attemptsMade;
\* waiting covers delayed.
QueueJob == [row: Nat, late: BOOLEAN, tries: 0..MaxAttempts,
             state: {"waiting", "active", "completed", "failed", "removed"}]

\* entering: the strike being placed, empty when the override or the broker
\* stops its legs; armed: follow-ups added in this attempt; queueId: as the
\* handler read it.
Step == [pc: {"none", "place", "arm", "throw", "completed", "failed", "failedWrite"},
         entering: SUBSET Strikes, armed: 0..Len(FollowUps), queueId: Nat]

Call == [pc: {"idle", "insert", "add", "queued", "reject"},
         row: Nat, job: Nat]

Listed == [row: 0..MaxRows, queueId: 0..MaxRows]
\* old: the rows up to this one are older than STUCK_JOB_MS when the sweep starts.
Sweep == [pc: {"off", "list", "rows", "fail"}, old: 0..MaxRows,
          todo: SUBSET Listed, at: Listed]

\* Both stores and what each activity holds across an await stay well formed.
TypeOK ==
    /\ rows \in Seq(JobRow)
    /\ jobs \in Seq(QueueJob)
    /\ steps \in Seq(Step) /\ Len(steps) = Len(jobs)
    /\ legs \in Seq(SUBSET Strikes) /\ Len(legs) = Len(rows)
    /\ follow \in Seq(SUBSET {"aso", "exit", "target"}) /\ Len(follow) = Len(rows)
    /\ alerts \subseteq Nat /\ lost \subseteq Nat /\ aborting \subseteq Nat
    /\ call \in [Requests -> Call]
    /\ sweep \in Sweep
    /\ {redisFails, dbErrors, crashes} \subseteq 0..MaxFaults

IdleCall == [pc |-> "idle", row |-> 0, job |-> 0]
NoStep == [pc |-> "none", entering |-> {}, armed |-> 0, queueId |-> 0]
SweepOff == [pc |-> "off", old |-> 0, todo |-> {}, at |-> [row |-> 0, queueId |-> 0]]

Init ==
    /\ rows = <<>> /\ jobs = <<>> /\ steps = <<>> /\ legs = <<>> /\ follow = <<>>
    /\ alerts = {} /\ lost = {} /\ aborting = {}
    /\ call = [q \in Requests |-> IdleCall]
    /\ sweep = SweepOff
    /\ redisFails = 0 /\ dbErrors = 0 /\ crashes = 0

queueVars == <<jobs, steps, legs, follow, redisFails>>
deskVars == <<aborting, sweep, crashes>>

SetRow(r, row) == rows' = [rows EXCEPT ![r] = row]
SetStep(j, pc) == steps' = [steps EXCEPT ![j] = [NoStep EXCEPT !.pc = pc]]
SetJob(j, state) == jobs' = [jobs EXCEPT ![j] = [@ EXCEPT !.state = state]]
MayFail == redisFails + dbErrors + crashes < MaxFaults
DbFails == MayFail /\ dbErrors' = dbErrors + 1
SetCall(q, local) == call' = [call EXCEPT ![q] = local]

-----------------------------------------------------------------------------
(***************************************************************************)
(* enqueueTradeJob                                                         *)
(***************************************************************************)
OpenRows(t) == {r \in RowIds : rows[r].template = t /\ rows[r].status \in OpenStatuses}

\* Mutant: the unique index is missing.
IndexAllowsAll(t, r) == TRUE

\* job_executions_one_open_template_ist_day allows row r of t to be open.
IndexAllows(t, r) == OpenRows(t) \subseteq {r}

\* The operator sends a template; an open run of it is returned as it is.
SelectOpen(q) ==
    /\ call[q].pc = "idle"
    /\ Len(rows) < MaxRows
    /\ OpenRows(TemplateOf[q]) = {}
    /\ SetCall(q, [IdleCall EXCEPT !.pc = "insert"])
    /\ UNCHANGED <<rows, alerts, lost, dbErrors, queueVars, deskVars>>

\* The INSERT; on a unique violation the call returns the open run or throws.
InsertRow(q) ==
    /\ call[q].pc = "insert"
    /\ LET r == Len(rows) + 1 IN
       \/ /\ IndexAllows(TemplateOf[q], r)
          /\ Len(rows) < MaxRows
          /\ rows' = Append(rows, [template |-> TemplateOf[q], status |-> "PENDING",
                                   queueId |-> 0, abort |-> FALSE])
          /\ legs' = Append(legs, {})
          /\ follow' = Append(follow, {})
          /\ SetCall(q, [call[q] EXCEPT !.pc = "add", !.row = r])
       \/ /\ ~IndexAllows(TemplateOf[q], r)
          /\ SetCall(q, IdleCall)
          /\ UNCHANGED <<rows, legs, follow>>
    /\ UNCHANGED <<jobs, steps, alerts, lost, redisFails, dbErrors, deskVars>>

\* createJob: refused by the schedule guard or by Redis, or added.
AddJob(q) ==
    /\ call[q].pc = "add"
    /\ \/ /\ SetCall(q, [call[q] EXCEPT !.pc = "reject"])
          /\ UNCHANGED <<jobs, steps>>
       \/ /\ jobs' = Append(jobs, [row |-> call[q].row, late |-> FALSE, tries |-> 0,
                                   state |-> "waiting"])
          /\ steps' = Append(steps, NoStep)
          /\ SetCall(q, [call[q] EXCEPT !.pc = "queued", !.job = Len(jobs) + 1])
    /\ UNCHANGED <<rows, legs, follow, alerts, lost, redisFails, dbErrors, deskVars>>

\* The UPDATE to QUEUE has no condition on the status the row has by now; when
\* another run is open the index rejects it.  An error goes to the catch block.
MarkQueued(q) ==
    /\ call[q].pc = "queued"
    /\ LET r == call[q].row IN
       \/ /\ IndexAllows(rows[r].template, r)
          /\ SetRow(r, [rows[r] EXCEPT !.status = "QUEUE", !.queueId = call[q].job])
          /\ SetCall(q, IdleCall)
          /\ UNCHANGED dbErrors
       \/ /\ ~IndexAllows(rows[r].template, r)
          /\ SetCall(q, [call[q] EXCEPT !.pc = "reject"])
          /\ UNCHANGED <<rows, dbErrors>>
       \/ /\ DbFails
          /\ SetCall(q, [call[q] EXCEPT !.pc = "reject"])
          /\ UNCHANGED rows
    /\ UNCHANGED <<alerts, lost, queueVars, deskVars>>

\* The catch block: REJECT replaces the queue entry by the error.
MarkRejected(q) ==
    /\ call[q].pc = "reject"
    /\ LET r == call[q].row IN
       \/ /\ SetRow(r, [rows[r] EXCEPT !.status = "REJECT", !.queueId = 0])
          /\ alerts' = alerts \cup {r}
          /\ UNCHANGED dbErrors
       \/ DbFails /\ UNCHANGED <<rows, alerts>>
    /\ SetCall(q, IdleCall)
    /\ UNCHANGED <<lost, queueVars, deskVars>>

-----------------------------------------------------------------------------
(***************************************************************************)
(* The worker of the trading queue                                         *)
(***************************************************************************)
handlerVars == <<lost, call, deskVars>>
workerVars == <<alerts, dbErrors, handlerVars>>

\* A late job is discarded by an error, and so goes through its attempts.
\* Otherwise the strategy chooses a strike and reads the override for its
\* orders, or throws before it orders anything (margin, quotes, skew).
Start(j) ==
    /\ jobs[j].state = "waiting"
    /\ SetJob(j, "active")
    /\ \/ SetStep(j, "throw")
       \/ /\ ~jobs[j].late
          /\ \E e \in {{}} \cup {{s} : s \in Strikes} :
                /\ rows[jobs[j].row].abort => e = {}
                /\ steps' = [steps EXCEPT ![j] =
                       [NoStep EXCEPT !.pc = "place", !.entering = e]]
    /\ UNCHANGED <<rows, legs, follow, redisFails, workerVars>>

\* The legs are placed.  A broken set is rolled back when the template says so,
\* and the attempt throws, also when the rollback itself fails.
Place(j) ==
    /\ steps[j].pc = "place"
    /\ LET r == jobs[j].row IN
       \/ /\ legs' = [legs EXCEPT ![r] = @ \cup steps[j].entering]
          /\ \E pc \in {"arm", "throw"} : SetStep(j, pc)
       \/ /\ legs' = [legs EXCEPT ![r] = @ \ steps[j].entering]
          /\ SetStep(j, "throw")
    /\ UNCHANGED <<rows, jobs, follow, redisFails, workerVars>>

\* armEntryFollowUps: adds one follow-up; the job id makes a repeat harmless.
ArmFollowUp(j) ==
    /\ steps[j].pc = "arm"
    /\ steps[j].armed < Len(FollowUps)
    /\ follow' = [follow EXCEPT ![jobs[j].row] = @ \cup {FollowUps[steps[j].armed + 1]}]
    /\ steps' = [steps EXCEPT ![j] = [steps[j] EXCEPT !.armed = @ + 1]]
    /\ UNCHANGED <<rows, jobs, legs, redisFails, workerVars>>

\* Mutant: a follow-up that cannot be added is only logged.
ArmFailureLogged(j) ==
    /\ steps[j].pc = "arm"
    /\ steps[j].armed < Len(FollowUps)
    /\ MayFail
    /\ redisFails' = redisFails + 1
    /\ steps' = [steps EXCEPT ![j] = [steps[j] EXCEPT !.armed = @ + 1]]
    /\ UNCHANGED <<rows, jobs, legs, follow, workerVars>>

\* Redis rejects the add: the entry job fails and is retried.
ArmFails(j) ==
    /\ steps[j].pc = "arm"
    /\ steps[j].armed < Len(FollowUps)
    /\ MayFail
    /\ redisFails' = redisFails + 1
    /\ SetStep(j, "throw")
    /\ UNCHANGED <<rows, jobs, legs, follow, workerVars>>

Complete(j) ==
    /\ steps[j].pc = "arm"
    /\ steps[j].armed = Len(FollowUps)
    /\ SetJob(j, "completed")
    /\ SetStep(j, "completed")
    /\ UNCHANGED <<rows, legs, follow, redisFails, workerVars>>

\* An attempt throws: back to the queue, or the final failure.
Throw(j) ==
    /\ steps[j].pc = "throw"
    /\ LET made == jobs[j].tries + 1 IN
       \/ /\ made < MaxAttempts
          /\ jobs' = [jobs EXCEPT ![j] = [@ EXCEPT !.tries = made, !.state = "waiting"]]
          /\ SetStep(j, "none")
       \/ /\ made >= MaxAttempts
          /\ jobs' = [jobs EXCEPT ![j] = [@ EXCEPT !.tries = made, !.state = "failed"]]
          /\ SetStep(j, "failed")
    /\ UNCHANGED <<rows, legs, follow, redisFails, workerVars>>

\* The completed event: the UPDATE, or its error, which is only logged.
OnCompleted(j) ==
    /\ steps[j].pc = "completed"
    /\ SetStep(j, "none")
    /\ \/ /\ SetRow(jobs[j].row, [rows[jobs[j].row] EXCEPT !.status = "COMPLETED"])
          /\ UNCHANGED dbErrors
       \/ DbFails /\ UNCHANGED rows
    /\ UNCHANGED <<jobs, legs, follow, redisFails, alerts, handlerVars>>

\* The failed event on the final failure, the SELECT of the queue entry.
OnFailedRead(j) ==
    /\ steps[j].pc = "failed"
    /\ \/ /\ steps' = [steps EXCEPT ![j] = [@ EXCEPT !.pc = "failedWrite",
                                                     !.queueId = rows[jobs[j].row].queueId]]
          /\ UNCHANGED dbErrors
       \/ DbFails /\ SetStep(j, "none")
    /\ UNCHANGED <<rows, jobs, legs, follow, redisFails, alerts, handlerVars>>

\* Mutant: the row fails without an alert.
OnFailedSilent(j) ==
    /\ steps[j].pc = "failedWrite"
    /\ SetStep(j, "none")
    /\ SetRow(jobs[j].row, [rows[jobs[j].row] EXCEPT !.status = "FAILED",
                                                    !.queueId = steps[j].queueId])
    /\ UNCHANGED <<jobs, legs, follow, redisFails, alerts, dbErrors, handlerVars>>

\* Its UPDATE and the alert.
OnFailedWrite(j) ==
    /\ steps[j].pc = "failedWrite"
    /\ SetStep(j, "none")
    /\ \/ /\ SetRow(jobs[j].row, [rows[jobs[j].row] EXCEPT !.status = "FAILED",
                                                          !.queueId = steps[j].queueId])
          /\ alerts' = alerts \cup {jobs[j].row}
          /\ UNCHANGED dbErrors
       \/ DbFails /\ UNCHANGED <<rows, alerts>>
    /\ UNCHANGED <<jobs, legs, follow, redisFails, handlerVars>>

-----------------------------------------------------------------------------
(***************************************************************************)
(* The operator, the clock, Redis and the process                          *)
(***************************************************************************)

\* abortJobExecution: the override is written first...
AbortMark(r) ==
    /\ ~rows[r].abort
    /\ Cardinality({s \in RowIds : rows[s].abort}) < MaxAborts
    /\ SetRow(r, [rows[r] EXCEPT !.abort = TRUE])
    /\ aborting' = aborting \cup {r}
    /\ UNCHANGED <<alerts, lost, dbErrors, call, sweep, crashes, queueVars>>

\* ...then removeQueuedJob takes a job that does not run out of the queue.
AbortRemove(r) ==
    /\ r \in aborting
    /\ aborting' = aborting \ {r}
    /\ LET j == rows[r].queueId IN
       IF j # 0 /\ jobs[j].state \in {"waiting", "failed"}
       THEN SetJob(j, "removed") ELSE UNCHANGED jobs
    /\ UNCHANGED <<rows, steps, legs, follow, redisFails, dbErrors, alerts, lost, call,
                   sweep, crashes>>

JobGetsLate(j) ==
    /\ jobs[j].state = "waiting" /\ ~jobs[j].late
    /\ jobs' = [jobs EXCEPT ![j] = [@ EXCEPT !.late = TRUE]]
    /\ UNCHANGED <<rows, steps, legs, follow, redisFails, workerVars>>

\* BullMQ puts a job whose worker died back when its lock (5 minutes, more than
\* the grace of a late job) runs out; a second stall of a job is out of scope.
Stall(j) ==
    /\ jobs[j].state = "active" /\ steps[j].pc = "none"
    /\ jobs' = [jobs EXCEPT ![j] = [@ EXCEPT !.state = "waiting", !.late = TRUE]]
    /\ UNCHANGED <<rows, steps, legs, follow, redisFails, workerVars>>

\* The process restarts after some downtime and starts the sweep.
Crash ==
    /\ MayFail
    /\ crashes' = crashes + 1
    /\ call' = [q \in Requests |-> IdleCall]
    /\ steps' = [j \in JobIds |-> NoStep]
    /\ aborting' = {}
    /\ \E n \in 0..Len(rows) : sweep' = [SweepOff EXCEPT !.pc = "list", !.old = n]
    /\ UNCHANGED <<rows, jobs, legs, follow, redisFails, dbErrors, alerts, lost>>

-----------------------------------------------------------------------------
(***************************************************************************)
(* reconcileOpenJobs, at boot                                              *)
(***************************************************************************)
sweepVars == <<jobs, steps, legs, follow, redisFails, dbErrors, call, aborting,
               crashes>>

SweepRest(todo) ==
    IF todo = {} THEN SweepOff ELSE [SweepOff EXCEPT !.pc = "rows", !.todo = todo]

\* The SELECT; the age is taken from the clock at the start.
SweepList ==
    /\ sweep.pc = "list"
    /\ sweep' = SweepRest({[row |-> r, queueId |-> rows[r].queueId] :
                             r \in {s \in 1..sweep.old : rows[s].status \in OpenStatuses}})
    /\ UNCHANGED <<rows, alerts, lost, sweepVars>>

\* Mutant: only a waiting job counts as known to Redis.
NeedsReconcileActive(queueId) == queueId \notin {j \in JobIds : jobs[j].state = "waiting"}

\* jobNeedsReconcile: no stored id, or the stored id is gone from Redis.
NeedsReconcile(queueId) == queueId \notin {j \in JobIds : jobs[j].state # "removed"}

\* One row: the lookup in Redis (a failing lookup keeps the row).
SweepRow ==
    /\ sweep.pc = "rows"
    /\ \E s \in sweep.todo :
          \/ /\ NeedsReconcile(s.queueId)
             /\ sweep' = [sweep EXCEPT !.pc = "fail", !.todo = @ \ {s}, !.at = s]
          \/ /\ s.queueId # 0
             /\ sweep' = SweepRest(sweep.todo \ {s})
    /\ UNCHANGED <<rows, alerts, lost, sweepVars>>

\* Its UPDATE has no condition on the status either, and writes the queue entry
\* of the SELECT back.
SweepFail ==
    /\ sweep.pc = "fail"
    /\ LET r == sweep.at.row IN
       /\ SetRow(r, [rows[r] EXCEPT !.status = "FAILED", !.queueId = sweep.at.queueId])
       /\ alerts' = alerts \cup {r}
       /\ lost' = lost \cup {r}
    /\ sweep' = SweepRest(sweep.todo)
    /\ UNCHANGED sweepVars

-----------------------------------------------------------------------------
CallStep(q) ==
    \/ SelectOpen(q) \/ InsertRow(q) \/ AddJob(q)
    \/ MarkQueued(q) \/ MarkRejected(q)

WorkerStep(j) ==
    \/ Start(j) \/ Place(j) \/ ArmFollowUp(j) \/ ArmFails(j) \/ Complete(j)
    \/ Throw(j) \/ OnCompleted(j) \/ OnFailedRead(j) \/ OnFailedWrite(j)

Next ==
    \/ \E q \in Requests : CallStep(q)
    \/ \E j \in JobIds : WorkerStep(j) \/ JobGetsLate(j) \/ Stall(j)
    \/ \E r \in RowIds : AbortMark(r) \/ AbortRemove(r)
    \/ SweepList \/ SweepRow \/ SweepFail
    \/ Crash

Spec == Init /\ [][Next]_vars

\* The worker goes on with every job, and BullMQ returns stalled ones.
LiveSpec ==
    /\ Spec
    /\ \A j \in 1..MaxRows : WF_vars(j \in JobIds /\ (WorkerStep(j) \/ Stall(j)))

-----------------------------------------------------------------------------
(***************************************************************************)
(* Properties                                                              *)
(***************************************************************************)
Runnable(j) == jobs[j].state \in {"waiting", "active"}
AllArmed(r) == \A i \in DOMAIN FollowUps : FollowUps[i] \in follow[r]

\* A template never has two jobs that can still enter, as far as the rows know
\* their jobs (the id is stored), whoever sends it how often.
OneKnownRun ==
    \A i, j \in JobIds :
        /\ Runnable(i) /\ Runnable(j)
        /\ rows[jobs[i].row].queueId = i /\ rows[jobs[j].row].queueId = j
        /\ rows[jobs[i].row].template = rows[jobs[j].row].template
        => i = j

\* An entry job completes only with its stops, its watcher and its square-off
\* armed, whatever Redis rejected in earlier attempts.
CompletedIsArmed ==
    \A j \in JobIds : jobs[j].state = "completed" => AllArmed(jobs[j].row)

\* A position is never forgotten: an entry that placed legs ends up with its
\* follow-ups armed, an alert, or its legs closed, unless the operator aborted it
\* or a restart or a database error swallowed the event of the failed job.
EntryIsFollowedUp ==
    \A r \in 1..MaxRows :
        (r \in RowIds /\ legs[r] # {})
            ~> /\ r \in RowIds
               /\ \/ AllArmed(r) \/ r \in alerts \/ rows[r].abort \/ legs[r] = {}
                  \/ /\ crashes + dbErrors > 0
                     /\ \E j \in JobIds : jobs[j].row = r /\ jobs[j].state = "failed"

\* A row with a stored queue id that the boot sweep reports as lost has no job that
\* can still enter, not even one that the crash left active and BullMQ will hand
\* out again.
LostIsLost ==
    \A r \in lost : rows[r].queueId # 0 =>
        \A j \in JobIds : jobs[j].row = r => ~Runnable(j)

=============================================================================
