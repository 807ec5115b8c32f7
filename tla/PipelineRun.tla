----------------------------- MODULE PipelineRun -----------------------------
(***************************************************************************)
(* The life of a pipeline run: a caller of triggerRun creates the row in   *)
(* pipeline.runs and enqueues a BullMQ job, workers fetch jobs and drive   *)
(* the run in processRun under a Postgres advisory lock, users request     *)
(* cancellation, and the "failed" listener of the worker applies the       *)
(* poison-pill rule.  The traversal of the step graph is one step here     *)
(* (EndRun); module StepTraversal opens it.                                *)
(*                                                                         *)
(* BullMQ (delivery, attempts, stalled jobs) and Postgres (advisory locks, *)
(* CHECK and UNIQUE constraints) are modelled as the code uses them.       *)
(***************************************************************************)
EXTENDS Integers, FiniteSets

CONSTANTS
    Runs,            \* identities of rows of pipeline.runs
    Pipelines,       \* pipeline ids
    Workers,         \* service instances, each running one job at a time
    NoWorker, NoJob, \* nobody, nothing
    PipelineOf,      \* the pipeline of each run
    SerialPipelines, \* pipelines with options.allowConcurrentRuns = false
    KeyBits,         \* width of a lock key: 64 in the code
    KeyOf,           \* the unsigned key advisoryLockKey derives from the id
    UnstorablePipelines, \* use a step type run_steps_step_type_valid rejects
    MaxAttempts,     \* DEFAULT_JOB_OPTIONS.attempts: 5 in the code
    PoisonAttempts,  \* attemptsMade the poison-pill rule asks for: 3
    MaxStalls,       \* BullMQ's maxStalledCount: 1 by default
    PoolSize,        \* clients of an instance's Postgres pool
    Faults           \* which of "crash", "throw", "stall" may happen

ASSUME RunConstants ==
    /\ PipelineOf \in [Runs -> Pipelines]
    /\ KeyBits \in Nat \ {0}
    /\ KeyOf \in [Pipelines -> 0 .. 2 ^ KeyBits - 1]
    /\ MaxAttempts \in Nat \ {0}
    /\ PoisonAttempts \in Nat \ {0}
    /\ MaxStalls \in Nat
    /\ PoolSize \in Nat \ {0}
    /\ NoWorker \notin Workers
    /\ NoJob \notin Runs

VARIABLES
    trig,    \* where the caller of triggerRun for this run stands
    status,  \* runs.status, "none" before the row exists
    stamped, \* runs.completed_at IS NOT NULL
    rows,    \* the run_steps rows of the run exist
    cancel,  \* the Redis cancellation flag of the run
    jobs,    \* BullMQ's state of each job
    attempts, \* ... its attemptsMade
    stalls,  \* ... and how often it was found stalled
    owner,   \* the worker that holds the BullMQ lock of an active job
    dlq,     \* progress of the "failed" listener's poison-pill branch
    pc,      \* where each instance stands in processRun
    job,     \* ... and the job it processes
    lock,    \* advisory locks: the instance whose session holds the key
    leaked,  \* per instance: pool clients checked out for good
    drives   \* history: how often a run's step traversal was entered

vars == <<trig, status, stamped, rows, cancel, jobs, attempts, stalls, owner,
          dlq, pc, job, lock, leaked, drives>>

\* The row of the run and what hangs on it, BullMQ's side, the instances.
rowVars == <<status, stamped, rows, drives>>
jobVars == <<jobs, attempts, stalls, owner, dlq>>
procVars == <<pc, job, lock, leaked>>

Active == {"pending", "running"}
Terminal == {"completed", "failed", "cancelled"}
Jobs == Runs  \* triggerRun enqueues one job, which carries the run's id
Keys == 0 .. 2 ^ KeyBits - 1

\* Positions in processRun at which the session holds the advisory lock.
Holding == {"locked", "marked", "driving", "ended"}
Positions == {"idle", "loading", "guarded"} \cup Holding

RunOf(w) == job[w]
Key(r) == KeyOf[PipelineOf[r]]

\* $1::bigint rejects what does not fit a signed integer of the same width.
KeyFits(r) == Key(r) < 2 ^ (KeyBits - 1)

TypeOK ==
    /\ trig \in [Runs -> {"idle", "checked", "created", "done", "dead"}]
    /\ status \in [Runs -> {"none"} \cup Active \cup Terminal]
    /\ stamped \in [Runs -> BOOLEAN]
    /\ rows \in [Runs -> BOOLEAN]
    /\ cancel \in [Runs -> BOOLEAN]
    /\ jobs \in [Jobs -> {"none", "waiting", "active", "done", "failed",
                          "removed"}]
    /\ attempts \in [Jobs -> Nat]
    /\ stalls \in [Jobs -> Nat]
    /\ owner \in [Jobs -> Workers \cup {NoWorker}]
    /\ dlq \in [Jobs -> {"no", "mark", "remove"}]
    /\ pc \in [Workers -> Positions]
    /\ job \in [Workers -> Jobs \cup {NoJob}]
    /\ lock \in [Keys -> Workers \cup {NoWorker}]
    /\ leaked \in [Workers -> Nat]
    /\ drives \in [Runs -> Nat]

Init ==
    /\ trig = [r \in Runs |-> "idle"]
    /\ status = [r \in Runs |-> "none"]
    /\ stamped = [r \in Runs |-> FALSE]
    /\ rows = [r \in Runs |-> FALSE]
    /\ cancel = [r \in Runs |-> FALSE]
    /\ jobs = [j \in Jobs |-> "none"]
    /\ attempts = [j \in Jobs |-> 0]
    /\ stalls = [j \in Jobs |-> 0]
    /\ owner = [j \in Jobs |-> NoWorker]
    /\ dlq = [j \in Jobs |-> "no"]
    /\ pc = [w \in Workers |-> "idle"]
    /\ job = [w \in Workers |-> NoJob]
    /\ lock = [k \in Keys |-> NoWorker]
    /\ leaked = [w \in Workers |-> 0]
    /\ drives = [r \in Runs |-> 0]

-----------------------------------------------------------------------------
(* triggerRun: check, insert, enqueue -- three awaits, three steps.        *)

ActiveRuns(p) == {r \in Runs : PipelineOf[r] = p /\ status[r] \in Active}

\* The concurrency check of an active pipeline; a refusal changes nothing.
TriggerCheck(r) ==
    /\ trig[r] = "idle"
    /\ PipelineOf[r] \in SerialPipelines => ActiveRuns(PipelineOf[r]) = {}
    /\ trig' = [trig EXCEPT ![r] = "checked"]
    /\ UNCHANGED <<rowVars, cancel, jobVars, procVars>>

TriggerCreate(r) ==
    /\ trig[r] = "checked"
    /\ trig' = [trig EXCEPT ![r] = "created"]
    /\ status' = [status EXCEPT ![r] = "pending"]
    /\ UNCHANGED <<stamped, rows, drives, cancel, jobVars, procVars>>

AddJob(j) ==
    /\ jobs' = [jobs EXCEPT ![j] = "waiting"]
    /\ UNCHANGED <<attempts, stalls, owner, dlq>>

TriggerEnqueue(r) ==
    /\ trig[r] = "created"
    /\ trig' = [trig EXCEPT ![r] = "done"]
    /\ AddJob(r)
    /\ UNCHANGED <<rowVars, cancel, procVars>>

\* The caller's process dies, or an insert or enqueue rejects.
TriggerAborts(r) ==
    /\ Faults \cap {"crash", "throw"} # {}
    /\ trig[r] \in {"checked", "created"}
    /\ trig' = [trig EXCEPT ![r] = "dead"]
    /\ UNCHANGED <<rowVars, cancel, jobVars, procVars>>

-----------------------------------------------------------------------------
(* cancelRun only sets a Redis flag, which expires after an hour.          *)

\* Mutant: the row is cancelled on request.
CancelRunAtOnce(r) ==
    /\ status[r] \in Active
    /\ status' = [status EXCEPT ![r] = "cancelled"]
    /\ stamped' = [stamped EXCEPT ![r] = TRUE]
    /\ UNCHANGED <<trig, rows, drives, cancel, jobVars, procVars>>

CancelRun(r) ==
    /\ status[r] \in Active
    /\ cancel' = [cancel EXCEPT ![r] = TRUE]
    /\ UNCHANGED <<trig, rowVars, jobVars, procVars>>

CancelExpires(r) ==
    /\ cancel[r]
    /\ cancel' = [cancel EXCEPT ![r] = FALSE]
    /\ UNCHANGED <<trig, rowVars, jobVars, procVars>>

-----------------------------------------------------------------------------
(* BullMQ: delivery, settlement and stalled jobs.                          *)

Fetch(w, j) ==
    /\ pc[w] = "idle"
    /\ jobs[j] = "waiting"
    /\ jobs' = [jobs EXCEPT ![j] = "active"]
    /\ owner' = [owner EXCEPT ![j] = w]
    /\ pc' = [pc EXCEPT ![w] = "loading"]
    /\ job' = [job EXCEPT ![w] = j]
    /\ UNCHANGED <<trig, rowVars, cancel, attempts, stalls, dlq, lock, leaked>>

\* The "failed" listener: attemptsMade >= 3; that less than a minute has
\* passed since the job was added is a choice.
PoisonListener(j, attemptsMade) ==
    \/ UNCHANGED dlq
    \/ /\ attemptsMade >= PoisonAttempts
       /\ dlq' = [dlq EXCEPT ![j] = "mark"]

GoIdle(w) ==
    /\ pc' = [pc EXCEPT ![w] = "idle"]
    /\ job' = [job EXCEPT ![w] = NoJob]

\* The processor returned: the job is removed.  A worker that lost its job
\* to the stalled check no longer settles it.
JobCompleted(w) ==
    /\ GoIdle(w)
    /\ IF owner[job[w]] = w
       THEN /\ jobs' = [jobs EXCEPT ![job[w]] = "done"]
            /\ owner' = [owner EXCEPT ![job[w]] = NoWorker]
       ELSE UNCHANGED <<jobs, owner>>
    /\ UNCHANGED <<attempts, stalls, dlq>>

\* The processor threw: another attempt, or none left.
JobFailed(w) ==
    /\ GoIdle(w)
    /\ IF owner[job[w]] = w
       THEN /\ attempts' = [attempts EXCEPT ![job[w]] = @ + 1]
            /\ jobs' = [jobs EXCEPT ![job[w]] =
                           IF attempts[job[w]] + 1 < MaxAttempts
                           THEN "waiting" ELSE "failed"]
            /\ owner' = [owner EXCEPT ![job[w]] = NoWorker]
            /\ PoisonListener(job[w], attempts[job[w]] + 1)
       ELSE UNCHANGED <<jobs, attempts, owner, dlq>>
    /\ UNCHANGED stalls

\* The stalled check finds an active job whose BullMQ lock was not renewed:
\* its worker died, or ("stall") its event loop was blocked and lives on.
JobStalled(j) ==
    /\ jobs[j] = "active"
    /\ owner[j] = NoWorker \/ "stall" \in Faults
    /\ owner' = [owner EXCEPT ![j] = NoWorker]
    /\ IF stalls[j] < MaxStalls
       THEN /\ jobs' = [jobs EXCEPT ![j] = "waiting"]
            /\ stalls' = [stalls EXCEPT ![j] = @ + 1]
            /\ UNCHANGED dlq
       ELSE /\ jobs' = [jobs EXCEPT ![j] = "failed"]
            /\ PoisonListener(j, attempts[j])
            /\ UNCHANGED stalls
    /\ UNCHANGED <<trig, rowVars, cancel, attempts, procVars>>

\* The poison-pill branch: fail the row whatever it holds, ...
PoisonMark(j) ==
    /\ dlq[j] = "mark"
    /\ dlq' = [dlq EXCEPT ![j] = "remove"]
    /\ status' = [status EXCEPT ![j] = "failed"]
    /\ stamped' = [stamped EXCEPT ![j] = TRUE]
    /\ UNCHANGED <<trig, rows, drives, cancel, jobs, attempts, stalls, owner,
                   procVars>>

\* ... whose failure is swallowed, ...
PoisonMarkFails(j) ==
    /\ "throw" \in Faults
    /\ dlq[j] = "mark"
    /\ dlq' = [dlq EXCEPT ![j] = "remove"]
    /\ UNCHANGED <<trig, rowVars, cancel, jobs, attempts, stalls, owner,
                   procVars>>

\* ... then remove the job, unless a worker has it locked again.
PoisonRemove(j) ==
    /\ dlq[j] = "remove"
    /\ dlq' = [dlq EXCEPT ![j] = "no"]
    /\ jobs' = [jobs EXCEPT ![j] =
                   IF @ \in {"waiting", "failed"} THEN "removed" ELSE @]
    /\ UNCHANGED <<trig, rowVars, cancel, attempts, stalls, owner, procVars>>

\* The process of the listener dies before or between the two.
ListenerDies(j) ==
    /\ "crash" \in Faults
    /\ dlq[j] # "no"
    /\ dlq' = [dlq EXCEPT ![j] = "no"]
    /\ UNCHANGED <<trig, rowVars, cancel, jobs, attempts, stalls, owner,
                   procVars>>

-----------------------------------------------------------------------------
(* processRun, one step per await that other actors can get between.       *)

\* Mutant: a run whose cancellation was requested is skipped at pick-up.
LoadRunSkipsCancelled(w) ==
    /\ pc[w] = "loading"
    /\ IF status[RunOf(w)] = "pending" /\ ~cancel[RunOf(w)]
       THEN /\ pc' = [pc EXCEPT ![w] = "guarded"]
            /\ UNCHANGED <<job, jobVars>>
       ELSE JobCompleted(w)
    /\ UNCHANGED <<trig, rowVars, cancel, lock, leaked>>

\* Step 1: load the row; anything but pending is skipped.
LoadRun(w) ==
    /\ pc[w] = "loading"
    /\ IF status[RunOf(w)] = "pending"
       THEN /\ pc' = [pc EXCEPT ![w] = "guarded"]
            /\ UNCHANGED <<job, jobVars>>
       ELSE JobCompleted(w)
    /\ UNCHANGED <<trig, rowVars, cancel, lock, leaked>>

ClientAvailable(w) == leaked[w] < PoolSize

\* Mutant: the result of pg_try_advisory_lock is ignored.
AcquireLockUnchecked(w) ==
    /\ pc[w] = "guarded"
    /\ ClientAvailable(w)
    /\ KeyFits(RunOf(w))
    /\ lock' = [lock EXCEPT ![Key(RunOf(w))] = w]
    /\ pc' = [pc EXCEPT ![w] = "locked"]
    /\ UNCHANGED <<trig, rowVars, cancel, jobVars, job, leaked>>

\* Step 2: take a pool client and try the advisory lock.
AcquireLock(w) ==
    /\ pc[w] = "guarded"
    /\ ClientAvailable(w)
    /\ KeyFits(RunOf(w))
    /\ lock[Key(RunOf(w))] = NoWorker
    /\ lock' = [lock EXCEPT ![Key(RunOf(w))] = w]
    /\ pc' = [pc EXCEPT ![w] = "locked"]
    /\ UNCHANGED <<trig, rowVars, cancel, jobVars, job, leaked>>

\* Somebody holds it: release the client and throw.
LockUnavailable(w) ==
    /\ pc[w] = "guarded"
    /\ ClientAvailable(w)
    /\ KeyFits(RunOf(w))
    /\ lock[Key(RunOf(w))] # NoWorker
    /\ JobFailed(w)
    /\ UNCHANGED <<trig, rowVars, cancel, lock, leaked>>

\* The query itself fails: no branch releases the client.
LockQueryFails(w) ==
    /\ pc[w] = "guarded"
    /\ ClientAvailable(w)
    /\ ~KeyFits(RunOf(w)) \/ "throw" \in Faults
    /\ leaked' = [leaked EXCEPT ![w] = @ + 1]
    /\ JobFailed(w)
    /\ UNCHANGED <<trig, rowVars, cancel, lock>>

Unlock(w) == lock' = [lock EXCEPT ![Key(RunOf(w))] = NoWorker]

\* Mutant: no finally block.
EscapeKeepsLock(w) == UNCHANGED lock /\ JobFailed(w)

\* An exception under the lock: the finally block, then BullMQ's retry.
Escape(w) == Unlock(w) /\ JobFailed(w)

\* Mutant: the table has no runs_completed_at_after_started constraint.
MarkRunningUnchecked(w) ==
    /\ pc[w] = "locked"
    /\ status' = [status EXCEPT ![RunOf(w)] = "running"]
    /\ pc' = [pc EXCEPT ![w] = "marked"]
    /\ UNCHANGED <<trig, stamped, rows, drives, cancel, jobVars, job, lock,
                   leaked>>

\* Step 3: runs_completed_at_after_started rejects a start after an end.
MarkRunning(w) ==
    /\ pc[w] = "locked"
    /\ IF stamped[RunOf(w)]
       THEN Escape(w) /\ UNCHANGED status
       ELSE /\ status' = [status EXCEPT ![RunOf(w)] = "running"]
            /\ pc' = [pc EXCEPT ![w] = "marked"]
            /\ UNCHANGED <<job, jobVars, lock>>
    /\ UNCHANGED <<trig, stamped, rows, drives, cancel, leaked>>

\* Mutant: the table has no run_steps_step_id_per_run_unique constraint.
CreateStepsAgain(w) ==
    /\ pc[w] = "marked"
    /\ rows' = [rows EXCEPT ![RunOf(w)] = TRUE]
    /\ pc' = [pc EXCEPT ![w] = "driving"]
    /\ drives' = [drives EXCEPT ![RunOf(w)] = @ + 1]
    /\ UNCHANGED <<trig, status, stamped, cancel, jobVars, job, lock, leaked>>

\* Step 4: createBatch inserts all rows of the run or none; the table takes
\* one row per step of a run, and only the step types it lists.
CreateSteps(w) ==
    /\ pc[w] = "marked"
    /\ IF rows[RunOf(w)] \/ PipelineOf[RunOf(w)] \in UnstorablePipelines
       THEN Escape(w) /\ UNCHANGED <<rows, drives>>
       ELSE /\ rows' = [rows EXCEPT ![RunOf(w)] = TRUE]
            /\ pc' = [pc EXCEPT ![w] = "driving"]
            /\ drives' = [drives EXCEPT ![RunOf(w)] = @ + 1]
            /\ UNCHANGED <<job, jobVars, lock>>
    /\ UNCHANGED <<trig, status, stamped, cancel, leaked>>

\* Mutant: the final status is spelled as in the design's diagram.
EndRunAsDone(w, s) ==
    /\ pc[w] = "driving"
    /\ status' = [status EXCEPT ![RunOf(w)] = "done"]
    /\ stamped' = [stamped EXCEPT ![RunOf(w)] = TRUE]
    /\ pc' = [pc EXCEPT ![w] = "ended"]
    /\ UNCHANGED <<trig, rows, drives, cancel, jobVars, job, lock, leaked>>

\* Steps 5 to 9: the traversal ends and the row gets its final status.
EndRun(w, s) ==
    /\ pc[w] = "driving"
    /\ s = "cancelled" => cancel[RunOf(w)]
    /\ status' = [status EXCEPT ![RunOf(w)] = s]
    /\ stamped' = [stamped EXCEPT ![RunOf(w)] = TRUE]
    /\ pc' = [pc EXCEPT ![w] = "ended"]
    /\ UNCHANGED <<trig, rows, drives, cancel, jobVars, job, lock, leaked>>

\* Mutant: the client goes back to the pool without the unlock.
ReleaseKeepsLock(w) ==
    /\ pc[w] = "ended"
    /\ UNCHANGED lock
    /\ JobCompleted(w)
    /\ UNCHANGED <<trig, rowVars, cancel, leaked>>

\* The finally block after the last hooks, and the return.
Release(w) ==
    /\ pc[w] = "ended"
    /\ Unlock(w)
    /\ JobCompleted(w)
    /\ UNCHANGED <<trig, rowVars, cancel, leaked>>

\* Any other await of processRun rejects (Postgres, Redis, Plugin Service).
EngineThrows(w) ==
    /\ "throw" \in Faults
    /\ pc[w] # "idle"
    /\ IF pc[w] \in Holding THEN Escape(w)
                            ELSE JobFailed(w) /\ UNCHANGED lock
    /\ UNCHANGED <<trig, rowVars, cancel, leaked>>

\* The process dies: its sessions close, which frees its advisory locks, and
\* its job stays active until the stalled check finds it.
Crash(w) ==
    /\ "crash" \in Faults
    /\ pc[w] # "idle"
    /\ GoIdle(w)
    /\ lock' = [k \in Keys |-> IF lock[k] = w THEN NoWorker ELSE lock[k]]
    /\ owner' = [j \in Jobs |-> IF owner[j] = w THEN NoWorker ELSE owner[j]]
    /\ leaked' = [leaked EXCEPT ![w] = 0]
    /\ UNCHANGED <<trig, rowVars, cancel, jobs, attempts, stalls, dlq>>

-----------------------------------------------------------------------------
Trigger(r) ==
    \/ TriggerCheck(r) \/ TriggerCreate(r) \/ TriggerEnqueue(r)

Process(w) ==
    \/ LoadRun(w) \/ AcquireLock(w) \/ LockUnavailable(w) \/ LockQueryFails(w)
    \/ MarkRunning(w) \/ CreateSteps(w)
    \/ \E s \in Terminal : EndRun(w, s)
    \/ Release(w)

Poison(j) == PoisonMark(j) \/ PoisonRemove(j)

Next ==
    \/ \E r \in Runs : \/ Trigger(r) \/ TriggerAborts(r)
                       \/ CancelRun(r) \/ CancelExpires(r)
    \/ \E w \in Workers : \/ Process(w) \/ EngineThrows(w) \/ Crash(w)
                          \/ \E j \in Jobs : Fetch(w, j)
    \/ \E j \in Jobs : \/ JobStalled(j) \/ Poison(j)
                       \/ PoisonMarkFails(j) \/ ListenerDies(j)

Spec == Init /\ [][Next]_vars

\* The instances keep running and the queue keeps delivering; users, faults
\* and the expiry of a flag owe nothing.
Fairness ==
    /\ \A r \in Runs : WF_vars(TriggerCreate(r)) /\ WF_vars(TriggerEnqueue(r))
    /\ \A w \in Workers : WF_vars(Process(w))
    /\ \A j \in Jobs : /\ WF_vars(\E w \in Workers : Fetch(w, j))
                       /\ WF_vars(owner[j] = NoWorker /\ JobStalled(j))
                       /\ WF_vars(Poison(j))

FairSpec == Spec /\ Fairness

-----------------------------------------------------------------------------
(* Properties.                                                             *)

\* "at most one BullMQ worker executes any given pipeline at a time"
\* (pipeline-service.md 13.1): no two instances are between the acquisition
\* and the finally block of processRun for the same pipeline.
PipelineMutex ==
    \A v, w \in Workers :
        (/\ pc[v] \in Holding
         /\ pc[w] \in Holding
         /\ PipelineOf[RunOf(v)] = PipelineOf[RunOf(w)]) => v = w

\* A held advisory lock always has a processRun that will release it: no
\* return, exception or crash leaves a key locked by nobody.
LockHasHolder ==
    \A k \in Keys : lock[k] # NoWorker =>
        /\ pc[lock[k]] \in Holding
        /\ Key(RunOf(lock[k])) = k

\* The steps of a run are executed by one processRun at most, whatever is
\* delivered twice: the guard is read before the lock is taken, so it is the
\* constraints of the two tables that make this true.  The price is that an
\* interrupted run is not restarted: see InterruptedRunRestarts.
DrivenOnce == \A r \in Runs : drives[r] <= 1

\* The row says running and nobody works on the run.
Interrupted(r) ==
    /\ status[r] = "running"
    /\ \A w \in Workers : pc[w] # "idle" => RunOf(w) # r

\* "On BullMQ retry, the run restarts from the entry step"
\* (pipeline-service.md 15.4): after a crash or an exception in processRun the
\* run is driven again or ends, unless BullMQ gives its job up.  The code does
\* not do this: the next attempt skips every run that is not pending.
InterruptedRunRestarts ==
    \A r \in Runs : Interrupted(r) ~>
        \/ \E w \in Workers : pc[w] = "driving" /\ RunOf(w) = r
        \/ status[r] \in Terminal
        \/ jobs[r] \in {"failed", "removed"}

\* A run row that says running is being driven by somebody.
RunningHasDriver ==
    \A r \in Runs : status[r] = "running" =>
        \E w \in Workers : /\ pc[w] \in {"marked", "driving"}
                           /\ RunOf(w) = r

\* A triggered run that is not over still has a job that will be delivered or
\* an instance that works on it.
NoRunForgotten ==
    \A r \in Runs : (trig[r] = "done" /\ status[r] \in Active) =>
        \/ jobs[r] \in {"waiting", "active"}
        \/ \E w \in Workers : pc[w] # "idle" /\ RunOf(w) = r

\* A finished run is never set back to pending or running.
NeverRevived ==
    [][\A r \in Runs : status[r] \in Terminal => status'[r] \in Terminal]_vars

Contract == INSTANCE RunContract WITH state <- status, driven <- drives

\* Redelivery, retries, crashes, late cancellations and the
\* poison-pill rule together do no more to a run's row than the contract says:
\* it starts once, its steps are entered once, and it completes or is
\* cancelled only if they were.
ImplementsContract == Contract!Spec

\* No pipeline stays locked: every acquisition is followed by a release.
LockReleased ==
    \A k \in Keys : lock[k] # NoWorker ~> lock[k] = NoWorker

\* A triggered run comes to an end.
RunSettles ==
    \A r \in Runs : trig[r] = "done" ~> status[r] \in Terminal
=============================================================================
