------------------------- MODULE PipelineRunProofs -------------------------
(***************************************************************************)
(* Proofs about PipelineRun for every set of runs, pipelines and           *)
(* instances, every limit and every combination of faults.                 *)
(***************************************************************************)
EXTENDS PipelineRun, TLAPS

JobStates == {"none", "waiting", "active", "done", "failed", "removed"}

\* A busy worker has a job.
BusyHasJob == \A w \in Workers : pc[w] # "idle" => job[w] \in Jobs

Typed == TypeOK /\ BusyHasJob

\* What settling a job does, whichever way processRun ended: the worker is
\* free again and BullMQ's records keep their types.
LEMMA SettleJob ==
    ASSUME TypeOK, NEW w \in Workers, job[w] \in Jobs,
           JobCompleted(w) \/ JobFailed(w)
    PROVE  /\ GoIdle(w)
           /\ jobs' \in [Jobs -> JobStates]
           /\ attempts' \in [Jobs -> Nat]
           /\ stalls' \in [Jobs -> Nat]
           /\ owner' \in [Jobs -> Workers \cup {NoWorker}]
           /\ dlq' \in [Jobs -> {"no", "mark", "remove"}]
    <1>1. CASE JobCompleted(w)
        BY <1>1 DEF TypeOK, JobCompleted, JobStates
    <1>2. CASE JobFailed(w)
        BY <1>2, RunConstants DEF TypeOK, JobFailed, PoisonListener, JobStates
    <1> QED BY <1>1, <1>2

\* Keys are keys, and runs are what jobs are for.
LEMMA KeyType == \A r \in Runs : Key(r) \in Keys
    BY RunConstants DEF Key, Keys

LEMMA RunOfBusy == BusyHasJob => \A w \in Workers : pc[w] # "idle" => RunOf(w) \in Runs
    BY DEF BusyHasJob, RunOf, Jobs

\* A step that settles a job and leaves the rows alone keeps the types.
LEMMA SettledTyped ==
    ASSUME Typed, NEW w \in Workers, pc[w] # "idle",
           JobCompleted(w) \/ JobFailed(w),
           UNCHANGED <<trig, status, stamped, rows, drives, cancel>>,
           lock' \in [Keys -> Workers \cup {NoWorker}],
           leaked' \in [Workers -> Nat]
    PROVE  Typed'
    <1>1. /\ GoIdle(w)
          /\ jobs' \in [Jobs -> JobStates]
          /\ attempts' \in [Jobs -> Nat]
          /\ stalls' \in [Jobs -> Nat]
          /\ owner' \in [Jobs -> Workers \cup {NoWorker}]
          /\ dlq' \in [Jobs -> {"no", "mark", "remove"}]
        BY SettleJob DEF Typed, BusyHasJob
    <1>2. /\ pc' \in [Workers -> Positions]
          /\ job' \in [Workers -> Jobs \cup {NoJob}]
          /\ BusyHasJob'
        BY <1>1 DEF Typed, TypeOK, GoIdle, BusyHasJob, Positions
    <1> QED
        BY <1>1, <1>2 DEF Typed, TypeOK, JobStates

LEMMA TypedInit == Init => Typed
    BY DEF Init, Typed, TypeOK, BusyHasJob, Positions, Holding, Active,
           Terminal

\* Every step keeps the types: one case per action, with the settlement of a
\* job taken from SettleJob.
LEMMA TypedStep == Typed /\ [Next]_vars => Typed'
    <1> SUFFICES ASSUME Typed, [Next]_vars PROVE Typed'
        OBVIOUS
    <1> USE DEF Positions, Holding
    <1>a. /\ TypeOK /\ BusyHasJob
          /\ \A w \in Workers : pc[w] # "idle" => RunOf(w) \in Runs
        BY RunOfBusy DEF Typed
    <1>b. \A r \in Runs : r \in Jobs
        BY DEF Jobs
    <1>1. CASE \E r \in Runs : TriggerCheck(r) \/ TriggerAborts(r)
        <2>1. trig' \in [Runs -> {"idle", "checked", "created", "done",
                                  "dead"}]
            BY <1>1, <1>a DEF TypeOK, TriggerCheck, TriggerAborts
        <2>2. UNCHANGED <<rowVars, cancel, jobVars, procVars>>
            BY <1>1 DEF TriggerCheck, TriggerAborts
        <2> QED
            BY <1>a, <2>1, <2>2 DEF Typed, TypeOK, BusyHasJob, rowVars, jobVars,
               procVars
    <1>c. CASE \E r \in Runs : CancelRun(r) \/ CancelExpires(r)
        <2>1. cancel' \in [Runs -> BOOLEAN]
            BY <1>c, <1>a DEF TypeOK, CancelRun, CancelExpires
        <2>2. UNCHANGED <<trig, rowVars, jobVars, procVars>>
            BY <1>c DEF CancelRun, CancelExpires
        <2> QED
            BY <1>a, <2>1, <2>2 DEF Typed, TypeOK, BusyHasJob, rowVars, jobVars,
               procVars
    <1>2. CASE \E r \in Runs : TriggerCreate(r)
        <2>1. /\ trig' \in [Runs -> {"idle", "checked", "created",
                                     "done", "dead"}]
              /\ status' \in [Runs -> {"none"} \cup Active \cup Terminal]
            BY <1>2, <1>a DEF TypeOK, TriggerCreate, Active
        <2>2. UNCHANGED <<stamped, rows, drives, cancel, jobVars, procVars>>
            BY <1>2 DEF TriggerCreate
        <2> QED
            BY <1>a, <2>1, <2>2 DEF Typed, TypeOK, BusyHasJob, jobVars, procVars
    <1>3. CASE \E r \in Runs : TriggerEnqueue(r)
        <2>1. /\ trig' \in [Runs -> {"idle", "checked", "created",
                                     "done", "dead"}]
              /\ UNCHANGED <<rowVars, cancel, procVars>>
            BY <1>3, <1>a DEF TypeOK, TriggerEnqueue
        <2>2. PICK j \in Jobs : AddJob(j)
            BY <1>3, <1>b DEF TriggerEnqueue
        <2>3. /\ jobs' \in [Jobs -> {"none", "waiting", "active", "done",
                                     "failed", "removed"}]
              /\ UNCHANGED <<attempts, stalls, owner, dlq>>
            BY <1>a, <2>2 DEF TypeOK, AddJob
        <2> QED
            BY <1>a, <2>1, <2>3 DEF Typed, TypeOK, BusyHasJob, rowVars, procVars
    <1>4. CASE \E w \in Workers, j \in Jobs : Fetch(w, j)
        BY <1>4, <1>a DEF Typed, TypeOK, BusyHasJob, Fetch, rowVars
    <1>5. CASE \E j \in Jobs : JobStalled(j)
        BY <1>5, <1>a DEF Typed, TypeOK, BusyHasJob, JobStalled,
           PoisonListener, rowVars, procVars
    <1>6. CASE \E j \in Jobs : PoisonMark(j)
        BY <1>6, <1>a DEF Typed, TypeOK, BusyHasJob, PoisonMark, procVars,
           Terminal, Jobs
    <1>7. CASE \E j \in Jobs : \/ PoisonMarkFails(j) \/ PoisonRemove(j)
                               \/ ListenerDies(j)
        BY <1>7, <1>a DEF Typed, TypeOK, BusyHasJob, PoisonMarkFails,
           PoisonRemove, ListenerDies, rowVars, procVars
    <1>8. ASSUME NEW w \in Workers, Process(w) \/ EngineThrows(w) \/ Crash(w)
          PROVE Typed'
        <2>1. /\ pc[w] # "idle" /\ RunOf(w) \in Runs /\ Key(RunOf(w)) \in Keys
            BY <1>8, <1>a, KeyType DEF Process, LoadRun, AcquireLock,
               LockUnavailable, LockQueryFails, MarkRunning, CreateSteps,
               EndRun, Release, EngineThrows, Crash
        <2>2. CASE LoadRun(w)
            <3>1. CASE JobCompleted(w)
                BY <2>1, <2>2, <3>1, <1>a, SettledTyped
                   DEF LoadRun, TypeOK, rowVars
            <3>2. CASE ~JobCompleted(w)
                BY <2>1, <2>2, <3>2, <1>a DEF Typed, TypeOK, BusyHasJob,
                   LoadRun, rowVars, jobVars
            <3> QED BY <3>1, <3>2
        <2>3. CASE AcquireLock(w)
            BY <2>1, <2>3, <1>a DEF Typed, TypeOK, BusyHasJob, AcquireLock,
               rowVars, jobVars
        <2>4. CASE LockUnavailable(w)
            BY <2>1, <2>4, <1>a, SettledTyped
               DEF LockUnavailable, TypeOK, rowVars
        <2>5. CASE LockQueryFails(w)
            BY <2>1, <2>5, <1>a, SettledTyped
               DEF LockQueryFails, TypeOK, rowVars
        <2>6. CASE MarkRunning(w)
            <3>1. CASE stamped[RunOf(w)]
                BY <2>1, <2>6, <3>1, <1>a, SettledTyped
                   DEF MarkRunning, Escape, Unlock, TypeOK, rowVars
            <3>2. CASE ~stamped[RunOf(w)]
                BY <2>1, <2>6, <3>2, <1>a DEF Typed, TypeOK, BusyHasJob,
                   MarkRunning, jobVars, Active
            <3> QED BY <3>1, <3>2
        <2>7. CASE CreateSteps(w)
            <3> DEFINE Rejected == \/ rows[RunOf(w)]
                                   \/ PipelineOf[RunOf(w)] \in UnstorablePipelines
            <3>1. CASE Rejected
                BY <2>1, <2>7, <3>1, <1>a, SettledTyped
                   DEF CreateSteps, Escape, Unlock, TypeOK, rowVars
            <3>2. CASE ~Rejected
                <4>1. /\ rows' = [rows EXCEPT ![RunOf(w)] = TRUE]
                      /\ pc' = [pc EXCEPT ![w] = "driving"]
                      /\ drives' = [drives EXCEPT ![RunOf(w)] = @ + 1]
                      /\ UNCHANGED <<job, jobVars, lock>>
                      /\ UNCHANGED <<trig, status, stamped, cancel, leaked>>
                    BY <2>7, <3>2 DEF CreateSteps
                <4> QED
                    BY <2>1, <4>1, <1>a DEF Typed, TypeOK, BusyHasJob, jobVars
            <3> QED BY <3>1, <3>2
        <2>8. CASE \E t \in Terminal : EndRun(w, t)
            BY <2>1, <2>8, <1>a DEF Typed, TypeOK, BusyHasJob, EndRun,
               jobVars
        <2>9. CASE Release(w)
            BY <2>1, <2>9, <1>a, SettledTyped
               DEF Release, Unlock, TypeOK, rowVars
        <2>10. CASE EngineThrows(w)
            <3>1. CASE pc[w] \in Holding
                BY <2>1, <2>10, <3>1, <1>a, SettledTyped
                   DEF EngineThrows, Escape, Unlock, TypeOK, rowVars
            <3>2. CASE pc[w] \notin Holding
                BY <2>1, <2>10, <3>2, <1>a, SettledTyped
                   DEF EngineThrows, TypeOK, rowVars
            <3> QED BY <3>1, <3>2
        <2>11. CASE Crash(w)
            BY <2>1, <2>11, <1>a DEF Typed, TypeOK, BusyHasJob, Crash, GoIdle,
               rowVars
        <2> QED
            BY <1>8, <2>2, <2>3, <2>4, <2>5, <2>6, <2>7, <2>8, <2>9, <2>10,
               <2>11 DEF Process
    <1>9. CASE UNCHANGED vars
        BY <1>9, <1>a DEF Typed, TypeOK, BusyHasJob, vars
    <1> QED
        BY <1>1, <1>c, <1>2, <1>3, <1>4, <1>5, <1>6, <1>7, <1>8, <1>9
           DEF Next, Trigger, Poison

\* Every variable keeps its type, and a busy worker has a job.
THEOREM TypeCorrect == Spec => []TypeOK
    <1>1. Spec => []Typed
        BY TypedInit, TypedStep, PTL DEF Spec
    <1> QED
        BY <1>1, PTL DEF Typed

-----------------------------------------------------------------------------
(* Mutual exclusion.  PipelineMutex is not inductive: a step into "locked" *)
(* says nothing of the others unless the lock table and the program        *)
(* counters are known to agree.  LockInv is that agreement, both ways.     *)

HolderHasLock ==
    \A w \in Workers : pc[w] \in Holding => lock[Key(RunOf(w))] = w

LockInv == HolderHasLock /\ LockHasHolder

\* Leaving through the finally block keeps the agreement.
LEMMA LeaveUnlocking ==
    ASSUME Typed, LockInv, NEW w \in Workers, pc[w] \in Holding,
           GoIdle(w), Unlock(w)
    PROVE  LockInv'
    <1>1. Key(RunOf(w)) \in Keys /\ lock[Key(RunOf(w))] = w
        BY RunOfBusy, KeyType DEF Typed, LockInv, HolderHasLock, Holding
    <1>2. \A v \in Workers : v # w => /\ pc'[v] = pc[v]
                                      /\ Key(RunOf(v))' = Key(RunOf(v))
        BY DEF Typed, TypeOK, GoIdle, RunOf, Key
    <1>3. pc'[w] \notin Holding
        BY DEF Typed, TypeOK, GoIdle, Holding
    <1>4. HolderHasLock'
        <2> SUFFICES ASSUME NEW v \in Workers, pc'[v] \in Holding
                     PROVE  lock'[Key(RunOf(v))'] = v
            BY DEF HolderHasLock
        <2>1. v # w /\ pc[v] \in Holding
            BY <1>2, <1>3
        <2>2. lock[Key(RunOf(v))] = v /\ Key(RunOf(v)) # Key(RunOf(w))
            BY <2>1, <1>1 DEF LockInv, HolderHasLock
        <2>3. Key(RunOf(v)) \in Keys
            BY <2>1, RunOfBusy, KeyType DEF Typed, Holding
        <2> QED
            BY <1>2, <2>1, <2>2, <2>3 DEF Unlock, Typed, TypeOK
    <1>5. LockHasHolder'
        <2> SUFFICES ASSUME NEW k \in Keys, lock'[k] # NoWorker
                     PROVE  /\ pc'[lock'[k]] \in Holding
                            /\ Key(RunOf(lock[k]))' = k
            BY DEF LockHasHolder, Key, RunOf
        <2>1. k # Key(RunOf(w)) /\ lock'[k] = lock[k]
            BY <1>1 DEF Unlock, Typed, TypeOK
        <2>2. pc[lock[k]] \in Holding /\ Key(RunOf(lock[k])) = k
            BY <2>1 DEF LockInv, LockHasHolder
        <2>3. lock[k] \in Workers /\ lock[k] # w
            BY <2>1, <2>2 DEF Typed, TypeOK
        <2> QED
            BY <1>2, <2>1, <2>2, <2>3 DEF Key, RunOf
    <1> QED
        BY <1>4, <1>5 DEF LockInv

\* So does a worker outside the critical section changing its position or job
\* without entering it, ...
LEMMA OutsideStep ==
    ASSUME Typed, LockInv, NEW w \in Workers, pc[w] \notin Holding,
           UNCHANGED lock, pc'[w] \notin Holding,
           \A v \in Workers : v # w => pc'[v] = pc[v] /\ job'[v] = job[v]
    PROVE  LockInv'
    <1>1. \A v \in Workers : v # w => Key(RunOf(v))' = Key(RunOf(v))
        BY DEF Key, RunOf
    <1>2. HolderHasLock'
        BY <1>1 DEF LockInv, HolderHasLock
    <1>3. LockHasHolder'
        <2> SUFFICES ASSUME NEW k \in Keys, lock[k] # NoWorker
                     PROVE  /\ pc'[lock[k]] \in Holding
                            /\ Key(RunOf(lock[k]))' = k
            BY DEF LockHasHolder, Key, RunOf
        <2>1. pc[lock[k]] \in Holding /\ Key(RunOf(lock[k])) = k
            BY DEF LockInv, LockHasHolder
        <2>2. lock[k] \in Workers /\ lock[k] # w
            BY <2>1 DEF Typed, TypeOK
        <2> QED
            BY <1>1, <2>1, <2>2
    <1> QED
        BY <1>2, <1>3 DEF LockInv

\* ... and a step from one position inside it to another.
LEMMA InsideStep ==
    ASSUME Typed, LockInv, NEW w \in Workers, NEW q \in Holding,
           pc[w] \in Holding, pc' = [pc EXCEPT ![w] = q], UNCHANGED <<job, lock>>
    PROVE  LockInv'
    <1>1. \A v \in Workers : /\ pc'[v] \in Holding <=> pc[v] \in Holding
                             /\ Key(RunOf(v))' = Key(RunOf(v))
        BY DEF Typed, TypeOK, Key, RunOf
    <1>2. HolderHasLock'
        BY <1>1 DEF LockInv, HolderHasLock
    <1>3. LockHasHolder'
        <2> SUFFICES ASSUME NEW k \in Keys, lock[k] # NoWorker
                     PROVE  /\ pc'[lock[k]] \in Holding
                            /\ Key(RunOf(lock[k]))' = k
            BY DEF LockHasHolder, Key, RunOf
        <2>1. pc[lock[k]] \in Holding /\ Key(RunOf(lock[k])) = k
            BY DEF LockInv, LockHasHolder
        <2>2. lock[k] \in Workers
            BY DEF Typed, TypeOK
        <2> QED
            BY <1>1, <2>1, <2>2
    <1> QED
        BY <1>2, <1>3 DEF LockInv

\* Settling a job frees the worker, and nothing else of what LockInv reads.
LEMMA Settling ==
    ASSUME NEW w \in Workers, JobCompleted(w) \/ JobFailed(w)
    PROVE  GoIdle(w)
    BY DEF JobCompleted, JobFailed

LEMMA LeaveOutside ==
    ASSUME Typed, LockInv, NEW w \in Workers, pc[w] \notin Holding,
           GoIdle(w), UNCHANGED lock
    PROVE  LockInv'
    <1>1. /\ pc'[w] \notin Holding
          /\ \A v \in Workers : v # w => pc'[v] = pc[v] /\ job'[v] = job[v]
        BY DEF Typed, TypeOK, GoIdle, Holding
    <1> QED
        BY <1>1, OutsideStep

LEMMA LockStep == Typed /\ LockInv /\ [Next]_vars => LockInv'
    <1> SUFFICES ASSUME Typed, LockInv, [Next]_vars PROVE LockInv'
        OBVIOUS
    <1>1. CASE UNCHANGED <<pc, job, lock>>
        BY <1>1 DEF LockInv, HolderHasLock, LockHasHolder, Key, RunOf
    <1>2. ASSUME NEW w \in Workers, NEW j \in Jobs, Fetch(w, j)
          PROVE  LockInv'
        <2>1. /\ pc[w] \notin Holding /\ pc'[w] \notin Holding /\ lock' = lock
              /\ \A v \in Workers : v # w => pc'[v] = pc[v] /\ job'[v] = job[v]
            BY <1>2 DEF Fetch, Typed, TypeOK, Holding
        <2> QED BY <2>1, OutsideStep
    <1>3. ASSUME NEW w \in Workers, Process(w) \/ EngineThrows(w) \/ Crash(w)
          PROVE  LockInv'
        <2>1. CASE LoadRun(w)
            <3>1. pc[w] \notin Holding /\ lock' = lock
                BY <2>1 DEF LoadRun, Holding
            <3>2. CASE JobCompleted(w)
                BY <3>1, <3>2, Settling, LeaveOutside
            <3>3. CASE ~JobCompleted(w)
                <4>1. pc' = [pc EXCEPT ![w] = "guarded"] /\ job' = job
                    BY <2>1, <3>3 DEF LoadRun
                <4>2. /\ pc'[w] \notin Holding
                      /\ \A v \in Workers :
                            v # w => pc'[v] = pc[v] /\ job'[v] = job[v]
                    BY <4>1 DEF Typed, TypeOK, Holding
                <4> QED BY <3>1, <4>2, OutsideStep
            <3> QED BY <3>2, <3>3
        <2>2. CASE AcquireLock(w)
            <3>1. /\ Key(RunOf(w)) \in Keys
                  /\ lock[Key(RunOf(w))] = NoWorker
                  /\ lock' = [lock EXCEPT ![Key(RunOf(w))] = w]
                  /\ pc' = [pc EXCEPT ![w] = "locked"]
                  /\ job' = job
                  /\ pc[w] \notin Holding
                BY <2>2, RunOfBusy, KeyType DEF AcquireLock, Typed, Holding
            <3>2. \A v \in Workers : v # w => lock[Key(RunOf(v))] # NoWorker
                                              \/ pc[v] \notin Holding
                BY RunConstants DEF LockInv, HolderHasLock
            <3>3. \A v \in Workers : Key(RunOf(v))' = Key(RunOf(v))
                BY <3>1 DEF Key, RunOf
            <3>4. HolderHasLock'
                <4> SUFFICES ASSUME NEW v \in Workers, pc'[v] \in Holding
                             PROVE  lock'[Key(RunOf(v))'] = v
                    BY DEF HolderHasLock
                <4>1. CASE v = w
                    BY <4>1, <3>1, <3>3 DEF Typed, TypeOK
                <4>2. CASE v # w
                    <5>1. pc[v] \in Holding /\ Key(RunOf(v)) \in Keys
                        BY <4>2, <3>1, RunOfBusy, KeyType
                           DEF Typed, TypeOK, Holding
                    <5>2. lock[Key(RunOf(v))] = v /\ v # NoWorker
                        BY <5>1, RunConstants DEF LockInv, HolderHasLock
                    <5> QED
                        BY <5>1, <5>2, <3>1, <3>3 DEF Typed, TypeOK
                <4> QED BY <4>1, <4>2
            <3>5. LockHasHolder'
                <4> SUFFICES ASSUME NEW k \in Keys, lock'[k] # NoWorker
                             PROVE  /\ pc'[lock'[k]] \in Holding
                                    /\ Key(RunOf(lock[k]))' = k
                    BY DEF LockHasHolder, Key, RunOf
                <4>1. CASE k = Key(RunOf(w))
                    <5>1. lock'[k] = w
                        BY <4>1, <3>1 DEF Typed, TypeOK
                    <5> QED
                        BY <5>1, <4>1, <3>1 DEF Key, RunOf, Typed, TypeOK,
                           Holding
                <4>2. CASE k # Key(RunOf(w))
                    <5>1. lock'[k] = lock[k]
                        BY <4>2, <3>1 DEF Typed, TypeOK
                    <5>2. pc[lock[k]] \in Holding /\ Key(RunOf(lock[k])) = k
                        BY <5>1 DEF LockInv, LockHasHolder
                    <5>3. lock[k] \in Workers /\ lock[k] # w
                        BY <5>1, <5>2, <3>1 DEF Typed, TypeOK
                    <5> QED
                        BY <5>1, <5>2, <5>3, <3>1 DEF Key, RunOf, Typed,
                           TypeOK
                <4> QED BY <4>1, <4>2
            <3> QED BY <3>4, <3>5 DEF LockInv
        <2>3. CASE LockUnavailable(w) \/ LockQueryFails(w)
            <3>1. pc[w] \notin Holding /\ lock' = lock /\ JobFailed(w)
                BY <2>3 DEF LockUnavailable, LockQueryFails, Holding
            <3> QED BY <3>1, Settling, LeaveOutside
        <2>4. CASE MarkRunning(w)
            <3>1. pc[w] \in Holding
                BY <2>4 DEF MarkRunning, Holding
            <3>2. CASE Escape(w)
                BY <3>1, <3>2, Settling, LeaveUnlocking DEF Escape
            <3>3. CASE ~Escape(w)
                <4>1. /\ pc' = [pc EXCEPT ![w] = "marked"]
                      /\ job' = job /\ lock' = lock
                    BY <2>4, <3>3 DEF MarkRunning
                <4> QED BY <4>1, <3>1, InsideStep DEF Holding
            <3> QED BY <3>2, <3>3
        <2>5. CASE CreateSteps(w)
            <3>1. pc[w] \in Holding
                BY <2>5 DEF CreateSteps, Holding
            <3>2. CASE Escape(w)
                BY <3>1, <3>2, Settling, LeaveUnlocking DEF Escape
            <3>3. CASE ~Escape(w)
                <4>1. /\ pc' = [pc EXCEPT ![w] = "driving"]
                      /\ job' = job /\ lock' = lock
                    BY <2>5, <3>3 DEF CreateSteps
                <4> QED BY <4>1, <3>1, InsideStep DEF Holding
            <3> QED BY <3>2, <3>3
        <2>6. CASE \E t \in Terminal : EndRun(w, t)
            <3>1. /\ pc[w] \in Holding
                  /\ pc' = [pc EXCEPT ![w] = "ended"]
                  /\ job' = job /\ lock' = lock
                BY <2>6 DEF EndRun, Holding
            <3> QED BY <3>1, InsideStep DEF Holding
        <2>7. CASE Release(w)
            BY <2>7, Settling, LeaveUnlocking DEF Release, Holding
        <2>8. CASE EngineThrows(w)
            <3>1. CASE pc[w] \in Holding
                BY <2>8, <3>1, Settling, LeaveUnlocking
                   DEF EngineThrows, Escape
            <3>2. CASE pc[w] \notin Holding
                BY <2>8, <3>2, Settling, LeaveOutside DEF EngineThrows
            <3> QED BY <3>1, <3>2
        <2>9. CASE Crash(w)
            <3>1. /\ GoIdle(w)
                  /\ lock' = [k \in Keys |->
                                 IF lock[k] = w THEN NoWorker ELSE lock[k]]
                BY <2>9 DEF Crash
            <3>2. pc[w] # "idle"
                BY <2>9 DEF Crash
            <3>3. CASE pc[w] \in Holding
                <4>1. Unlock(w)
                    <5>1. Key(RunOf(w)) \in Keys
                        BY <3>2, RunOfBusy, KeyType DEF Typed
                    <5>2. \A k \in Keys : lock[k] = w <=> k = Key(RunOf(w))
                        BY <3>3, RunConstants
                           DEF LockInv, HolderHasLock, LockHasHolder
                    <5> QED
                        BY <3>1, <5>1, <5>2 DEF Unlock, Typed, TypeOK
                <4> QED BY <3>1, <3>3, <4>1, LeaveUnlocking
            <3>4. CASE pc[w] \notin Holding
                <4>1. \A k \in Keys : lock[k] # w
                    BY <3>4, RunConstants DEF LockInv, LockHasHolder
                <4>2. lock' = lock
                    BY <3>1, <4>1 DEF Typed, TypeOK
                <4> QED BY <3>1, <3>4, <4>2, LeaveOutside
            <3> QED BY <3>3, <3>4
        <2> QED
            BY <1>3, <2>1, <2>2, <2>3, <2>4, <2>5, <2>6, <2>7, <2>8, <2>9
               DEF Process
    <1>4. CASE \E r \in Runs : \/ Trigger(r) \/ TriggerAborts(r)
                               \/ CancelRun(r) \/ CancelExpires(r)
        BY <1>4, <1>1 DEF Trigger, TriggerCheck, TriggerCreate,
           TriggerEnqueue, TriggerAborts, CancelRun,
           CancelExpires, procVars
    <1>5. CASE \E j \in Jobs : \/ JobStalled(j) \/ Poison(j)
                               \/ PoisonMarkFails(j) \/ ListenerDies(j)
        BY <1>5, <1>1 DEF JobStalled, Poison, PoisonMark, PoisonRemove,
           PoisonMarkFails, ListenerDies, procVars
    <1>6. CASE UNCHANGED vars
        BY <1>6, <1>1 DEF vars
    <1> QED
        BY <1>2, <1>3, <1>4, <1>5, <1>6 DEF Next

\* The lock table and the program counters agree in every reachable state.
THEOREM LockAgreement == Spec => []LockInv
    <1>1. Init => LockInv
        BY DEF Init, LockInv, HolderHasLock, LockHasHolder, Holding
    <1> QED
        BY <1>1, TypedInit, TypedStep, LockStep, PTL DEF Spec

\* At most one instance drives a pipeline, whatever crashes, throws, stalls
\* or is delivered twice.
THEOREM MutualExclusion == Spec => []PipelineMutex
    <1>1. LockInv => PipelineMutex
        BY DEF LockInv, HolderHasLock, PipelineMutex, Key
    <1> QED
        BY <1>1, LockAgreement, PTL

\* No advisory lock outlives the processRun that took it.
THEOREM NoOrphanedLock == Spec => []LockHasHolder
    BY LockAgreement, PTL DEF LockInv

-----------------------------------------------------------------------------
(* The row of a run.  NeverRevived rests on three facts that hold together *)
(* only: a terminal status comes with completed_at, a row is inserted      *)
(* before anything can touch it, and what can touch it (a job, a worker, a *)
(* listener) exists only after the row was inserted.                       *)

Untriggered == {"idle", "checked"}

TerminalIsStamped == \A r \in Runs : status[r] \in Terminal => stamped[r] = TRUE
NoRowYet == \A r \in Runs : trig[r] \in Untriggered => status[r] = "none"
JobsHaveRows ==
    \A j \in Jobs : jobs[j] # "none" \/ dlq[j] # "no" => trig[j] \notin Untriggered
WorkersHaveRows ==
    \A w \in Workers : pc[w] # "idle" => trig[RunOf(w)] \notin Untriggered
DrivesCountRows ==
    \A r \in Runs : drives[r] = IF rows[r] = TRUE THEN 1 ELSE 0

RowInv == /\ TerminalIsStamped /\ NoRowYet /\ JobsHaveRows /\ WorkersHaveRows
          /\ DrivesCountRows

LEMMA RowInit == Init => RowInv
    BY DEF Init, RowInv, TerminalIsStamped, NoRowYet, JobsHaveRows,
       WorkersHaveRows, DrivesCountRows, Terminal, Untriggered

\* Settling a job touches the records of that job only.
LEMMA SettledRows ==
    ASSUME Typed, RowInv, NEW w \in Workers, pc[w] # "idle",
           JobCompleted(w) \/ JobFailed(w),
           UNCHANGED <<trig, status, stamped, rows, drives>>
    PROVE  RowInv'
    <1>1. job[w] \in Jobs /\ RunOf(w) \in Runs
        BY RunOfBusy DEF Typed, BusyHasJob
    <1>2. \A j \in Jobs : j # job[w] => jobs'[j] = jobs[j] /\ dlq'[j] = dlq[j]
        BY <1>1 DEF JobCompleted, JobFailed, PoisonListener, Typed, TypeOK
    <1>3. JobsHaveRows'
        BY <1>1, <1>2 DEF RowInv, JobsHaveRows, WorkersHaveRows, RunOf
    <1>4. WorkersHaveRows'
        BY Settling DEF RowInv, WorkersHaveRows, RunOf, GoIdle, Typed, TypeOK
    <1> QED
        BY <1>3, <1>4 DEF RowInv, TerminalIsStamped, NoRowYet, DrivesCountRows

LEMMA RowStep == Typed /\ RowInv /\ [Next]_vars => RowInv'
    <1> SUFFICES ASSUME Typed, RowInv, [Next]_vars PROVE RowInv'
        OBVIOUS
    <1> USE DEF Untriggered
    <1>a. \A r \in Runs : r \in Jobs
        BY DEF Jobs
    <1>b. \A j \in Jobs : j \in Runs
        BY DEF Jobs
    <1>1. CASE \E r \in Runs : \/ TriggerCheck(r) \/ TriggerAborts(r)
        BY <1>1, <1>b, RunOfBusy DEF RowInv, TerminalIsStamped, NoRowYet,
           JobsHaveRows, WorkersHaveRows, DrivesCountRows, TriggerCheck,
           TriggerAborts, rowVars, jobVars, procVars, RunOf, Typed, TypeOK
    <1>2. CASE \E r \in Runs : \/ CancelRun(r) \/ CancelExpires(r)
        BY <1>2 DEF RowInv, TerminalIsStamped, NoRowYet,
           JobsHaveRows, WorkersHaveRows, DrivesCountRows, CancelRun,
           CancelExpires, rowVars, jobVars, procVars, RunOf
    <1>3. CASE \E r \in Runs : TriggerCreate(r)
        BY <1>3, <1>b, RunOfBusy DEF RowInv, TerminalIsStamped, NoRowYet,
           JobsHaveRows, WorkersHaveRows, DrivesCountRows, TriggerCreate,
           jobVars, procVars, RunOf, Typed, TypeOK, Terminal
    <1>4. CASE \E r \in Runs : TriggerEnqueue(r)
        BY <1>4, <1>a, <1>b, RunOfBusy DEF RowInv, TerminalIsStamped,
           NoRowYet, JobsHaveRows, WorkersHaveRows, DrivesCountRows,
           TriggerEnqueue, AddJob, rowVars, procVars, RunOf,
           Typed, TypeOK
    <1>5. CASE \E w \in Workers, j \in Jobs : Fetch(w, j)
        BY <1>5 DEF RowInv, TerminalIsStamped, NoRowYet, JobsHaveRows,
           WorkersHaveRows, DrivesCountRows, Fetch, rowVars, RunOf, Typed,
           TypeOK
    <1>6. CASE \E j \in Jobs : JobStalled(j)
        BY <1>6 DEF RowInv, TerminalIsStamped, NoRowYet, JobsHaveRows,
           WorkersHaveRows, DrivesCountRows, JobStalled, PoisonListener,
           rowVars, procVars, RunOf, Typed, TypeOK
    <1>7. CASE \E j \in Jobs : PoisonMark(j)
        BY <1>7, <1>b DEF RowInv, TerminalIsStamped, NoRowYet, JobsHaveRows,
           WorkersHaveRows, DrivesCountRows, PoisonMark, procVars, RunOf,
           Typed, TypeOK
    <1>8. CASE \E j \in Jobs : \/ PoisonMarkFails(j) \/ PoisonRemove(j)
                               \/ ListenerDies(j)
        BY <1>8 DEF RowInv, TerminalIsStamped, NoRowYet, JobsHaveRows,
           WorkersHaveRows, DrivesCountRows, PoisonMarkFails, PoisonRemove,
           ListenerDies, rowVars, procVars, RunOf, Typed, TypeOK
    <1>9. ASSUME NEW w \in Workers, Process(w) \/ EngineThrows(w) \/ Crash(w)
          PROVE  RowInv'
        <2>1. /\ pc[w] # "idle" /\ RunOf(w) \in Runs
              /\ trig[RunOf(w)] \notin Untriggered
            BY <1>9, RunOfBusy DEF Typed, RowInv, WorkersHaveRows, Process,
               LoadRun, AcquireLock, LockUnavailable, LockQueryFails,
               MarkRunning, CreateSteps, EndRun, Release, EngineThrows, Crash
        <2>2. CASE (JobCompleted(w) \/ JobFailed(w))
                   /\ UNCHANGED <<trig, status, stamped, rows, drives>>
            BY <2>1, <2>2, SettledRows
        <2>3. CASE /\ \E q \in Positions : pc' = [pc EXCEPT ![w] = q]
                   /\ UNCHANGED <<trig, status, stamped, rows, drives, job,
                                  jobs, dlq>>
            BY <2>1, <2>3 DEF RowInv, TerminalIsStamped, NoRowYet,
               JobsHaveRows, WorkersHaveRows, DrivesCountRows, RunOf, Typed,
               TypeOK
        <2>4. CASE LoadRun(w) \/ AcquireLock(w)
            BY <2>2, <2>3, <2>4 DEF LoadRun, AcquireLock, rowVars, jobVars,
               Positions, Holding
        <2>5. CASE LockUnavailable(w) \/ LockQueryFails(w) \/ Release(w)
            BY <2>2, <2>5 DEF LockUnavailable, LockQueryFails, Release,
               rowVars
        <2>6. CASE MarkRunning(w)
            <3>1. CASE Escape(w) /\ UNCHANGED status
                BY <2>2, <2>6, <3>1 DEF MarkRunning, Escape
            <3>2. CASE ~(Escape(w) /\ UNCHANGED status)
                <4>1. /\ status' = [status EXCEPT ![RunOf(w)] = "running"]
                      /\ pc' = [pc EXCEPT ![w] = "marked"]
                      /\ UNCHANGED <<trig, stamped, rows, drives, job, jobs,
                                     dlq>>
                    BY <2>6, <3>2 DEF MarkRunning, jobVars
                <4> QED
                    BY <2>1, <4>1 DEF RowInv, TerminalIsStamped, NoRowYet,
                       JobsHaveRows, WorkersHaveRows, DrivesCountRows, RunOf,
                       Typed, TypeOK, Terminal
            <3> QED BY <3>1, <3>2
        <2>7. CASE CreateSteps(w)
            <3>1. CASE Escape(w) /\ UNCHANGED <<rows, drives>>
                BY <2>2, <2>7, <3>1 DEF CreateSteps, Escape
            <3>2. CASE ~(Escape(w) /\ UNCHANGED <<rows, drives>>)
                <4>1. /\ ~rows[RunOf(w)]
                      /\ rows' = [rows EXCEPT ![RunOf(w)] = TRUE]
                      /\ pc' = [pc EXCEPT ![w] = "driving"]
                      /\ drives' = [drives EXCEPT ![RunOf(w)] = @ + 1]
                      /\ UNCHANGED <<trig, status, stamped, job, jobs, dlq>>
                    BY <2>7, <3>2 DEF CreateSteps, jobVars
                <4>2. drives[RunOf(w)] = 0
                    BY <2>1, <4>1 DEF RowInv, DrivesCountRows
                <4>3. DrivesCountRows'
                    BY <2>1, <4>1, <4>2 DEF RowInv, DrivesCountRows, Typed,
                       TypeOK
                <4> QED
                    BY <2>1, <4>1, <4>3 DEF RowInv, TerminalIsStamped,
                       NoRowYet, JobsHaveRows, WorkersHaveRows, RunOf, Typed,
                       TypeOK
            <3> QED BY <3>1, <3>2
        <2>8. CASE \E t \in Terminal : EndRun(w, t)
            BY <2>1, <2>8 DEF EndRun, jobVars, RowInv, TerminalIsStamped,
               NoRowYet, JobsHaveRows, WorkersHaveRows, DrivesCountRows,
               RunOf, Typed, TypeOK
        <2>9. CASE EngineThrows(w)
            BY <2>2, <2>9 DEF EngineThrows, Escape, rowVars
        <2>10. CASE Crash(w)
            BY <2>10 DEF Crash, GoIdle, rowVars, RowInv, TerminalIsStamped,
               NoRowYet, JobsHaveRows, WorkersHaveRows, DrivesCountRows,
               RunOf, Typed, TypeOK
        <2> QED
            BY <1>9, <2>4, <2>5, <2>6, <2>7, <2>8, <2>9, <2>10 DEF Process
    <1>10. CASE UNCHANGED vars
        BY <1>10 DEF vars, RowInv, TerminalIsStamped, NoRowYet, JobsHaveRows,
           WorkersHaveRows, DrivesCountRows, RunOf
    <1> QED
        BY <1>1, <1>2, <1>3, <1>4, <1>5, <1>6, <1>7, <1>8, <1>9, <1>10
           DEF Next, Trigger, Poison

\* In every reachable state the row facts above hold.
THEOREM RowAgreement == Spec => []RowInv
    BY TypedInit, TypedStep, RowInit, RowStep, PTL DEF Spec

\* The steps of a run are entered by one processRun at most, although the
\* status guard is read before the lock is taken.
THEOREM DrivenAtMostOnce == Spec => []DrivenOnce
    <1>1. RowInv => DrivenOnce
        BY DEF RowInv, DrivesCountRows, DrivenOnce
    <1> QED
        BY <1>1, RowAgreement, PTL

\* No step takes a finished run back to pending or running.
LEMMA NeverRevivedStep ==
    Typed /\ RowInv /\ [Next]_vars =>
        \A r \in Runs : status[r] \in Terminal => status'[r] \in Terminal
    <1> SUFFICES ASSUME Typed, RowInv, [Next]_vars,
                        NEW r \in Runs, status[r] \in Terminal
                 PROVE  status'[r] \in Terminal
        OBVIOUS
    <1>1. CASE status' = status
        BY <1>1
    <1>2. CASE \E q \in Runs : TriggerCreate(q)
        BY <1>2 DEF TriggerCreate, RowInv, NoRowYet, Typed, TypeOK, Terminal,
           Untriggered
    <1>3. CASE \E j \in Jobs : PoisonMark(j)
        BY <1>3 DEF PoisonMark, Typed, TypeOK, Terminal
    <1>4. ASSUME NEW w \in Workers, MarkRunning(w)
          PROVE  status'[r] \in Terminal
        <2>1. CASE UNCHANGED status
            BY <2>1
        <2>2. CASE ~UNCHANGED status
            <3>1. /\ ~stamped[RunOf(w)]
                  /\ status' = [status EXCEPT ![RunOf(w)] = "running"]
                BY <1>4, <2>2 DEF MarkRunning
            <3>2. r # RunOf(w)
                BY <3>1 DEF RowInv, TerminalIsStamped
            <3> QED
                BY <3>1, <3>2 DEF Typed, TypeOK
        <2> QED BY <2>1, <2>2
    <1>5. CASE \E w \in Workers, t \in Terminal : EndRun(w, t)
        BY <1>5 DEF EndRun, Typed, TypeOK
    <1>6. ASSUME NEW w \in Workers, Process(w) \/ EngineThrows(w) \/ Crash(w),
                 ~MarkRunning(w), ~\E t \in Terminal : EndRun(w, t)
          PROVE  status' = status
        BY <1>6 DEF Process, LoadRun, AcquireLock, LockUnavailable,
           LockQueryFails, CreateSteps, Release, EngineThrows, Crash, rowVars
    <1>7. ASSUME NEW q \in Runs, \/ TriggerCheck(q) \/ TriggerEnqueue(q)
                                 \/ TriggerAborts(q)
                                 \/ CancelRun(q) \/ CancelExpires(q)
          PROVE  status' = status
        BY <1>7 DEF TriggerCheck, TriggerEnqueue,
           TriggerAborts, CancelRun, CancelExpires, rowVars
    <1>8. ASSUME NEW j \in Jobs, \/ JobStalled(j) \/ PoisonRemove(j)
                                 \/ PoisonMarkFails(j) \/ ListenerDies(j)
          PROVE  status' = status
        BY <1>8 DEF JobStalled, PoisonRemove, PoisonMarkFails, ListenerDies,
           rowVars
    <1>9. ASSUME NEW w \in Workers, NEW j \in Jobs, Fetch(w, j)
          PROVE  status' = status
        BY <1>9 DEF Fetch, rowVars
    <1> QED
        BY <1>1, <1>2, <1>3, <1>4, <1>5, <1>6, <1>7, <1>8, <1>9
           DEF Next, Trigger, Poison, vars

\* A finished run is never set back to pending or running, although the guard
\* of processRun may have been passed before the run finished.
THEOREM FinishedStaysFinished == Spec => NeverRevived
    <1>1. Typed /\ RowInv /\ [Next]_vars =>
            [\A r \in Runs : status[r] \in Terminal => status'[r] \in Terminal]_vars
        BY NeverRevivedStep
    <1> QED
        BY <1>1, TypedInit, TypedStep, RowInit, RowStep, PTL
           DEF Spec, NeverRevived

-----------------------------------------------------------------------------
(* The contract.  Beyond the facts above it takes one about the instance   *)
(* that holds the lock: from the moment it has marked the run, only it and *)
(* the poison-pill rule write the row.                                     *)

RowExists ==
    /\ \A r \in Runs : trig[r] \in {"created"} => status[r] # "none"
    /\ \A j \in Jobs : jobs[j] # "none" \/ dlq[j] # "no" => status[j] # "none"
    /\ \A w \in Workers : pc[w] # "idle" => status[RunOf(w)] # "none"
DriverOwnsRow ==
    \A w \in Workers :
        /\ pc[w] \in {"marked", "driving"} => status[RunOf(w)] \in {"running", "failed"}
        /\ pc[w] = "driving" => drives[RunOf(w)] = 1

DriverInv == RowExists /\ DriverOwnsRow

AllInv == Typed /\ LockInv /\ RowInv /\ DriverInv

\* A row, once inserted, is there for whatever works on it.
LEMMA RowExistsStep == AllInv /\ [Next]_vars => RowExists'
    <1> SUFFICES ASSUME AllInv, [Next]_vars PROVE RowExists'
        OBVIOUS
    <1>a. /\ TypeOK /\ BusyHasJob /\ RowExists
          /\ \A w \in Workers : pc[w] # "idle" => RunOf(w) \in Runs
          /\ \A j \in Jobs : j \in Runs
          /\ \A r \in Runs : r \in Jobs
        BY RunOfBusy DEF AllInv, Typed, DriverInv, Jobs
    <1>1. CASE \E r \in Runs : \/ TriggerCheck(r) \/ TriggerAborts(r)
                               \/ CancelRun(r) \/ CancelExpires(r)
        BY <1>1, <1>a DEF RowExists, TriggerCheck, TriggerAborts, CancelRun,
           CancelExpires, rowVars, jobVars, procVars, RunOf, TypeOK
    <1>2. CASE \E r \in Runs : TriggerCreate(r)
        BY <1>2, <1>a DEF RowExists, TriggerCreate, jobVars, procVars, RunOf,
           TypeOK
    <1>3. CASE \E r \in Runs : TriggerEnqueue(r)
        BY <1>3, <1>a DEF RowExists, TriggerEnqueue, AddJob,
           rowVars, procVars, RunOf, TypeOK
    <1>4. CASE \E w \in Workers, j \in Jobs : Fetch(w, j)
        BY <1>4, <1>a DEF RowExists, Fetch, rowVars, RunOf, TypeOK
    <1>5. CASE \E j \in Jobs : \/ JobStalled(j) \/ PoisonMark(j)
                               \/ PoisonMarkFails(j) \/ PoisonRemove(j)
                               \/ ListenerDies(j)
        BY <1>5, <1>a DEF RowExists, JobStalled, PoisonListener, PoisonMark,
           PoisonMarkFails, PoisonRemove, ListenerDies, rowVars, procVars,
           RunOf, TypeOK
    <1>6. ASSUME NEW w \in Workers, Process(w) \/ EngineThrows(w) \/ Crash(w)
          PROVE  RowExists'
        <2>1. /\ pc[w] # "idle" /\ RunOf(w) \in Runs /\ job[w] \in Jobs
              /\ status[RunOf(w)] # "none"
            BY <1>6, <1>a DEF Process, LoadRun, AcquireLock, LockUnavailable,
               LockQueryFails, MarkRunning, CreateSteps, EndRun, Release,
               EngineThrows, Crash, BusyHasJob, RowExists
        <2>2. CASE (JobCompleted(w) \/ JobFailed(w)) /\ UNCHANGED <<trig, status>>
            <3>1. \A j \in Jobs : j # job[w] => jobs'[j] = jobs[j] /\ dlq'[j] = dlq[j]
                BY <2>1, <2>2, <1>a
                   DEF JobCompleted, JobFailed, PoisonListener, TypeOK
            <3>2. \A v \in Workers : pc'[v] # "idle" =>
                      pc[v] # "idle" /\ RunOf(v)' = RunOf(v)
                BY <2>2, <1>a, Settling DEF GoIdle, TypeOK, RunOf
            <3> QED
                BY <2>1, <2>2, <3>1, <3>2, <1>a DEF RowExists, RunOf
        <2>3. CASE /\ UNCHANGED <<trig, job, jobs, dlq>>
                   /\ \E q \in Positions : pc' = [pc EXCEPT ![w] = q]
                   /\ \/ UNCHANGED status
                      \/ \E t \in {"running"} \cup Terminal :
                            status' = [status EXCEPT ![RunOf(w)] = t]
            BY <2>1, <2>3, <1>a DEF RowExists, RunOf, TypeOK, Terminal
        <2>4. CASE Crash(w)
            BY <2>1, <2>4, <1>a DEF Crash, GoIdle, rowVars, RowExists, RunOf,
               TypeOK
        <2>5. CASE ~Crash(w)
            BY <1>6, <2>2, <2>3, <2>5 DEF Process, LoadRun, AcquireLock,
               LockUnavailable, LockQueryFails, MarkRunning, CreateSteps,
               EndRun, Release, EngineThrows, Escape, rowVars, jobVars,
               Positions, Holding
        <2> QED BY <2>4, <2>5
    <1>7. CASE UNCHANGED vars
        BY <1>7, <1>a DEF vars, RowExists, RunOf
    <1> QED
        BY <1>1, <1>2, <1>3, <1>4, <1>5, <1>6, <1>7 DEF Next, Trigger, Poison

\* Between marking the run and writing its end an instance is not interfered
\* with: the lock keeps the others out.
LEMMA DriverStep == AllInv /\ [Next]_vars => DriverOwnsRow'
    <1> SUFFICES ASSUME AllInv, [Next]_vars PROVE DriverOwnsRow'
        OBVIOUS
    <1> USE DEF Untriggered
    <1>a. /\ TypeOK /\ BusyHasJob /\ RowInv /\ RowExists /\ DriverOwnsRow
          /\ \A w \in Workers : pc[w] # "idle" => RunOf(w) \in Runs
          /\ \A j \in Jobs : j \in Runs
        BY RunOfBusy DEF AllInv, Typed, DriverInv, Jobs
    <1>m. \A v, w \in Workers : (/\ pc[v] \in Holding
                                 /\ pc[w] \in Holding
                                 /\ RunOf(v) = RunOf(w)) => v = w
        BY DEF AllInv, LockInv, HolderHasLock, Key
    <1>1. CASE \E r \in Runs : \/ TriggerCheck(r) \/ TriggerAborts(r)
                               \/ TriggerEnqueue(r)
                               \/ CancelRun(r) \/ CancelExpires(r)
        BY <1>1, <1>a DEF DriverOwnsRow, TriggerCheck,
           TriggerAborts, TriggerEnqueue, CancelRun,
           CancelExpires, rowVars, procVars, RunOf, TypeOK
    <1>2. CASE \E r \in Runs : TriggerCreate(r)
        BY <1>2, <1>a DEF DriverOwnsRow, TriggerCreate,
           procVars, RunOf, TypeOK, RowInv, NoRowYet
    <1>3. CASE \E w \in Workers, j \in Jobs : Fetch(w, j)
        BY <1>3, <1>a DEF DriverOwnsRow, Fetch, rowVars,
           RunOf, TypeOK
    <1>4. CASE \E j \in Jobs : PoisonMark(j)
        BY <1>4, <1>a DEF DriverOwnsRow, PoisonMark,
           procVars, RunOf, TypeOK
    <1>5. CASE \E j \in Jobs : \/ JobStalled(j) \/ PoisonMarkFails(j)
                               \/ PoisonRemove(j) \/ ListenerDies(j)
        BY <1>5, <1>a DEF DriverOwnsRow, JobStalled,
           PoisonMarkFails, PoisonRemove, ListenerDies, rowVars, procVars,
           RunOf
    <1>6. ASSUME NEW w \in Workers, Process(w) \/ EngineThrows(w) \/ Crash(w)
          PROVE  DriverOwnsRow'
        <2>1. pc[w] # "idle" /\ RunOf(w) \in Runs
            BY <1>6, <1>a DEF Process, LoadRun, AcquireLock, LockUnavailable,
               LockQueryFails, MarkRunning, CreateSteps, EndRun, Release,
               EngineThrows, Crash
        <2>2. CASE GoIdle(w) /\ UNCHANGED <<trig, status, drives>>
            BY <2>1, <2>2, <1>a DEF GoIdle, DriverOwnsRow, RunOf, TypeOK
        <2>3. CASE /\ \E q \in {"guarded", "locked"} : pc' = [pc EXCEPT ![w] = q]
                   /\ UNCHANGED <<trig, status, drives, job>>
            BY <2>1, <2>3, <1>a DEF DriverOwnsRow,
               RunOf, TypeOK
        <2>4. CASE LoadRun(w) \/ AcquireLock(w)
            BY <2>2, <2>3, <2>4, Settling DEF LoadRun, AcquireLock, rowVars
        <2>5. CASE \/ LockUnavailable(w) \/ LockQueryFails(w) \/ Release(w)
                   \/ EngineThrows(w) \/ Crash(w)
            BY <2>2, <2>5, Settling DEF LockUnavailable, LockQueryFails,
               Release, EngineThrows, Escape, Crash, rowVars
        <2>6. CASE MarkRunning(w)
            <3>1. CASE Escape(w) /\ UNCHANGED status
                BY <2>2, <2>6, <3>1, Settling DEF MarkRunning, Escape
            <3>2. CASE ~(Escape(w) /\ UNCHANGED status)
                <4>1. /\ pc[w] = "locked"
                      /\ status' = [status EXCEPT ![RunOf(w)] = "running"]
                      /\ pc' = [pc EXCEPT ![w] = "marked"]
                      /\ UNCHANGED <<trig, drives, job>>
                    BY <2>6, <3>2 DEF MarkRunning
                <4> QED
                    BY <2>1, <4>1, <1>a DEF DriverOwnsRow, RunOf, TypeOK
            <3> QED BY <3>1, <3>2
        <2>7. CASE CreateSteps(w)
            <3>1. CASE Escape(w) /\ UNCHANGED <<rows, drives>>
                BY <2>2, <2>7, <3>1, Settling DEF CreateSteps, Escape
            <3>2. CASE ~(Escape(w) /\ UNCHANGED <<rows, drives>>)
                <4>1. /\ pc[w] = "marked" /\ ~rows[RunOf(w)]
                      /\ pc' = [pc EXCEPT ![w] = "driving"]
                      /\ drives' = [drives EXCEPT ![RunOf(w)] = @ + 1]
                      /\ UNCHANGED <<trig, status, job>>
                    BY <2>7, <3>2 DEF CreateSteps
                <4>2. drives[RunOf(w)] = 0
                    BY <2>1, <4>1, <1>a DEF RowInv, DrivesCountRows
                <4>3. \A v \in Workers : /\ pc[v] = "driving" /\ v # w
                                         => RunOf(v) # RunOf(w)
                    BY <4>1, <1>m DEF Holding
                <4> QED
                    BY <2>1, <4>1, <4>2, <4>3, <1>a DEF DriverOwnsRow, RunOf, TypeOK
            <3> QED BY <3>1, <3>2
        <2>8. ASSUME NEW t \in Terminal, EndRun(w, t)
              PROVE  DriverOwnsRow'
            <3>1. /\ pc[w] = "driving"
                  /\ status' = [status EXCEPT ![RunOf(w)] = t]
                  /\ pc' = [pc EXCEPT ![w] = "ended"]
                  /\ UNCHANGED <<trig, drives, job>>
                BY <2>8 DEF EndRun
            <3>2. \A v \in Workers : /\ pc[v] \in {"marked", "driving"} /\ v # w
                                     => RunOf(v) # RunOf(w)
                BY <3>1, <1>m DEF Holding
            <3> QED
                BY <2>1, <3>1, <3>2, <1>a DEF DriverOwnsRow, RunOf, TypeOK, Terminal
        <2> QED
            BY <1>6, <2>4, <2>5, <2>6, <2>7, <2>8 DEF Process
    <1>7. CASE UNCHANGED vars
        BY <1>7, <1>a DEF vars, DriverOwnsRow, RunOf
    <1> QED
        BY <1>1, <1>2, <1>3, <1>4, <1>5, <1>6, <1>7 DEF Next, Trigger, Poison

\* Every step of the service is a step of the contract, or none.
LEMMA ContractStep ==
    AllInv /\ [Next]_vars => [Contract!Next]_<<status, drives>>
    <1> SUFFICES ASSUME AllInv, [Next]_vars,
                        ~UNCHANGED <<status, drives>>
                 PROVE  Contract!Next
        OBVIOUS
    <1>a. /\ TypeOK /\ RowInv /\ RowExists /\ DriverOwnsRow
          /\ \A w \in Workers : pc[w] # "idle" => RunOf(w) \in Runs
          /\ \A j \in Jobs : j \in Runs
        BY RunOfBusy DEF AllInv, Typed, DriverInv, Jobs
    <1>1. CASE \E r \in Runs : TriggerCreate(r)
        BY <1>1, <1>a DEF TriggerCreate, RowInv, NoRowYet, Untriggered,
           Contract!Next, Contract!Create
    <1>2. CASE \E j \in Jobs : PoisonMark(j)
        <2>1. PICK j \in Jobs : PoisonMark(j)
            BY <1>2
        <2>2. status[j] # "none"
            BY <2>1, <1>a DEF PoisonMark, RowExists
        <2>3. Contract!Fail(j)
            BY <2>1, <2>2 DEF PoisonMark, Contract!Fail
        <2> QED BY <2>3, <1>a DEF Contract!Next
    <1>3. ASSUME NEW w \in Workers, MarkRunning(w) PROVE Contract!Next
        <2>1. /\ pc[w] = "locked" /\ ~stamped[RunOf(w)]
              /\ status' = [status EXCEPT ![RunOf(w)] = "running"]
              /\ UNCHANGED drives
            BY <1>3 DEF MarkRunning
        <2>2. RunOf(w) \in Runs /\ status[RunOf(w)] # "none"
            BY <2>1, <1>a DEF RowExists
        <2>3. status[RunOf(w)] \notin Terminal
            BY <2>1, <2>2, <1>a DEF RowInv, TerminalIsStamped
        <2>4. status[RunOf(w)] # "running"
            BY <2>1, <2>2, <1>a DEF TypeOK
        <2>5. status[RunOf(w)] = "pending"
            BY <2>2, <2>3, <2>4, <1>a DEF TypeOK, Active
        <2>6. Contract!Start(RunOf(w))
            BY <2>1, <2>5 DEF Contract!Start
        <2> QED BY <2>2, <2>6 DEF Contract!Next
    <1>4. ASSUME NEW w \in Workers, CreateSteps(w) PROVE Contract!Next
        <2>1. /\ pc[w] = "marked" /\ ~rows[RunOf(w)]
              /\ drives' = [drives EXCEPT ![RunOf(w)] = @ + 1]
              /\ UNCHANGED status
            BY <1>4 DEF CreateSteps
        <2>2. RunOf(w) \in Runs
            BY <2>1, <1>a
        <2>3. drives[RunOf(w)] = 0
            BY <2>1, <2>2, <1>a DEF RowInv, DrivesCountRows
        <2>4. drives' = [drives EXCEPT ![RunOf(w)] = 1]
            BY <2>1, <2>3
        <2>5. Contract!Drive(RunOf(w))
            BY <2>1, <2>3, <2>4, <1>a DEF DriverOwnsRow, Contract!Drive
        <2> QED BY <2>2, <2>5 DEF Contract!Next
    <1>5. ASSUME NEW w \in Workers, NEW t \in Terminal, EndRun(w, t)
          PROVE  Contract!Next
        <2>1. RunOf(w) \in Runs
            BY <1>5, <1>a DEF EndRun
        <2>2. Contract!Finish(RunOf(w), t)
            BY <1>5, <1>a DEF EndRun, DriverOwnsRow, Contract!Finish
        <2> QED BY <2>1, <2>2 DEF Contract!Next, Terminal
    <1>6. ASSUME NEW w \in Workers, \/ LoadRun(w) \/ AcquireLock(w)
                                    \/ LockUnavailable(w) \/ LockQueryFails(w)
                                    \/ Release(w) \/ EngineThrows(w) \/ Crash(w)
                                    \/ \E j \in Jobs : Fetch(w, j)
          PROVE  FALSE
        BY <1>6 DEF LoadRun, AcquireLock, LockUnavailable, LockQueryFails,
           Release, EngineThrows, Crash, Fetch, rowVars
    <1>7. ASSUME NEW r \in Runs, \/ TriggerCheck(r) \/ TriggerEnqueue(r)
                                 \/ TriggerAborts(r)
                                 \/ CancelRun(r) \/ CancelExpires(r)
          PROVE  FALSE
        BY <1>7 DEF TriggerCheck, TriggerEnqueue,
           TriggerAborts, CancelRun, CancelExpires, rowVars
    <1>8. ASSUME NEW j \in Jobs, \/ JobStalled(j) \/ PoisonRemove(j)
                                 \/ PoisonMarkFails(j) \/ ListenerDies(j)
          PROVE  FALSE
        BY <1>8 DEF JobStalled, PoisonRemove, PoisonMarkFails, ListenerDies,
           rowVars
    <1> QED
        BY <1>1, <1>2, <1>3, <1>4, <1>5, <1>6, <1>7, <1>8
           DEF Next, Process, Trigger, Poison, vars

\* The four invariants together.
LEMMA AllInvAlways == Spec => []AllInv
    <1>1. Init => DriverInv
        BY DEF Init, DriverInv, RowExists, DriverOwnsRow
    <1>2. AllInv /\ [Next]_vars => DriverInv'
        BY DriverStep, RowExistsStep DEF DriverInv
    <1>3. Init => LockInv
        BY DEF Init, LockInv, HolderHasLock, LockHasHolder, Holding
    <1>4. Init => AllInv
        BY <1>1, <1>3, TypedInit, RowInit DEF AllInv
    <1>5. AllInv /\ [Next]_vars => AllInv'
        BY <1>2, TypedStep, LockStep, RowStep DEF AllInv
    <1> QED
        BY <1>4, <1>5, PTL DEF Spec

\* processRun, the queue, the lock, the poison-pill rule and the callers of
\* triggerRun implement the contract, for every fault the module knows.
THEOREM ContractHolds == Spec => ImplementsContract
    <1>1. Init => Contract!Init
        BY DEF Init, Contract!Init
    <1> QED
        BY <1>1, AllInvAlways, ContractStep, PTL
           DEF Spec, ImplementsContract, Contract!Spec

-----------------------------------------------------------------------------
(* Nothing lost.  What follows holds of a service whose processes and      *)
(* stores do not fail (a blocked event loop is allowed) and that runs      *)
(* pipelines it can store; with a crash or a rejected write at the wrong   *)
(* moment a row stays "running" for good, which is why these are theorems  *)
(* under hypotheses and not invariants of Spec.                            *)

Calm == Faults \subseteq {"stall"}
Storable == \A r \in Runs : PipelineOf[r] \notin UnstorablePipelines

\* Every pipeline can be locked, and no other run contends for its lock.
KeysFit == \A r \in Runs : KeyFits(r)
Uncontended == \A q, r \in Runs : Key(q) = Key(r) => q = r

StampedIsTerminal == \A r \in Runs : stamped[r] => status[r] \in Terminal

\* run_steps rows belong to a run that is over or to the instance driving it;
\* so an instance that has just marked its run meets none.
RowsBelong ==
    \A r \in Runs : rows[r] =>
        stamped[r] \/ \E w \in Workers : pc[w] = "driving" /\ RunOf(w) = r
MarkedHasNoRows == \A w \in Workers : pc[w] = "marked" => ~rows[RunOf(w)]

DriveInv ==
    StampedIsTerminal /\ RowsBelong /\ MarkedHasNoRows /\ RunningHasDriver

\* A job that is gone, or about to be removed, was not the last hope of a
\* pending run; neither is an instance that has written the run's end.
GoneMeansStarted ==
    \A j \in Jobs : jobs[j] \in {"done", "removed"} \/ dlq[j] = "remove"
        => status[j] # "pending"
EndedIsWritten ==
    \A w \in Workers : pc[w] = "ended" => status[RunOf(w)] # "pending"
Enqueued ==
    \A r \in Runs : trig[r] = "done" => jobs[r] # "none"

GoneInv == GoneMeansStarted /\ EndedIsWritten /\ Enqueued

\* Whoever BullMQ thinks is working on an active job is.
ActiveIsOwned ==
    \A j \in Jobs : jobs[j] = "active" =>
        /\ owner[j] \in Workers
        /\ pc[owner[j]] # "idle"
        /\ job[owner[j]] = j

\* A pending run with a job to come or an instance on it.
Awaited(r) ==
    \/ jobs[r] \in {"waiting", "active"}
    \/ \E w \in Workers : pc[w] # "idle" /\ RunOf(w) = r
PendingIsAwaited ==
    \A r \in Runs : trig[r] = "done" /\ status[r] = "pending" => Awaited(r)

\* The general form of NoRunForgotten, for runs that do contend: a run that
\* is not over has at least left a job where an operator finds it.
ForgottenLeavesJob ==
    \A r \in Runs : (trig[r] = "done" /\ status[r] \in Active) =>
        \/ jobs[r] \in {"waiting", "active", "failed"}
        \/ \E w \in Workers : pc[w] # "idle" /\ RunOf(w) = r

\* Nobody crashes, nothing throws.
LEMMA CalmActions ==
    ASSUME Calm
    PROVE  /\ \A w \in Workers : ~EngineThrows(w) /\ ~Crash(w)
           /\ \A j \in Jobs : ~PoisonMarkFails(j) /\ ~ListenerDies(j)
           /\ \A r \in Runs : ~TriggerAborts(r)
    BY DEF Calm, EngineThrows, Crash, PoisonMarkFails, ListenerDies, TriggerAborts

\* An instance that does not drive its run, before and after a step of its
\* own that leaves the tables alone.
LEMMA UndrivenStep ==
    ASSUME DriveInv, NEW w \in Workers,
           pc[w] \notin {"marked", "driving"}, pc'[w] \notin {"marked", "driving"},
           \A v \in Workers : v # w => pc'[v] = pc[v] /\ RunOf(v)' = RunOf(v),
           UNCHANGED <<status, stamped, rows>>
    PROVE  DriveInv'
    <1>1. StampedIsTerminal'
        BY DEF DriveInv, StampedIsTerminal
    <1>2. RowsBelong'
        BY DEF DriveInv, RowsBelong
    <1>3. MarkedHasNoRows'
        BY DEF DriveInv, MarkedHasNoRows
    <1>4. RunningHasDriver'
        BY DEF DriveInv, RunningHasDriver
    <1> QED
        BY <1>1, <1>2, <1>3, <1>4 DEF DriveInv

LEMMA SettledIdle ==
    ASSUME Typed, NEW w \in Workers, JobCompleted(w) \/ JobFailed(w)
    PROVE  /\ pc'[w] = "idle"
           /\ \A v \in Workers : v # w => /\ pc'[v] = pc[v] /\ job'[v] = job[v]
                                          /\ RunOf(v)' = RunOf(v)
    <1>1. GoIdle(w)
        BY Settling
    <1> QED
        BY <1>1 DEF GoIdle, Typed, TypeOK, RunOf

LEMMA MarkStep ==
    ASSUME AllInv, DriveInv, NEW w \in Workers, pc[w] = "locked",
           ~stamped[RunOf(w)],
           status' = [status EXCEPT ![RunOf(w)] = "running"],
           pc' = [pc EXCEPT ![w] = "marked"],
           UNCHANGED <<stamped, rows, job>>
    PROVE  DriveInv'
    <1>1. /\ status \in [Runs -> {"none"} \cup Active \cup Terminal]
          /\ pc \in [Workers -> Positions] /\ RunOf(w) \in Runs
        BY RunOfBusy DEF AllInv, Typed, TypeOK
    <1>2. /\ pc'[w] = "marked" /\ status'[RunOf(w)] = "running"
          /\ \A v \in Workers : RunOf(v)' = RunOf(v)
          /\ \A v \in Workers : v # w => pc'[v] = pc[v]
          /\ \A r \in Runs : r # RunOf(w) => status'[r] = status[r]
        BY <1>1 DEF RunOf
    <1>3. ~rows[RunOf(w)]
        <2> SUFFICES ASSUME rows[RunOf(w)] PROVE FALSE
            OBVIOUS
        <2>1. PICK v \in Workers : pc[v] = "driving" /\ RunOf(v) = RunOf(w)
            BY <1>1 DEF DriveInv, RowsBelong
        <2>2. lock[Key(RunOf(w))] = w /\ lock[Key(RunOf(v))] = v
            BY <2>1 DEF AllInv, LockInv, HolderHasLock, Holding
        <2> QED
            BY <2>1, <2>2
    <1>4. StampedIsTerminal'
        BY <1>2 DEF DriveInv, StampedIsTerminal
    <1>5. RowsBelong'
        BY <1>2 DEF DriveInv, RowsBelong
    <1>6. MarkedHasNoRows'
        BY <1>2, <1>3 DEF DriveInv, MarkedHasNoRows
    <1>7. RunningHasDriver'
        BY <1>2 DEF DriveInv, RunningHasDriver
    <1> QED
        BY <1>4, <1>5, <1>6, <1>7 DEF DriveInv

\* No two instances hold the lock for one run.
LEMMA OneHolder ==
    ASSUME AllInv, NEW v \in Workers, NEW w \in Workers, v # w,
           pc[v] \in Holding, pc[w] \in Holding
    PROVE  RunOf(v) # RunOf(w)
    BY DEF AllInv, LockInv, HolderHasLock

LEMMA CreateStepsStep ==
    ASSUME Storable, AllInv, DriveInv, NEW w \in Workers, CreateSteps(w)
    PROVE  DriveInv'
    <1>1. /\ rows \in [Runs -> BOOLEAN]
          /\ pc \in [Workers -> Positions] /\ RunOf(w) \in Runs
        BY RunOfBusy DEF AllInv, Typed, TypeOK, CreateSteps
    <1>2. pc[w] = "marked" /\ ~rows[RunOf(w)] /\ PipelineOf[RunOf(w)] \notin UnstorablePipelines
        BY <1>1 DEF CreateSteps, DriveInv, MarkedHasNoRows, Storable
    <1>3. /\ rows' = [rows EXCEPT ![RunOf(w)] = TRUE]
          /\ pc' = [pc EXCEPT ![w] = "driving"]
          /\ UNCHANGED <<status, stamped, job>>
        BY <1>2 DEF CreateSteps
    <1>4. /\ pc'[w] = "driving" /\ rows'[RunOf(w)] = TRUE
          /\ \A v \in Workers : RunOf(v)' = RunOf(v)
          /\ \A v \in Workers : v # w => pc'[v] = pc[v]
          /\ \A r \in Runs : r # RunOf(w) => rows'[r] = rows[r]
        BY <1>1, <1>3 DEF RunOf
    <1>5. \A v \in Workers : v # w /\ pc[v] = "marked" =>
            RunOf(v) # RunOf(w) /\ RunOf(v) \in Runs
        BY <1>2, OneHolder, RunOfBusy DEF Holding, AllInv, Typed
    <1>6. StampedIsTerminal'
        BY <1>3 DEF DriveInv, StampedIsTerminal
    <1>7. RowsBelong'
        BY <1>2, <1>3, <1>4 DEF DriveInv, RowsBelong
    <1>8. MarkedHasNoRows'
        BY <1>3, <1>4, <1>5 DEF DriveInv, MarkedHasNoRows
    <1>9. RunningHasDriver'
        BY <1>3, <1>4 DEF DriveInv, RunningHasDriver
    <1> QED
        BY <1>6, <1>7, <1>8, <1>9 DEF DriveInv

LEMMA EndStep ==
    ASSUME AllInv, DriveInv, NEW w \in Workers, NEW t \in Terminal, EndRun(w, t)
    PROVE  DriveInv'
    <1>1. /\ status \in [Runs -> {"none"} \cup Active \cup Terminal]
          /\ stamped \in [Runs -> BOOLEAN]
          /\ pc \in [Workers -> Positions] /\ RunOf(w) \in Runs
        BY RunOfBusy DEF AllInv, Typed, TypeOK, EndRun
    <1>2. /\ pc[w] = "driving"
          /\ status' = [status EXCEPT ![RunOf(w)] = t]
          /\ stamped' = [stamped EXCEPT ![RunOf(w)] = TRUE]
          /\ pc' = [pc EXCEPT ![w] = "ended"]
          /\ UNCHANGED <<rows, job>>
        BY DEF EndRun
    <1>3. /\ pc'[w] = "ended" /\ status'[RunOf(w)] = t /\ stamped'[RunOf(w)]
          /\ \A v \in Workers : RunOf(v)' = RunOf(v)
          /\ \A v \in Workers : v # w => pc'[v] = pc[v]
          /\ \A r \in Runs : r # RunOf(w) =>
               status'[r] = status[r] /\ stamped'[r] = stamped[r]
        BY <1>1, <1>2 DEF RunOf
    <1>4. StampedIsTerminal'
        BY <1>3 DEF DriveInv, StampedIsTerminal
    <1>5. RowsBelong'
        BY <1>2, <1>3 DEF DriveInv, RowsBelong
    <1>6. MarkedHasNoRows'
        BY <1>2, <1>3 DEF DriveInv, MarkedHasNoRows
    <1>7. RunningHasDriver'
        BY <1>3 DEF DriveInv, RunningHasDriver, Terminal
    <1> QED
        BY <1>4, <1>5, <1>6, <1>7 DEF DriveInv

LEMMA DriveStep ==
    ASSUME Calm, Storable, AllInv, DriveInv, [Next]_vars
    PROVE  DriveInv'
    <1>a. /\ TypeOK /\ Typed
          /\ \A w \in Workers : pc[w] # "idle" => RunOf(w) \in Runs
          /\ \A j \in Jobs : j \in Runs
        BY RunOfBusy DEF AllInv, Typed, Jobs
    <1>1. CASE UNCHANGED <<status, stamped, rows, pc, job>>
        <2>1. \A w \in Workers : RunOf(w)' = RunOf(w)
            BY <1>1 DEF RunOf
        <2> QED
            BY <1>1, <2>1 DEF DriveInv, StampedIsTerminal, RowsBelong,
               MarkedHasNoRows, RunningHasDriver
    <1>2. ASSUME NEW r \in Runs, TriggerCreate(r)
          PROVE  DriveInv'
        <2>1. /\ status[r] = "none" /\ status' = [status EXCEPT ![r] = "pending"]
              /\ UNCHANGED <<stamped, rows, pc, job>>
            BY <1>2 DEF TriggerCreate, procVars, AllInv, RowInv, NoRowYet, Untriggered
        <2>2. /\ ~stamped[r] /\ status'[r] = "pending"
              /\ \A q \in Runs : q # r => status'[q] = status[q]
              /\ \A w \in Workers : RunOf(w)' = RunOf(w)
            BY <2>1, <1>a DEF TypeOK, DriveInv, StampedIsTerminal, Terminal, RunOf
        <2> QED
            BY <2>1, <2>2 DEF DriveInv, StampedIsTerminal, RowsBelong,
               MarkedHasNoRows, RunningHasDriver
    <1>3. ASSUME NEW j \in Jobs, PoisonMark(j)
          PROVE  DriveInv'
        <2>1. /\ status' = [status EXCEPT ![j] = "failed"]
              /\ stamped' = [stamped EXCEPT ![j] = TRUE]
              /\ UNCHANGED <<rows, pc, job>>
            BY <1>3 DEF PoisonMark, procVars
        <2>2. /\ status'[j] = "failed" /\ stamped'[j]
              /\ \A q \in Runs : q # j => status'[q] = status[q] /\ stamped'[q] = stamped[q]
              /\ \A w \in Workers : RunOf(w)' = RunOf(w)
            BY <2>1, <1>a DEF TypeOK, RunOf
        <2> QED
            BY <2>1, <2>2 DEF DriveInv, StampedIsTerminal, RowsBelong,
               MarkedHasNoRows, RunningHasDriver, Terminal
    <1>4. ASSUME NEW w \in Workers, NEW j \in Jobs, Fetch(w, j)
          PROVE  DriveInv'
        <2>1. /\ pc[w] = "idle" /\ pc'[w] = "loading"
              /\ \A v \in Workers : v # w => pc'[v] = pc[v] /\ RunOf(v)' = RunOf(v)
              /\ UNCHANGED <<status, stamped, rows>>
            BY <1>4, <1>a DEF Fetch, TypeOK, rowVars, RunOf
        <2> QED
            BY <2>1, UndrivenStep
    <1>5. ASSUME NEW w \in Workers, LoadRun(w) \/ AcquireLock(w)
          PROVE  DriveInv'
        <2>1. /\ pc[w] \in {"loading", "guarded"} /\ UNCHANGED <<status, stamped, rows>>
              /\ \/ JobCompleted(w)
                 \/ \E q \in {"guarded", "locked"} :
                      pc' = [pc EXCEPT ![w] = q] /\ job' = job
            BY <1>5 DEF LoadRun, AcquireLock, rowVars
        <2>2. CASE JobCompleted(w)
            BY <2>1, <2>2, <1>a, SettledIdle, UndrivenStep
        <2>3. CASE \E q \in {"guarded", "locked"} :
                     pc' = [pc EXCEPT ![w] = q] /\ job' = job
            <3>1. /\ pc'[w] \in {"guarded", "locked"}
                  /\ \A v \in Workers : v # w => pc'[v] = pc[v] /\ RunOf(v)' = RunOf(v)
                BY <2>3, <1>a DEF TypeOK, RunOf
            <3> QED
                BY <2>1, <3>1, UndrivenStep
        <2> QED
            BY <2>1, <2>2, <2>3
    <1>6. ASSUME NEW w \in Workers, LockUnavailable(w) \/ LockQueryFails(w) \/ Release(w)
          PROVE  DriveInv'
        <2>1. /\ pc[w] \in {"guarded", "ended"} /\ UNCHANGED <<status, stamped, rows>>
              /\ JobCompleted(w) \/ JobFailed(w)
            BY <1>6 DEF LockUnavailable, LockQueryFails, Release, rowVars
        <2> QED
            BY <2>1, <1>a, SettledIdle, UndrivenStep
    <1>7. ASSUME NEW w \in Workers, MarkRunning(w)
          PROVE  DriveInv'
        <2>1. CASE stamped[RunOf(w)]
            <3>1. /\ pc[w] = "locked" /\ UNCHANGED <<status, stamped, rows>>
                  /\ JobFailed(w)
                BY <2>1, <1>7 DEF MarkRunning, Escape
            <3> QED
                BY <3>1, <1>a, SettledIdle, UndrivenStep
        <2>2. CASE ~stamped[RunOf(w)]
            <3>1. /\ pc[w] = "locked"
                  /\ status' = [status EXCEPT ![RunOf(w)] = "running"]
                  /\ pc' = [pc EXCEPT ![w] = "marked"]
                  /\ UNCHANGED <<stamped, rows, job>>
                BY <2>2, <1>7 DEF MarkRunning
            <3> QED
                BY <2>2, <3>1, MarkStep
        <2> QED
            BY <2>1, <2>2
    <1>8. ASSUME NEW r \in Runs, \/ TriggerCheck(r) \/ TriggerEnqueue(r)
                                 \/ CancelRun(r)
                                 \/ CancelExpires(r)
          PROVE  UNCHANGED <<status, stamped, rows, pc, job>>
        BY <1>8 DEF TriggerCheck, TriggerEnqueue, CancelRun,
           CancelExpires, rowVars, procVars
    <1>9. ASSUME NEW j \in Jobs, JobStalled(j) \/ PoisonRemove(j)
          PROVE  UNCHANGED <<status, stamped, rows, pc, job>>
        BY <1>9 DEF JobStalled, PoisonRemove, rowVars, procVars
    <1>10. CASE UNCHANGED vars
        BY <1>1, <1>10 DEF vars
    <1> QED
        BY <1>1, <1>2, <1>3, <1>4, <1>5, <1>6, <1>7, <1>8, <1>9, <1>10,
           CreateStepsStep, EndStep, CalmActions
           DEF Next, Trigger, Process, Poison

LEMMA DriveAlways ==
    ASSUME Calm, Storable
    PROVE  Spec => []DriveInv
    <1>1. Init => DriveInv
        BY DEF Init, DriveInv, StampedIsTerminal, RowsBelong, MarkedHasNoRows,
           RunningHasDriver
    <1>2. AllInv /\ DriveInv /\ [Next]_vars => DriveInv'
        BY DriveStep
    <1> QED
        BY <1>1, <1>2, AllInvAlways, PTL DEF Spec

\* Without crashes and rejected writes a row that says running is driven:
\* a redelivered job cannot leave it behind.
THEOREM RunningIsDriven ==
    ASSUME Calm, Storable
    PROVE  Spec => []RunningHasDriver
    <1>1. DriveInv => RunningHasDriver
        BY DEF DriveInv
    <1> QED
        BY <1>1, DriveAlways, PTL

-----------------------------------------------------------------------------
\* A row becomes pending when it is inserted, and never again.
LEMMA PendingOnlyOnce ==
    ASSUME AllInv, [Next]_vars, NEW r \in Runs, status'[r] = "pending"
    PROVE  status[r] = "pending" \/ TriggerCreate(r)
    <1>a. TypeOK
        BY DEF AllInv, Typed
    <1>1. CASE status' = status
        BY <1>1
    <1>2. CASE \E q \in Runs : TriggerCreate(q)
        BY <1>2, <1>a DEF TriggerCreate, TypeOK
    <1>3. CASE \E j \in Jobs : PoisonMark(j)
        BY <1>3, <1>a DEF PoisonMark, TypeOK
    <1>4. CASE \E w \in Workers : MarkRunning(w)
        BY <1>4, <1>a DEF MarkRunning, TypeOK
    <1>5. CASE \E w \in Workers, t \in Terminal : EndRun(w, t)
        BY <1>5, <1>a DEF EndRun, TypeOK, Terminal
    <1>6. ASSUME NEW w \in Workers, \/ LoadRun(w) \/ AcquireLock(w)
                                    \/ LockUnavailable(w) \/ LockQueryFails(w)
                                    \/ CreateSteps(w) \/ Release(w)
                                    \/ EngineThrows(w) \/ Crash(w)
                                    \/ \E j \in Jobs : Fetch(w, j)
          PROVE  status' = status
        BY <1>6 DEF LoadRun, AcquireLock, LockUnavailable, LockQueryFails,
           CreateSteps, Release, EngineThrows, Crash, Fetch, rowVars
    <1>7. ASSUME NEW q \in Runs, \/ TriggerCheck(q) \/ TriggerEnqueue(q)
                                 \/ TriggerAborts(q)
                                 \/ CancelRun(q) \/ CancelExpires(q)
          PROVE  status' = status
        BY <1>7 DEF TriggerCheck, TriggerEnqueue,
           TriggerAborts, CancelRun, CancelExpires, rowVars
    <1>8. ASSUME NEW j \in Jobs, \/ JobStalled(j) \/ PoisonRemove(j)
                                 \/ PoisonMarkFails(j) \/ ListenerDies(j)
          PROVE  status' = status
        BY <1>8 DEF JobStalled, PoisonRemove, PoisonMarkFails, ListenerDies,
           rowVars
    <1> QED
        BY <1>1, <1>2, <1>3, <1>4, <1>5, <1>6, <1>7, <1>8
           DEF Next, Process, Trigger, Poison, vars

\* Settling a job touches the records of that job only; an exception leaves
\* it in the queue or among the failed ones.
LEMMA SettledJobs ==
    ASSUME Typed, NEW w \in Workers, pc[w] # "idle",
           JobCompleted(w) \/ JobFailed(w)
    PROVE  /\ job[w] \in Jobs
           /\ \A j \in Jobs : j # job[w] =>
                jobs'[j] = jobs[j] /\ dlq'[j] = dlq[j] /\ owner'[j] = owner[j]
           /\ jobs'[job[w]] \in {jobs[job[w]], "done", "waiting", "failed"}
           /\ JobFailed(w) => jobs'[job[w]] \in {jobs[job[w]], "waiting", "failed"}
           /\ dlq'[job[w]] \in {dlq[job[w]], "mark"}
           /\ owner[job[w]] = w => jobs'[job[w]] # "active"
           /\ owner[job[w]] # w => jobs'[job[w]] = jobs[job[w]]
                                   /\ owner'[job[w]] = owner[job[w]]
    <1>1. job[w] \in Jobs
        BY DEF Typed, BusyHasJob
    <1>2. CASE JobCompleted(w)
        BY <1>1, <1>2 DEF JobCompleted, JobFailed, Typed, TypeOK
    <1>3. CASE JobFailed(w)
        BY <1>1, <1>3 DEF JobFailed, PoisonListener, Typed, TypeOK
    <1> QED
        BY <1>2, <1>3

LEMMA GoneStartedStep ==
    ASSUME Calm, AllInv, GoneInv, [Next]_vars
    PROVE  GoneMeansStarted'
    <1>a. /\ TypeOK /\ Typed
          /\ \A w \in Workers : pc[w] # "idle" => RunOf(w) \in Runs /\ RunOf(w) = job[w]
          /\ \A j \in Jobs : j \in Runs
          /\ GoneMeansStarted
        BY RunOfBusy DEF AllInv, Typed, Jobs, GoneInv, RunOf
    <1> SUFFICES ASSUME NEW j \in Jobs, status'[j] = "pending",
                        jobs'[j] \in {"done", "removed"} \/ dlq'[j] = "remove"
                 PROVE  FALSE
        BY DEF GoneMeansStarted
    <1>1. CASE TriggerCreate(j)
        <2>1. jobs'[j] = jobs[j] /\ dlq'[j] = dlq[j] /\ trig[j] \in Untriggered
            BY <1>1 DEF TriggerCreate, jobVars, Untriggered
        <2>2. jobs[j] = "none" /\ dlq[j] = "no"
            BY <2>1 DEF AllInv, RowInv, JobsHaveRows
        <2> QED
            BY <2>1, <2>2
    <1>2. CASE ~TriggerCreate(j)
        <2>1. status[j] = "pending"
            BY <1>2, <1>a, PendingOnlyOnce
        <2>2. jobs[j] \notin {"done", "removed"} /\ dlq[j] # "remove"
            BY <2>1, <1>a DEF GoneMeansStarted
        <2>3. ~(jobs'[j] = jobs[j] /\ dlq'[j] = dlq[j])
            BY <2>2
        <2>4. ASSUME NEW r \in Runs, TriggerEnqueue(r)
              PROVE  FALSE
            <3>1. jobs'[j] \in {jobs[j], "waiting"} /\ dlq'[j] = dlq[j]
                BY <2>4, <1>a DEF TriggerEnqueue, AddJob, TypeOK
            <3> QED
                BY <3>1, <2>2
        <2>5. ASSUME NEW w \in Workers, NEW i \in Jobs, Fetch(w, i)
              PROVE  FALSE
            <3>1. jobs'[j] \in {jobs[j], "active"} /\ dlq'[j] = dlq[j]
                BY <2>5, <1>a DEF Fetch, TypeOK
            <3> QED
                BY <3>1, <2>2
        <2>6. ASSUME NEW i \in Jobs, JobStalled(i)
              PROVE  FALSE
            <3>1. /\ jobs'[j] \in {jobs[j], "waiting", "failed"}
                  /\ dlq'[j] \in {dlq[j], "mark"}
                BY <2>6, <1>a DEF JobStalled, PoisonListener, TypeOK
            <3> QED
                BY <3>1, <2>2
        <2>7. ASSUME NEW i \in Jobs, PoisonMark(i)
              PROVE  FALSE
            <3>1. i # j
                BY <2>7, <1>a DEF PoisonMark, TypeOK
            <3> QED
                BY <3>1, <2>2, <2>7, <1>a DEF PoisonMark, TypeOK
        <2>8. ASSUME NEW i \in Jobs, PoisonRemove(i)
              PROVE  FALSE
            <3>1. i # j
                BY <2>8, <2>2 DEF PoisonRemove
            <3> QED
                BY <3>1, <2>2, <2>8, <1>a DEF PoisonRemove, TypeOK
        <2>9. ASSUME NEW w \in Workers, pc[w] # "idle",
                     JobFailed(w) \/ (JobCompleted(w) /\ status[RunOf(w)] # "pending")
              PROVE  FALSE
            <3>1. CASE j # job[w]
                BY <3>1, <2>2, <2>9, <1>a, SettledJobs
            <3>2. CASE j = job[w]
                <4>1. JobFailed(w)
                    BY <3>2, <2>1, <2>9, <1>a
                <4>2. /\ jobs'[j] \in {jobs[j], "waiting", "failed"}
                      /\ dlq'[j] \in {dlq[j], "mark"}
                    BY <4>1, <3>2, <2>9, <1>a, SettledJobs
                <4> QED
                    BY <4>2, <2>2
            <3> QED
                BY <3>1, <3>2
        <2>10. ASSUME NEW w \in Workers, Process(w)
               PROVE  FALSE
            <3>1. CASE UNCHANGED <<jobs, dlq>>
                BY <3>1, <2>3
            <3>2. CASE ~UNCHANGED <<jobs, dlq>>
                <4>1. /\ pc[w] # "idle"
                      /\ JobFailed(w) \/ (JobCompleted(w) /\ status[RunOf(w)] # "pending")
                    <5>1. CASE LoadRun(w)
                        BY <5>1, <3>2 DEF LoadRun, jobVars
                    <5>2. CASE Release(w)
                        BY <5>2 DEF Release, GoneInv, EndedIsWritten
                    <5>3. CASE LockUnavailable(w) \/ LockQueryFails(w)
                        BY <5>3 DEF LockUnavailable, LockQueryFails
                    <5>4. CASE MarkRunning(w)
                        BY <5>4, <3>2 DEF MarkRunning, Escape, jobVars
                    <5>5. CASE CreateSteps(w)
                        BY <5>5, <3>2 DEF CreateSteps, Escape, jobVars
                    <5>6. ~AcquireLock(w) /\ \A t \in Terminal : ~EndRun(w, t)
                        BY <3>2 DEF AcquireLock, EndRun, jobVars
                    <5> QED
                        BY <2>10, <5>1, <5>2, <5>3, <5>4, <5>5, <5>6 DEF Process
                <4> QED
                    BY <4>1, <2>9
            <3> QED
                BY <3>1, <3>2
        <2>11. ASSUME NEW r \in Runs, \/ TriggerCheck(r) \/ TriggerCreate(r)
                                      \/ CancelRun(r) \/ CancelExpires(r)
               PROVE  FALSE
            BY <2>11, <2>3 DEF TriggerCheck, TriggerCreate, CancelRun,
               CancelExpires, jobVars
        <2>12. ~UNCHANGED vars
            BY <2>3 DEF vars
        <2> QED
            BY <2>4, <2>5, <2>6, <2>7, <2>8, <2>10, <2>11, <2>12, CalmActions
               DEF Next, Trigger, Poison
    <1> QED
        BY <1>1, <1>2

\* What an instance's own step does to its position; every other action
\* leaves it where it was.
LEMMA WhoMoves ==
    ASSUME Calm, Typed, [Next]_vars, NEW w \in Workers
    PROVE  \/ pc'[w] = pc[w] /\ job'[w] = job[w]
           \/ \E j \in Jobs : Fetch(w, j)
           \/ Process(w)
    <1>1. ASSUME NEW v \in Workers, NEW j \in Jobs, Fetch(v, j), v # w
          PROVE  pc'[w] = pc[w] /\ job'[w] = job[w]
        BY <1>1 DEF Fetch, Typed, TypeOK
    <1>2. ASSUME NEW v \in Workers, Process(v), v # w
          PROVE  pc'[w] = pc[w] /\ job'[w] = job[w]
        <2>1. \/ JobCompleted(v) \/ JobFailed(v)
              \/ job' = job /\ \E q \in Positions : pc' = [pc EXCEPT ![v] = q]
            BY <1>2 DEF Process, LoadRun, AcquireLock, LockUnavailable,
               LockQueryFails, MarkRunning, CreateSteps, EndRun, Release,
               Escape, Positions, Holding
        <2>2. CASE JobCompleted(v) \/ JobFailed(v)
            BY <2>2, <1>2, SettledIdle
        <2>3. CASE job' = job /\ \E q \in Positions : pc' = [pc EXCEPT ![v] = q]
            BY <2>3, <1>2 DEF Typed, TypeOK
        <2> QED
            BY <2>1, <2>2, <2>3
    <1>3. ASSUME NEW r \in Runs, Trigger(r) \/ CancelRun(r) \/ CancelExpires(r)
          PROVE  pc' = pc /\ job' = job
        BY <1>3 DEF Trigger, TriggerCheck, TriggerCreate, TriggerEnqueue,
           CancelRun, CancelExpires, procVars
    <1>4. ASSUME NEW j \in Jobs, JobStalled(j) \/ Poison(j)
          PROVE  pc' = pc /\ job' = job
        BY <1>4 DEF Poison, JobStalled, PoisonMark, PoisonRemove, procVars
    <1>5. CASE UNCHANGED vars
        BY <1>5 DEF vars
    <1> QED
        BY <1>1, <1>2, <1>3, <1>4, <1>5, CalmActions DEF Next

LEMMA EndedWrittenStep ==
    ASSUME Calm, AllInv, GoneInv, [Next]_vars
    PROVE  EndedIsWritten'
    <1>a. TypeOK /\ Typed
        BY DEF AllInv, Typed
    <1> SUFFICES ASSUME NEW w \in Workers, pc'[w] = "ended",
                        status'[RunOf(w)'] = "pending"
                 PROVE  FALSE
        BY DEF EndedIsWritten, RunOf
    <1>1. CASE pc'[w] = pc[w] /\ job'[w] = job[w]
        <2>1. pc[w] = "ended" /\ RunOf(w)' = RunOf(w) /\ RunOf(w) \in Runs
            BY <1>1, <1>a, RunOfBusy DEF RunOf, Typed
        <2>2. status[RunOf(w)] # "pending" /\ trig[RunOf(w)] \notin Untriggered
            BY <2>1 DEF GoneInv, EndedIsWritten, AllInv, RowInv, WorkersHaveRows
        <2>3. ~TriggerCreate(RunOf(w))
            BY <2>2 DEF TriggerCreate, Untriggered
        <2> QED
            BY <2>1, <2>2, <2>3, PendingOnlyOnce
    <1>2. ASSUME NEW j \in Jobs, Fetch(w, j)
          PROVE  FALSE
        BY <1>2, <1>a DEF Fetch, TypeOK
    <1>3. ASSUME Process(w) PROVE FALSE
        <2>1. CASE JobCompleted(w) \/ JobFailed(w)
            BY <2>1, <1>a, SettledIdle
        <2>2. CASE \E q \in {"guarded", "locked", "marked", "driving"} :
                     pc' = [pc EXCEPT ![w] = q]
            BY <2>2, <1>a DEF TypeOK
        <2>3. ASSUME NEW t \in Terminal, EndRun(w, t)
              PROVE  FALSE
            <3>1. RunOf(w) \in Runs /\ RunOf(w)' = RunOf(w)
                BY <2>3, <1>a, RunOfBusy DEF EndRun, RunOf, Typed
            <3> QED
                BY <3>1, <2>3, <1>a DEF EndRun, TypeOK, Terminal
        <2> QED
            BY <1>3, <2>1, <2>2, <2>3 DEF Process, LoadRun, AcquireLock,
               LockUnavailable, LockQueryFails, MarkRunning, CreateSteps,
               Release, Escape
    <1> QED
        BY <1>1, <1>2, <1>3, <1>a, WhoMoves

\* No action takes a job's record away.
LEMMA EnqueuedStep ==
    ASSUME Calm, AllInv, GoneInv, [Next]_vars
    PROVE  Enqueued'
    <1>a. /\ TypeOK /\ Typed /\ Enqueued
          /\ \A r \in Runs : r \in Jobs
        BY DEF AllInv, Typed, GoneInv, Jobs
    <1>1. \A j \in Jobs : jobs[j] # "none" => jobs'[j] # "none"
        <2>1. CASE jobs' = jobs
            BY <2>1
        <2>2. ASSUME NEW r \in Runs, TriggerEnqueue(r)
              PROVE  \A j \in Jobs : jobs[j] # "none" => jobs'[j] # "none"
            BY <2>2, <1>a DEF TriggerEnqueue, AddJob, TypeOK
        <2>3. ASSUME NEW w \in Workers, NEW i \in Jobs, Fetch(w, i)
              PROVE  \A j \in Jobs : jobs[j] # "none" => jobs'[j] # "none"
            BY <2>3, <1>a DEF Fetch, TypeOK
        <2>4. ASSUME NEW i \in Jobs, JobStalled(i) \/ PoisonRemove(i)
              PROVE  \A j \in Jobs : jobs[j] # "none" => jobs'[j] # "none"
            BY <2>4, <1>a DEF JobStalled, PoisonRemove, TypeOK
        <2>5. ASSUME NEW w \in Workers, pc[w] # "idle", JobCompleted(w) \/ JobFailed(w)
              PROVE  \A j \in Jobs : jobs[j] # "none" => jobs'[j] # "none"
            BY <2>5, <1>a, SettledJobs
        <2>6. ASSUME NEW w \in Workers, Process(w), jobs' # jobs
              PROVE  pc[w] # "idle" /\ (JobCompleted(w) \/ JobFailed(w))
            BY <2>6 DEF Process, LoadRun, AcquireLock, LockUnavailable,
               LockQueryFails, MarkRunning, CreateSteps, EndRun, Release,
               Escape, jobVars
        <2>7. ASSUME NEW r \in Runs, \/ TriggerCheck(r) \/ TriggerCreate(r)
                                     \/ CancelRun(r) \/ CancelExpires(r)
              PROVE  jobs' = jobs
            BY <2>7 DEF TriggerCheck, TriggerCreate, CancelRun, CancelExpires, jobVars
        <2>8. ASSUME NEW i \in Jobs, PoisonMark(i) PROVE jobs' = jobs
            BY <2>8 DEF PoisonMark
        <2>9. UNCHANGED vars => jobs' = jobs
            BY DEF vars
        <2> QED
            BY <2>1, <2>2, <2>3, <2>4, <2>5, <2>6, <2>7, <2>8, <2>9, CalmActions
               DEF Next, Trigger, Poison
    <1>2. \A r \in Runs : trig'[r] = "done" =>
            \/ trig[r] = "done"
            \/ jobs'[r] = "waiting"
        <2>1. CASE trig' = trig
            BY <2>1
        <2>2. ASSUME NEW q \in Runs, TriggerCheck(q) \/ TriggerCreate(q)
              PROVE  \A r \in Runs : trig'[r] = "done" =>
                        trig[r] = "done"
            BY <2>2, <1>a DEF TriggerCheck, TriggerCreate, TypeOK
        <2>3. ASSUME NEW q \in Runs, TriggerEnqueue(q)
              PROVE  \A r \in Runs : trig'[r] = "done" =>
                        trig[r] = "done" \/ jobs'[r] = "waiting"
            BY <2>3, <1>a DEF TriggerEnqueue, AddJob, TypeOK
        <2>5. ASSUME NEW q \in Runs, CancelRun(q) \/ CancelExpires(q)
              PROVE  trig' = trig
            BY <2>5 DEF CancelRun, CancelExpires
        <2>6. ASSUME NEW w \in Workers, Process(w) \/ \E j \in Jobs : Fetch(w, j)
              PROVE  trig' = trig
            BY <2>6 DEF Process, LoadRun, AcquireLock, LockUnavailable,
               LockQueryFails, MarkRunning, CreateSteps, EndRun, Release, Fetch
        <2>7. ASSUME NEW j \in Jobs, JobStalled(j) \/ PoisonMark(j) \/ PoisonRemove(j)
              PROVE  trig' = trig
            BY <2>7 DEF JobStalled, PoisonMark, PoisonRemove
        <2>8. UNCHANGED vars => trig' = trig
            BY DEF vars
        <2> QED
            BY <2>1, <2>2, <2>3, <2>5, <2>6, <2>7, <2>8, CalmActions
               DEF Next, Trigger, Poison
    <1> QED
        BY <1>1, <1>2, <1>a DEF Enqueued

LEMMA GoneAlways ==
    ASSUME Calm
    PROVE  Spec => []GoneInv
    <1>1. Init => GoneInv
        BY DEF Init, GoneInv, GoneMeansStarted, EndedIsWritten, Enqueued
    <1>2. AllInv /\ GoneInv /\ [Next]_vars => GoneInv'
        BY GoneStartedStep, EndedWrittenStep, EnqueuedStep DEF GoneInv
    <1> QED
        BY <1>1, <1>2, AllInvAlways, PTL DEF Spec

\* Runs of one pipeline contend for its lock, and a run whose attempts are
\* used up meanwhile is not delivered again; but whatever the queue and the
\* instances did, its job is then among the failed ones, where it is found.
THEOREM NoRunWithoutTrace ==
    ASSUME Calm, Storable
    PROVE  Spec => []ForgottenLeavesJob
    <1>1. AllInv /\ DriveInv /\ GoneInv => ForgottenLeavesJob
        <2> SUFFICES ASSUME AllInv, DriveInv, GoneInv, NEW r \in Runs,
                            trig[r] = "done", status[r] \in Active
                     PROVE  \/ jobs[r] \in {"waiting", "active", "failed"}
                            \/ \E w \in Workers : pc[w] # "idle" /\ RunOf(w) = r
            BY DEF ForgottenLeavesJob
        <2>1. CASE status[r] = "running"
            BY <2>1 DEF DriveInv, RunningHasDriver
        <2>2. CASE status[r] = "pending"
            <3>1. r \in Jobs
                BY DEF Jobs
            <3>2. jobs[r] \notin {"none", "done", "removed"}
                BY <3>1, <2>2 DEF GoneInv, GoneMeansStarted, Enqueued
            <3>3. jobs[r] \in {"waiting", "active", "failed"}
                BY <3>1, <3>2 DEF AllInv, Typed, TypeOK
            <3> QED
                BY <3>1, <3>3
        <2> QED
            BY <2>1, <2>2 DEF Active
    <1> QED
        BY <1>1, AllInvAlways, DriveAlways, GoneAlways, PTL

-----------------------------------------------------------------------------
\* A step of processRun settles the job or goes on with it.
LEMMA ProcessEitherWay ==
    ASSUME Typed, NEW w \in Workers, Process(w)
    PROVE  /\ pc[w] # "idle" /\ job[w] \in Jobs
           /\ \/ JobCompleted(w) \/ JobFailed(w)
              \/ /\ UNCHANGED <<job, jobs, owner, dlq>>
                 /\ pc'[w] # "idle"
                 /\ \A v \in Workers : v # w => pc'[v] = pc[v]
    <1>1. pc[w] # "idle"
        BY DEF Process, LoadRun, AcquireLock, LockUnavailable, LockQueryFails,
           MarkRunning, CreateSteps, EndRun, Release
    <1>2. \/ JobCompleted(w) \/ JobFailed(w)
          \/ /\ UNCHANGED <<job, jobs, owner, dlq>>
             /\ \E q \in {"guarded"} \cup Holding : pc' = [pc EXCEPT ![w] = q]
        BY DEF Process, LoadRun, AcquireLock, LockUnavailable, LockQueryFails,
           MarkRunning, CreateSteps, EndRun, Release, Escape, Holding, jobVars
    <1> QED
        BY <1>1, <1>2 DEF Typed, TypeOK, BusyHasJob, Holding

LEMMA OwnedStep ==
    ASSUME Calm, AllInv, ActiveIsOwned, [Next]_vars
    PROVE  ActiveIsOwned'
    <1>a. TypeOK /\ Typed
        BY DEF AllInv, Typed
    <1> SUFFICES ASSUME NEW j \in Jobs, jobs'[j] = "active"
                 PROVE  /\ owner'[j] \in Workers
                        /\ pc'[owner'[j]] # "idle"
                        /\ job'[owner'[j]] = j
        BY DEF ActiveIsOwned
    <1>1. ASSUME jobs[j] = "active", owner'[j] = owner[j],
                 pc'[owner[j]] # "idle", job'[owner[j]] = job[owner[j]]
          PROVE  /\ owner'[j] \in Workers
                 /\ pc'[owner'[j]] # "idle"
                 /\ job'[owner'[j]] = j
        BY <1>1 DEF ActiveIsOwned
    <1>2. jobs[j] = "active" =>
            owner[j] \in Workers /\ pc[owner[j]] # "idle" /\ job[owner[j]] = j
        BY DEF ActiveIsOwned
    <1>3. ASSUME NEW w \in Workers, NEW i \in Jobs, Fetch(w, i)
          PROVE  /\ owner'[j] \in Workers
                 /\ pc'[owner'[j]] # "idle"
                 /\ job'[owner'[j]] = j
        <2>1. CASE i = j
            BY <1>3, <2>1, <1>a DEF Fetch, TypeOK
        <2>2. CASE i # j
            <3>1. jobs[j] = "active" /\ owner'[j] = owner[j] /\ pc[w] = "idle"
                BY <1>3, <2>2, <1>a DEF Fetch, TypeOK
            <3>2. owner[j] # w
                BY <3>1, <1>2
            <3>3. pc'[owner[j]] = pc[owner[j]] /\ job'[owner[j]] = job[owner[j]]
                BY <1>3, <3>1, <3>2, <1>2, <1>a DEF Fetch, TypeOK
            <3> QED
                BY <3>1, <3>3, <1>1, <1>2
        <2> QED
            BY <2>1, <2>2
    <1>4. ASSUME NEW w \in Workers, Process(w)
          PROVE  /\ owner'[j] \in Workers
                 /\ pc'[owner'[j]] # "idle"
                 /\ job'[owner'[j]] = j
        <2>1. CASE JobCompleted(w) \/ JobFailed(w)
            <3>1. pc[w] # "idle" /\ job[w] \in Jobs
                BY <1>4, <1>a, ProcessEitherWay
            <3>2. ~(j = job[w] /\ owner[j] = w)
                BY <2>1, <3>1, <1>a, SettledJobs
            <3>3. jobs[j] = "active" /\ owner'[j] = owner[j]
                BY <2>1, <3>1, <3>2, <1>a, SettledJobs
            <3>4. owner[j] # w
                BY <3>2, <3>3, <1>2
            <3>5. pc'[owner[j]] = pc[owner[j]] /\ job'[owner[j]] = job[owner[j]]
                BY <2>1, <3>3, <3>4, <1>2, <1>a, SettledIdle
            <3> QED
                BY <3>3, <3>5, <1>1, <1>2
        <2>2. CASE ~(JobCompleted(w) \/ JobFailed(w))
            <3>1. /\ UNCHANGED <<job, jobs, owner>>
                  /\ \A v \in Workers : pc[v] # "idle" => pc'[v] # "idle"
                BY <1>4, <2>2, <1>a, ProcessEitherWay
            <3> QED
                BY <3>1, <1>1, <1>2
        <2> QED
            BY <2>1, <2>2
    <1>5. ASSUME NEW i \in Jobs, JobStalled(i) \/ Poison(i)
          PROVE  /\ owner'[j] \in Workers
                 /\ pc'[owner'[j]] # "idle"
                 /\ job'[owner'[j]] = j
        <2>1. pc' = pc /\ job' = job /\ jobs[j] = "active" /\ owner'[j] = owner[j]
            BY <1>5, <1>a DEF JobStalled, Poison, PoisonMark, PoisonRemove,
               TypeOK, procVars
        <2> QED
            BY <2>1, <1>1, <1>2
    <1>6. ASSUME NEW r \in Runs, Trigger(r) \/ CancelRun(r) \/ CancelExpires(r)
          PROVE  /\ owner'[j] \in Workers
                 /\ pc'[owner'[j]] # "idle"
                 /\ job'[owner'[j]] = j
        <2>1. pc' = pc /\ job' = job /\ jobs[j] = "active" /\ owner' = owner
            BY <1>6, <1>a DEF Trigger, TriggerCheck, TriggerCreate, TriggerEnqueue,
               AddJob, CancelRun, CancelExpires, TypeOK, procVars,
               jobVars
        <2> QED
            BY <2>1, <1>1, <1>2
    <1>7. CASE UNCHANGED vars
        BY <1>7, <1>1, <1>2 DEF vars
    <1> QED
        BY <1>3, <1>4, <1>5, <1>6, <1>7, CalmActions DEF Next

\* The instance that settles a pending run's job without having started it
\* found the pipeline locked, by an instance that is busy with the same run.
LEMMA SettledIsAwaited ==
    ASSUME KeysFit, Uncontended, Calm, AllInv, DriveInv, GoneInv,
           NEW w \in Workers, Process(w), JobCompleted(w) \/ JobFailed(w),
           status[RunOf(w)] = "pending", status'[RunOf(w)] = "pending"
    PROVE  \E v \in Workers : v # w /\ pc[v] # "idle" /\ RunOf(v) = RunOf(w)
    <1>a. /\ TypeOK /\ Typed /\ pc[w] # "idle" /\ RunOf(w) \in Runs
        BY ProcessEitherWay, RunOfBusy DEF AllInv, Typed
    <1>1. ~LoadRun(w)
        BY <1>a, SettledIdle DEF LoadRun, TypeOK
    <1>2. ~AcquireLock(w) /\ \A t \in Terminal : ~EndRun(w, t)
        BY <1>a, SettledIdle DEF AcquireLock, EndRun, TypeOK
    <1>3. ~LockQueryFails(w)
        BY <1>a DEF LockQueryFails, KeysFit, Calm
    <1>4. ~MarkRunning(w)
        <2>1. ~stamped[RunOf(w)]
            BY <1>a DEF DriveInv, StampedIsTerminal, Terminal
        <2> QED
            BY <2>1, <1>a, SettledIdle DEF MarkRunning, TypeOK
    <1>5. ~CreateSteps(w)
        BY DEF CreateSteps, AllInv, DriverInv, DriverOwnsRow
    <1>6. ~Release(w)
        BY DEF Release, GoneInv, EndedIsWritten
    <1>7. LockUnavailable(w)
        BY <1>1, <1>2, <1>3, <1>4, <1>5, <1>6 DEF Process
    <1> DEFINE v == lock[Key(RunOf(w))]
    <1>8. /\ pc[w] = "guarded" /\ v # NoWorker /\ Key(RunOf(w)) \in Keys
        BY <1>7, <1>a, KeyType DEF LockUnavailable
    <1>9. /\ v \in Workers /\ pc[v] \in Holding /\ Key(RunOf(v)) = Key(RunOf(w))
        BY <1>8, <1>a DEF TypeOK, AllInv, LockInv, LockHasHolder
    <1>10. pc[v] # "idle" /\ RunOf(v) \in Runs /\ v # w
        BY <1>8, <1>9, <1>a, RunOfBusy DEF Holding, Typed
    <1>11. RunOf(v) = RunOf(w)
        BY <1>9, <1>10, <1>a DEF Uncontended
    <1> QED
        BY <1>9, <1>10, <1>11

LEMMA AwaitedStep ==
    ASSUME KeysFit, Uncontended, Calm, AllInv, DriveInv, GoneInv,
           ActiveIsOwned, PendingIsAwaited, [Next]_vars
    PROVE  PendingIsAwaited'
    <1>a. /\ TypeOK /\ Typed
          /\ \A j \in Jobs : j \in Runs
          /\ \A r \in Runs : r \in Jobs
        BY DEF AllInv, Typed, Jobs
    <1> SUFFICES ASSUME NEW r \in Runs, trig'[r] = "done", status'[r] = "pending"
                 PROVE  Awaited(r)'
        BY DEF PendingIsAwaited
    <1>1. CASE TriggerEnqueue(r)
        <2>1. jobs' = [jobs EXCEPT ![r] = "waiting"]
            BY <1>1 DEF TriggerEnqueue, AddJob
        <2>2. jobs'[r] = "waiting" /\ r \in Jobs
            BY <2>1, <1>a DEF TypeOK
        <2> QED
            BY <2>2 DEF Awaited
    <1>2. CASE ~(TriggerEnqueue(r))
        <2>1. trig[r] = "done"
            <3>1. ASSUME NEW q \in Runs, Trigger(q) PROVE trig[r] = "done"
                BY <3>1, <1>2, <1>a DEF Trigger, TriggerCheck, TriggerCreate,
                   TriggerEnqueue, TypeOK
            <3>2. ASSUME NEW q \in Runs, CancelRun(q) \/ CancelExpires(q)
                  PROVE  trig' = trig
                BY <3>2 DEF CancelRun, CancelExpires
            <3>3. ASSUME NEW w \in Workers, Process(w) \/ \E j \in Jobs : Fetch(w, j)
                  PROVE  trig' = trig
                BY <3>3 DEF Process, LoadRun, AcquireLock, LockUnavailable,
                   LockQueryFails, MarkRunning, CreateSteps, EndRun, Release, Fetch
            <3>4. ASSUME NEW j \in Jobs, JobStalled(j) \/ Poison(j)
                  PROVE  trig' = trig
                BY <3>4 DEF JobStalled, Poison, PoisonMark, PoisonRemove
            <3>5. UNCHANGED vars => trig' = trig
                BY DEF vars
            <3> QED
                BY <3>1, <3>2, <3>3, <3>4, <3>5, CalmActions DEF Next
        <2>2. status[r] = "pending"
            <3>1. ~TriggerCreate(r)
                BY <2>1 DEF TriggerCreate
            <3> QED
                BY <3>1, PendingOnlyOnce
        <2>3. Awaited(r)
            BY <2>1, <2>2 DEF PendingIsAwaited
        <2>4. ASSUME /\ jobs[r] \in {"waiting", "active"}
                           => jobs'[r] \in {"waiting", "active"}
                     /\ \A w \in Workers : pc[w] # "idle" /\ RunOf(w) = r =>
                           pc'[w] # "idle" /\ job'[w] = job[w]
              PROVE  Awaited(r)'
            BY <2>3, <2>4 DEF Awaited, RunOf
        <2>5. ASSUME NEW w \in Workers, NEW i \in Jobs, Fetch(w, i)
              PROVE  Awaited(r)'
            BY <2>4, <2>5, <1>a DEF Fetch, TypeOK
        <2>6. ASSUME NEW w \in Workers, Process(w)
              PROVE  Awaited(r)'
            <3>a. pc[w] # "idle" /\ job[w] \in Jobs /\ RunOf(w) = job[w]
                BY <2>6, <1>a, ProcessEitherWay DEF RunOf
            <3>1. CASE ~(JobCompleted(w) \/ JobFailed(w))
                <4>1. /\ UNCHANGED <<job, jobs>>
                      /\ \A v \in Workers : pc[v] # "idle" => pc'[v] # "idle"
                    BY <3>1, <2>6, <1>a, ProcessEitherWay
                <4> QED
                    BY <4>1, <2>4
            <3>2. CASE (JobCompleted(w) \/ JobFailed(w)) /\ RunOf(w) # r
                <4>1. jobs'[r] = jobs[r]
                    BY <3>2, <3>a, <1>a, SettledJobs
                <4>2. \A v \in Workers : v # w => pc'[v] = pc[v] /\ job'[v] = job[v]
                    BY <3>2, <1>a, SettledIdle
                <4> QED
                    BY <4>1, <4>2, <3>2, <2>4
            <3>3. CASE (JobCompleted(w) \/ JobFailed(w)) /\ RunOf(w) = r
                <4>1. PICK v \in Workers : v # w /\ pc[v] # "idle" /\ RunOf(v) = r
                    BY <3>3, <2>2, <2>6, SettledIsAwaited
                <4>2. pc'[v] # "idle" /\ RunOf(v)' = r
                    BY <4>1, <3>3, <1>a, SettledIdle
                <4> QED
                    BY <4>2 DEF Awaited
            <3> QED
                BY <3>1, <3>2, <3>3
        <2>7. ASSUME NEW i \in Jobs, JobStalled(i)
              PROVE  Awaited(r)'
            <3>1. pc' = pc /\ job' = job /\ jobs[i] = "active"
                BY <2>7 DEF JobStalled, procVars
            <3>2. CASE i = r
                <4>1. owner[i] \in Workers /\ pc[owner[i]] # "idle" /\ RunOf(owner[i]) = r
                    BY <3>1, <3>2 DEF ActiveIsOwned, RunOf
                <4> QED
                    BY <4>1, <3>1 DEF Awaited, RunOf
            <3>3. CASE i # r
                <4>1. jobs'[r] = jobs[r]
                    BY <2>7, <3>3, <1>a DEF JobStalled, TypeOK
                <4> QED
                    BY <4>1, <3>1, <2>4
            <3> QED
                BY <3>2, <3>3
        <2>8. ASSUME NEW i \in Jobs, Poison(i)
              PROVE  Awaited(r)'
            <3>1. CASE PoisonMark(i)
                BY <3>1, <2>4 DEF PoisonMark, procVars
            <3>2. CASE PoisonRemove(i)
                <4>1. i # r
                    BY <3>2, <2>2 DEF PoisonRemove, GoneInv, GoneMeansStarted
                <4>2. /\ jobs'[r] = jobs[r]
                      /\ pc' = pc /\ job' = job
                    BY <4>1, <3>2, <1>a DEF PoisonRemove, TypeOK, procVars
                <4> QED
                    BY <4>2, <2>4
            <3> QED
                BY <2>8, <3>1, <3>2 DEF Poison
        <2>9. ASSUME NEW q \in Runs, Trigger(q) \/ CancelRun(q) \/ CancelExpires(q)
              PROVE  Awaited(r)'
            <3>1. pc' = pc /\ job' = job
                BY <2>9 DEF Trigger, TriggerCheck, TriggerCreate, TriggerEnqueue,
                   CancelRun, CancelExpires, procVars
            <3>2. jobs' = jobs \/ \E j \in Jobs : jobs' = [jobs EXCEPT ![j] = "waiting"]
                <4>1. CASE TriggerEnqueue(q)
                    BY <4>1 DEF TriggerEnqueue, AddJob, Jobs
                <4>2. CASE \/ TriggerCheck(q) \/ TriggerCreate(q)
                           \/ CancelRun(q) \/ CancelExpires(q)
                    BY <4>2 DEF TriggerCheck, TriggerCreate, CancelRun, CancelExpires,
                       jobVars
                <4> QED
                    BY <2>9, <4>1, <4>2 DEF Trigger
            <3>3. \A j \in Jobs : jobs'[j] \in {jobs[j], "waiting"}
                BY <3>2, <1>a DEF TypeOK
            <3> QED
                BY <3>1, <3>3, <2>4, <1>a
        <2>10. UNCHANGED vars => Awaited(r)'
            BY <2>4 DEF vars
        <2> QED
            BY <2>5, <2>6, <2>7, <2>8, <2>9, <2>10, CalmActions DEF Next
    <1> QED
        BY <1>1, <1>2

\* A triggered run of a pipeline nobody else runs is never forgotten: two
\* jobs, redelivery after a stall, exhausted attempts and the poison-pill rule
\* leave a job that will be delivered or an instance at work until it is over.
THEOREM NeverForgotten ==
    ASSUME Calm, Storable, KeysFit, Uncontended
    PROVE  Spec => []NoRunForgotten
    <1>1. Init => ActiveIsOwned /\ PendingIsAwaited
        BY DEF Init, ActiveIsOwned, PendingIsAwaited
    <1>2. AllInv /\ ActiveIsOwned /\ [Next]_vars => ActiveIsOwned'
        BY OwnedStep
    <1>3. AllInv /\ DriveInv /\ GoneInv /\ ActiveIsOwned /\ PendingIsAwaited
            /\ [Next]_vars => PendingIsAwaited'
        BY AwaitedStep
    <1>4. DriveInv /\ PendingIsAwaited => NoRunForgotten
        BY DEF DriveInv, RunningHasDriver, PendingIsAwaited, Awaited, Active,
           NoRunForgotten
    <1> QED
        BY <1>1, <1>2, <1>3, <1>4, AllInvAlways, DriveAlways, GoneAlways, PTL
           DEF Spec
=============================================================================
