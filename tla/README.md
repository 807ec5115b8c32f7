# A verification project for OnePlatform

OnePlatform is a multi-tenant data platform of ten TypeScript services.  This
directory holds TLA+ models of the parts that carry its hardest logic: the runs
of the Pipeline Service, how its step graphs are walked and its schedules; the
syncs of the Ingestion Service; the sandboxes of the Execution Service; the
version upgrades of the Plugin Service; the refresh tokens of the Auth Service.
TLC checks the models on small instances, TLAPS proves their main safety
properties for all instances.  `PROJECT.json` maps every definition to
the lines it models and lists the hazards the properties are aimed at.

## The system

| Component | State | Operations | Hard because |
|---|---|---|---|
| Pipeline runs: `run-service.ts`, `index.ts`, `execution-engine.ts` (`processRun`) | rows of `pipeline.runs` and `run_steps`, BullMQ jobs, Redis cancel flags, Postgres session locks | trigger, cancel, fetch, lock, drive, finish, poison-pill listener | several instances, redelivery, crashes, retries, a guard read before the lock |
| Step traversal: `execution-engine.ts` | current step, retry counter, `run_steps` rows, branch promises | hooks, skip, execute, retry, fallback, parallel branches, cancel | promises that nobody awaits, jumps through two different step lists |
| Definition validation: `pipeline-service.ts` | none | `validateDefinition` | must agree with the engine's idea of the graph |
| Schedules: `schedule-service.ts`, `schedule-repository.ts` | rows of `pipeline.schedules` | create, patch, delete, `cronTick` | every replica ticks, ticks overlap, edits in between |
| Sub-workflows: `execution-engine.ts`, `index.ts` | call stack in the job | trigger child, replace its job, poll | not reached: the schema refuses the step before it executes |
| Ingestion syncs: `sync-service.ts`, `raw-table-repository.ts` | `sync_state` with its cursor, the raw table, two BullMQ queues | trigger, page, enqueue, insert, soft-delete, watchdog | cursor written before the data, retries, overlapping syncs |
| Execution sandboxes: `sandbox-manager.ts`, `execution-router.ts`, `execution-service.ts` | the primary, the warm pool, what is in flight where, execution rows | dispatch, ping, recover, reconnect, recycle, drain | swaps under running executions, crashes during drains, late answers |
| Plugin versions: `upgrade-service.ts`, `instance-service.ts` | `plugins`, `instances` and `hooks` rows, drain resolvers | upgrade, rollback, enable, disable | reads a minute older than the swap that uses them |
| Auth sessions: `token-service.ts`, `auth-service.ts` | `auth.sessions`, four kinds of Redis keys | log in, rotate, detect replay, log out, change password | database and Redis written one after the other |
| Execution tracker and SSE: `execution-tracker.ts`, `routes/executions.ts` | active map, history, emitters | start, update, complete, subscribe, evict | eviction at the limit, streams that must close |
| Event triggers: `trigger-service.ts` | in-memory subscriptions, a unique index on runs | handle event on every replica | duplicate events, crash of the winner |
| Approvals: `approval-service.ts` | requests with their deadlines | request, decide, expire | expiry is written on read; not constructed by `index.ts` |
| Transform engine, condition and expression evaluators | none | pure functions | corner cases of data |
| Gateway | circuit breakers, webhook endpoints, SSE clients, meters | proxy, deliver, stream | time-outs, retries |
| Ontology, App, Logging | entities, builds, logs | migrate, deploy, append | multi-step changes that fail half way |
| SDKs, CLI, frontend, docs, connector and auth plugins | client side | request wrappers, adapters | outside the core |

How the parts meet.  A user, a schedule, an event or a webhook calls
`triggerRun`, which inserts a row and adds a BullMQ job.  A worker of some
instance fetches the job and calls `processRun`, which checks the row, takes the
pipeline's advisory lock, sets the row to running, inserts the step rows, walks
the steps and writes the final status.  An exception makes BullMQ retry the job;
the worker's `failed` listener applies the poison-pill rule.  `cancelRun` only
sets a flag that the walk reads between steps.  Steps and connectors execute code
through the Execution Service, on the primary sandbox; an upgrade in the Plugin
Service asks it to drain a plugin and waits for the answer.  A sync calls its
connector through it, page by page, and hands the pages to batch workers.

What makes each modelled part correct:

- runs: one driver per pipeline; each run driven at most once however often it is
  delivered; no lock without a live holder; a finished run stays finished; where
  nothing crashes or throws, a run comes to an end;
- traversal: where the validator saw every move of a definition, the walk ends,
  no step body runs more often than its retries allow and no row is reopened; a
  failure is reported or excused; no row is left in an impossible state; a
  parallel step waits for what it says it waits for;
- schedules: a firing is claimed once and fires at most once; an edit survives a
  stale tick; a due firing that is held up is not dropped;
- syncs: the stored cursor passes no record that is neither in the table (rows
  deleted softly count), nor on the batch queue, nor in a batch given up; a full
  sync that had the connector for itself leaves exactly what it fetched;
- sandboxes: an execution is tracked where it runs, is never cut off in silence
  nor reported killed after it answered, ends unless the database refuses the
  last write of its row, and the service recovers;
- plugin versions: an enabled instance points to the active version and a swap
  takes every instance with it; a swap that fails leaves nothing; a wait for a
  drain that no other call joins ends;
- sessions: one usable refresh token each; a revoked session gets at most the one
  token of a rotation already past its check; a replayed token ends its session.

## The modules

| Module | Content |
|---|---|
| `PipelineRun` | trigger, queue, lock, row, listener, crash |
| `RunContract` | what a reader of the row may rely on; `PipelineRun` implements it |
| `StepGraph` | definitions, the validator's graph and the engine's next step |
| `StepTraversal` | steps 5 to 9 of `processRun`, extends `StepGraph` |
| `Schedule` | one row of `pipeline.schedules`, its ticks and its editors |
| `Sync` | the syncs of one connector |
| `Sandbox` | the sandbox instances and the executions on them |
| `PluginVersions` | the versions, instances and hooks of one plugin |
| `Sessions` | the sessions and refresh tokens of one user |
| `MC...` | constants for TLC |
| `...Proofs` | theorems, checked by TLAPS |

### PipelineRun

One step per await between which another actor can act.  `trig` is the caller of
`triggerRun`: check, insert, enqueue.  `status`, `stamped` and `rows` are the run
row, its `completed_at` and its step rows; `jobs`, `attempts`, `stalls` and
`owner` are BullMQ's view; `pc` and `job` are each instance's position in
`processRun`; `lock` maps a key to the instance whose session holds it; `leaked`
counts pool clients never given back; `dlq` is the listener; `drives` is a
history variable.

| Action | Code |
|---|---|
| `TriggerCheck`, `TriggerCreate`, `TriggerEnqueue`, `TriggerAborts` | `triggerRun` |
| `CancelRun`, `CancelExpires` | `cancelRun` and the flag's TTL |
| `Fetch`, `JobCompleted`, `JobFailed`, `JobStalled` | BullMQ worker (external), with the retry policy of `queue.ts` |
| `LoadRun`, `AcquireLock`, `LockUnavailable`, `LockQueryFails`, `MarkRunning`, `CreateSteps`, `EndRun`, `Release`, `EngineThrows` | `processRun` and its `finally` |
| `PoisonMark`, `PoisonMarkFails`, `PoisonRemove`, `ListenerDies` | the `failed` listener |
| `Crash` | the process dies: its sessions close |

Two database constraints do real work here: `runs_completed_at_after_started`
rejects a start after an end, and `run_steps_step_id_per_run_unique` rejects a
second set of step rows.  Without them the run would be revived or driven twice,
because the pending guard is read before the lock is taken.  A third,
`run_steps_step_type_valid`, admits neither wait nor approval, transform or
sub_workflow steps: `CreateSteps` throws for a pipeline that has one
(`UnstorablePipelines`), after its row was set to running.  So no sub-workflow
step ever executes, and the code behind it is not modelled.

Abstractions: an instance has one worker slot; clocks of instances agree well
enough that a start comes after an earlier end; less than a minute since the job
was added is a choice; the lock key has `KeyBits` bits, 64 in the code.

`RunContract` is the same service seen from the row alone: a run is created,
started once, driven once, and ends; it may be declared failed at any time.
`ImplementsContract` maps `state` to `status` and `driven` to `drives`.  The
contract is as strong as the code allows: the poison-pill listener writes failed
without looking, so a failed row can still be driven and finish otherwise.

### StepGraph and StepTraversal

A definition is an entry and a list of steps; all step types the engine merely
awaits are "task".  `validateDefinition` decides which definitions a run can
have, with the validator's edges (`buildAdjacencyMap`); the walk uses the
engine's (`getNextStepId`, over the flat list of all steps).  The two are kept
apart because they differ: `LeadsTo` is every move of the engine from a step, and
`Seen` the definitions all of whose moves are edges of the validator's graph.

`pc`, `cur`, `attempt`, `chosen` and `failedStep` are the loop's variables, `row`
the step rows, `thr` and `at` the branch promises of each attempt, `verdict` what
`Promise.all` or `Promise.race` has settled to.  A branch that lost is never
stopped, so `thr` of an earlier attempt may still be live.  `tries` is a history
variable.  Branches hold no parallel steps, and the outcome of a body, hook or
condition is a choice.

### Schedule

`PatchRead` and `Patch` are the two awaits of `updateSchedule`; a tick is
`FindDue`, `ComputeNext`, the dependency check, `Claim` or `ClaimLost`, and
`TriggerRun`.  `NextFire` stands for cron-parser and is only assumed to give a
later time.  `claimed` and `fired` are history variables.  One row is enough: the
loop of `cronTick` treats each schedule by itself.

### Sync

One step per await of `triggerSync`, `processSyncJob` and the watchdog; the
insert of a batch is a statement of its own.  A record is its position in the
source's order and a page holds one record, so a cursor is a position.  A second
sync, or a second delivery of the same one, has a batch id of its own.
`batchQueue.count()` leaves out the jobs under way, so the limit may strike at
one of several lengths.  `clean`, `fetched`, `swept` and `lossy` are history
variables about the last delivery that began.  Two callers that pass the guard
together are covered by `force`.

### Sandbox

`Dispatch` is `dispatchExecution` with the router's `Promise.race`: mark the
row, route or be refused, settle by an answer, a time-out or a rejected socket,
write the row.  Each write of the row may be refused.  `MarkRunningFails` and
`WriteFails` lead to the `catch` block, which writes error; when that write is
refused too the error is only logged and the row keeps what it says
("unrecorded"); the killed row of a drain or crash is likewise only tried
(`WriteKilledFails`).

`setInterval` does not await `performPing`, so several pings may be under way:
`SendPing` sends one to the primary of that moment, `PingOk` is its answer, which
resets the counter and activates a starting primary whichever instance it came
from, and a ping whose process dies becomes a lost one.  `PingMiss` and
`CrashRecovery` count a lost ping against whoever is primary then, which may be a
newer instance.  `ReconnectTimer` to `ReconnectFails` are a chain of
`scheduleReconnect`; nothing stops two chains from overlapping.  `Recycle` either
promotes a pool member and drains the old primary in the background or drains the
primary in place; `Drained`, `GraceExpires` and `DrainEnds` are the wait and what
follows it.  A process that is alive answers pings and drain commands, however
late.  Connecting a client that is connected already is left out.

### PluginVersions

`Call` is an upgrade or a rollback: read the active version, read the other one,
mark draining, wait, swap in one transaction, open the rollback window.  The
drain resolver is one entry per plugin and its timers fire in the order they
were set.  `Patch` enables or disables an instance meanwhile.  `CreateCheck`,
`CreateInsert` and `CreateEnable` are `createInstance`: it reads the active
version, awaits, inserts the instance with what it read and enables it if that
version is still active.  A swap in between leaves the new instance disabled on
the replaced version, from which the next swap takes it.  `hooks` counts
the rows of each version, instance and state, because rows can be doubled.  A
transaction is one step, and the unique index on active versions refuses a swap
that lost.

### Sessions

A Redis command, script or pipeline and a database statement are one step each;
requests rotate a token, replay one, log out, log out everywhere or change the
password.  `RequestFails` ends a request at any of its calls, and nothing undoes
what it has done.  A family is a session, since every login starts its own.  A
payload stays readable after its key is gone, as the request has read it.  `late`
counts tokens written after the revocation.

## The runs

| Run | Checks | Instance |
|---|---|---|
| `run_lifecycle` | `TypeOK`, `PipelineMutex`, `LockHasHolder`, `DrivenOnce`, `NeverRevived`, `ImplementsContract` | one run, three instances, crashes, exceptions, two stalls, 3 attempts, poison rule at 2; 27,527 states |
| `run_settles` | `RunningHasDriver`, `NoRunForgotten`, `RunSettles`, `LockReleased` | one run, two instances, one stall and no other fault, 2 attempts, fairness; 816 states |
| `walk` | `TypeOK`, `TriesBounded`, `EndedRowsSettled`, `FailuresAccounted`, `AllBranchesDone`, `RowsMonotone`, `SeenTerminates` | every accepted definition of three steps drawn from sixteen shapes, and forks with two branches and a retry, fairness; 195,512 states |
| `cron` | `TypeOK`, `FiredOnce`, `NextIsOfRow`, `DueTickFires` | two ticks that may fail, one editor, two expressions, dependencies that come and go, fairness |
| `sync` | `CursorNeverAhead`, `CleanSyncMirrors` | two syncs in both modes, two deliveries, two records, a batch queue of one, exceptions, crashes, batches that repeat or are given up |
| `sandbox` | `TypeOK`, `InflightTracked`, `CutOffIsReported`, `NoFalseKill`, `ExecutionSettles`, `SandboxRecovers` | one execution, two instances, a pool of one, recycle at the first run, two pings under way, one crash, one timed recycle, two refused writes, fairness; 178,031 states |
| `plugin_upgrade` | `InstancesPointToActive`, `NoOrphanHooks`, `InstancesFollowSwap`, `LoneWaitEnds` | two calls over three versions, one instance created and enabled twice, one crash, fairness; 325,953 states |
| `sessions` | `OneUsableToken`, `RevocationHolds`, `ReplayEndsSession` | one session, three requests, each of which may fail, fairness; 61,286 states |

Bounds.  One job and two instances are what it takes for a redelivery to
overtake the first delivery at any await; the third instance lets a second
redelivery do the same.  Attempts and the poison threshold are scaled down
together, so that a retry, a poison pill and exhaustion all occur.  Three steps
with every choice of targets contain every loop of up to three edges and every
order of jump and fall-through; two branches and one retry contain a stale branch
of an earlier attempt beside a live one.  The clock of a schedule runs long
enough for two firings of each expression.  Two deliveries are two overlapping
syncs or two attempts of one; with two records there is one that is passed and
one that is added or deleted meanwhile.  Two sandbox instances are an old primary
that drains and a new one that gets its late pings; the crash may hit the
primary, the pool or an instance being drained; one chain of reconnects is under
way at a time; two refused writes are the last
one of a dispatch and the one of its catch block.  The sandbox's safety
properties are proved for any number of executions, instances and pings.  Three
versions let two calls disagree on both ends of the swap.  Sessions share no key
or row, save that a logout everywhere and a password change go over all of them,
so one session is enough for properties of each; its three requests need at most
the four tokens there are.  The counters of crashes, deliveries and
refusals are bounds of the models and not limits of the code.

`sync` treats sync job ids as interchangeable, and its view leaves out
`sync_state.status`: the status decides only whether an unforced trigger is
refused, and a forced one never is, so no other variable depends on it.
`run_lifecycle` treats instances as interchangeable.  The type invariants of
`Sync`, `PluginVersions` and `Sessions` are proved and have no place in their
runs.

Most runs say `CHECK_DEADLOCK FALSE`: these systems may rightly come to rest,
when every run is over, every request answered or the clock at its bound.  The
sandbox manager may not, and its run checks for deadlock.

What the properties do not ask.  `RunningHasDriver`, `NoRunForgotten` and
`RunSettles` are about a service without crashes and exceptions; what happens
after one is the finding of `run_restart`.  `DueTickFires` excuses a firing whose
tick died between the claim and the run.  `CursorNeverAhead` counts a record as
kept when its row is deleted softly or its batch was given up after its attempts.
`CleanSyncMirrors` speaks of an attempt of a full sync that began with no other
under way and no batch waiting, lost no batch and was not followed by another;
and an attempt that fetched nothing does not sweep (`sync-service.ts:997`), so
nothing is asked of it.  `ExecutionSettles` excuses a row whose last write the
database refused.  `ReplayEndsSession` excuses a request that fails and a token
whose index key is deleted first.

Fairness.  `PipelineRun`: a caller that has started goes on, instances process
what they fetched, BullMQ delivers waiting jobs and finds those of dead workers;
users, faults and the expiry of a flag owe nothing.  `StepTraversal`: the event
loop runs whatever is ready, and every body and hook has a time-out.  `Schedule`:
`setInterval` keeps ticking and a tick runs to its end.  `Sandbox`: promises
settle, timers fire, pings are sent and answered by what is alive, and Docker
restarts a dead process; callers, crashes, the database's refusals and the
recycle timer owe nothing.  `PluginVersions`: a call that has begun goes on and a
timer fires; nothing makes the Execution Service report a drain.  `Sessions`: a
request that has begun goes on, if only by failing.

### Where the code disagrees with what is said of it

These runs are expected to find a violation.

| Run | Violated | What happens |
|---|---|---|
| `run_restart` | `InterruptedRunRestarts` | after a crash or an exception behind the write of running, the redelivered job finds the row running and skips it: the run stays running for good (`execution-engine.ts:1410`), where `docs/designs/pipeline-service.md:1520-1528` has it restart from the entry step.  `DrivenOnce` is the other side of this |
| `walk_endless` | `Terminates` | the validator knows neither the fall-through edge of a conditional without `elseStepId` nor fallback edges: an accepted definition can run for ever (`pipeline-service.ts:478`), where `pipeline-service.md:764` says cycles are refused |
| `walk_flat` | `WalkStaysAtTop` | after a parallel step the walk goes on through the flat list and executes every branch step again (`execution-engine.ts:1831`), where `pipeline-service.md:954` has it go on behind the parallel block |
| `plugin_hang` | `DrainWaitEnds` | two upgrades or rollbacks of one plugin share the entry of `drainResolvers`: the answer resolves the later wait and deletes the entry, the earlier one's timer finds none and does not resolve, where the comment says the time-out never lets an upgrade block |

### Seen while modelling

The models have these behaviours; no property asks for the contrary.

Pipeline runs.  The lock key is read as an unsigned 64-bit number; for half of
all pipeline ids `::bigint` rejects it, the query throws and its pool client is
never released (`execution-engine.ts:1935`).  A run that only waits for its
pipeline's lock is failed as a poison pill after three quick attempts
(`index.ts:333`).  Two callers can both
pass the check for `allowConcurrentRuns = false`; the listener may overwrite a
terminal status; a job that uses up its attempts slowly leaves its run pending;
a failed enqueue leaves the row pending without a job; a definition with a wait,
approval, transform or sub_workflow step leaves its run running.

Traversal.  `Promise.race` lets the first failing branch fail a step with
`waitMode: any`; branches go on after the run is over; a fallback that does not
exist ends the run as completed; rows of a branch not taken stay pending, and all
rows do when the start hooks fail the run; a cancelled run never closes its event
streams.

Schedules.  The claim commits before the run is created: a crash or a refused
trigger in between loses the firing (`schedule-service.ts:500`), although
`pipeline-service.md:1031` speaks of one transaction.  Two overlapping edits
leave a `next_run_at` that belongs to neither.

Syncs.  running is written after the enqueue and may replace the worker's success
until the watchdog resets it; the guard does not see a job in its retry delay;
`updateStatus` ignores the `last_cursor` that success passes to it; when a full
sync is retried, batches of the failed attempt may be inserted after the
soft-delete of the next; large pages are temp files of the worker's host;
progress counters are read, changed and written without a lock; a failed enqueue
for the ontology is only logged.

Sandboxes.  `index.ts:227` passes no `createClient`, so in production the pool
is empty and every recycle drains in place; `ping` and `drain` have no time-out
of their own; pings of an old primary that reject after a swap count against the
new one and can send it into recovery; the row of a killed execution may be
overwritten by the dispatch that was cut off, or the reverse; a row whose write
is refused in the catch block stays running; a reconnect that ends during a drain
in place sets the draining primary active.

Plugin versions.  Rollback swaps with no hooks, so the previous version's hooks
stay disabled; enabling again inserts a second set of rows; an instance enabled
or disabled during a drain, or two upgrades to the same version, leave hooks
active twice or for a version that is replaced; an instance whose creation a swap
overtakes is left disabled on the replaced version until the next swap; an
upgrade that lost the race leaves its version draining; a crash or a failed swap
leaves no active version; a version that was rolled back cannot be upgraded to
again.

Sessions.  A logout that races a rotation finds no token and leaves the session
open; a login between the commit of a password change and its sweep loses its
refresh token; when the UPDATE of a detected replay fails the session stays open
and its current token usable.

## The proofs

All theorems hold for every value of the constants that satisfies the named
assumptions, which TLC evaluates in every run.

`PipelineRunProofs` (from `RunConstants`): `TypeCorrect`.  `LockAgreement` is the
inductive invariant of the lock: an instance is between acquisition and `finally`
exactly if it is the recorded holder of its run's key.  `MutualExclusion` and
`NoOrphanedLock` follow from it; neither is inductive alone, since what a release
frees depends on who holds the key.  `RowAgreement` ties the row to the workers:
a finished row has its `completed_at`, the step rows exist exactly if the run was
driven, and a worker beyond `MarkRunning` has an unfinished or poison-marked row.
`DrivenAtMostOnce` and `FinishedStaysFinished` follow: the first from the unique
index, the second from the check constraint, not from the guard.

`ContractHolds` is the refinement:
`Init` implies the contract's and every step is one of its steps or leaves
`status` and `drives` alone.  It needs `RowAgreement` and one invariant more,
`DriverInv`: a worker past `MarkRunning` works on a row that is running or was
marked failed, so that its last write is a `Finish`.

The last three theorems have hypotheses, because after an exception or a crash a
row does stay running (see above).  `Calm` allows stalls as the only fault and
`Storable` that the step rows can be written.  From these `RunningIsDriven`, for
any number of runs, jobs and instances: the step rows of a run belong to its
driver or to a run that is over, so that no second driver can trip over them
after it has marked the row.  `NoRunWithoutTrace` adds that a job leaves the
queue as done or removed only when its run is past pending.  `NeverForgotten`
needs two hypotheses more, `KeysFit` and `Uncontended`: with two runs of one
pipeline a job can use up its attempts while the other run holds the lock, too
slowly for the poison rule, and its run then stays pending with a failed job and
nothing else.  Its argument is that an attempt without contention either marks
the row or finds it marked, and that an active job is the one its owner works on.

`StepTraversalProofs` (from `TraversalConstants`, `DefinitionsUsable`):
`TypeCorrect`.  `RowsSettled` and `FailuresNeverLost` need two invariants.
`RowsInv` is about the rows: only the current step's row can be running and only
while it executes; a failed row is excused or belongs to `failedStep`, with the
walk already at its end in that case.  `EndInv` tells the ends apart: the start
hooks failed before the first step, the walk reached the end of its path, it
stopped at a failed step, or it was cancelled.  So rows stay pending in the first
two cases only, and a failed run names no step in the first case or when the
after hooks of the run failed, and in no other.  `WaitAllWaits`: a promise that
is done stays so until the same attempt of the same step is called again, and the
row says running before that; `BranchInv` adds that a verdict of done is worth
all promises of the attempt under way.

`SeenIsOrdered` is about the validator: if it accepts a definition and its graph
has every move of the engine, the steps reached from the entry can be numbered so
that the engine only moves forward.  `hasCycle` says that some walk from the
entry is as long as there are steps; without one every step has a longest walk to
it, and its length is the number.  `RowsNeverReopen` and `TriesNeverExceed`
follow from the invariant `PathInv`: whatever is settled lies behind the current
step. They have no hypothesis; the properties themselves speak of definitions in
`Seen`, as the others may loop (`walk_endless`), and `TriesBounded` of those
without parallel steps, as the walk executes branch steps again (`walk_flat`).
`JumpsAheadReopenNothing` adds definitions the validator does not see through:
when conditions and fallbacks jump ahead in the flat list, the list is the
numbering, because ids are unique.

`ScheduleProofs` (from `ScheduleConstants`): `TypeCorrect`;
`TickFiresAtMostOnce`, because `next_run_at` has moved past every claimed time
and a triggering tick is the only one that claimed its time; `EditsSurviveTicks`,
for one editor at a time, because `next_run_at` never returns to a time that some
tick has seen, so a tick whose time is still there saw the row as it is.

`SyncProofs` (from `SyncConstants`): `TypeCorrect`; `CursorIsSafe`.  That the
stored cursor passes no lost record is not inductive: `CursorInv` adds what a
delivery knows at each position, that everything up to its local cursor is
secured in the loop, everything before its page when the page is about to be
enqueued, and the page too when the cursor is about to be written.  The lemma
`SecuredStays` is the reason: a batch job leaves the queue only for the table or
for the list of those given up.  `FullSyncMirrors` rests on `CleanInv`: batch ids
are never handed out twice, so an attempt that began with no other under way
finds no row with its own id; until another begins, the batch jobs are its own,
what it fetched is in the page in hand, in a batch job or in a row with its id,
and after the sweep only such rows are live.

`SandboxProofs` (from `SandboxConstants`): `TypeCorrect`; `InflightIsTracked`
and `NoFalseKillEver` from `Tracking`, that an execution in flight is the
instance's own and that one that waits is in flight on its instance or has been
reported; `CutOffIsAlwaysReported` also from `Roster`, that pool members were
never primary and have nothing in flight, and that a replaced instance is closed
with nothing in flight and never comes back.

`PluginVersionsProofs` (from `VersionConstants`): `TypeCorrect`;
`SwapTakesInstances`, because a version becomes active only in the transaction
that moves all instances there are, and no other step moves one;
`ActiveHasInstances`, that enabled instances are on the active version, because
the unique index refuses a second active version, and the version of an instance
is looked at after the instance was inserted, from when on every swap takes it
along (`PointInv`);
`RefusedSwapLeavesNoHooks`, from the invariant that an enabling instance
has found a version that was already activated.

`SessionsProofs` (from `SessionConstants`): `TypeCorrect`; `RotationAgreement`,
the inductive invariant: at most one rotation of a session is under way, its
session then has no refresh token, a login without its token has none, a late
token belongs to a revoked session, and a rotation past its check has no late
token before it.  `OneTokenPerSession` and
`RevokedSessionEnds` follow.

Only model-checked: the liveness properties `RunSettles`, `LockReleased`,
`SeenTerminates`, `DueTickFires`, `ExecutionSettles`, `SandboxRecovers`,
`LoneWaitEnds` and `ReplayEndsSession`, which need fairness and `ENABLED`.  Every
invariant and action property of the passing runs is a theorem:
`RunningHasDriver` and `NoRunForgotten` under the hypotheses given above,
`NextIsOfRow` for a single editor, the others without any.

## Not modelled

`PROJECT.json` gives a reason for each component.  Within the modelled ones: an
unlock query that fails, nested parallel steps, the bodies of steps, reading
endpoints, `input_template`; progress, cancellation and the drift, quality and
ontology calls of syncs; `stop()`, `handleCrash` (which nothing calls) and the
WASM and Docker routes of the Execution Service; install, uninstall, activation
and bundle cleanup of plugins, deletion and configuration of their instances;
access tokens, blocklists, expiry, lockout, OAuth and API keys of the Auth
Service.  Sub-workflows are left out as a whole: the schema refuses their steps.

## Plan

1. `ExecutionTracker`: active map and history at their limits, snapshot then
   subscribe, closing of streams; every run that ends must close its streams.
2. `EventTrigger`: an event on every replica, the unique index, a crash of the
   winner.
3. `Approval`: decision against expiry.
4. Circuit breaker and webhook delivery of the Gateway, streaming ingestion and
   reconciliation, the transform engine against reference definitions.
5. Proofs: rotation and revocation of sessions with expiry.
