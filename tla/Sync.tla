--------------------------------- MODULE Sync ---------------------------------
(***************************************************************************)
(* The syncs of one connector in the Ingestion Service: triggerSync puts a *)
(* job on ingestion.sync, processSyncJob pages through the source and puts *)
(* each page on ingestion.batch, processBatchJob upserts the page into the *)
(* raw table, and the watchdog resets a sync_state that says running.      *)
(*                                                                         *)
(* A record is its position in the source's order, which is what a cursor  *)
(* names; a page holds one record.  The two BullMQ queues are sets of jobs:*)
(* the batch worker runs ten jobs at a time and failed jobs come back      *)
(* later, so no order is promised.                                         *)
(***************************************************************************)
EXTENDS Integers, FiniteSets

CONSTANTS
    Syncs,         \* sync job ids, one per call of triggerSync
    MaxRecords,    \* bound: positions the source ever uses
    MaxStarts,     \* bound: deliveries of sync jobs
    BatchQueueMax, \* BATCH_QUEUE_MAX: 50000 in the code
    BatchSlots,    \* batch jobs under way at a time: 10 for an instance
    Modes,         \* the sync modes callers ask for
    Faults         \* which of "throw", "crash", "batch" may happen

ASSUME SyncConstants ==
    /\ MaxRecords \in Nat
    /\ MaxStarts \in Nat
    /\ BatchQueueMax \in Nat
    /\ BatchSlots \in Nat
    /\ Modes \subseteq {"full", "incremental"}

VARIABLES
    source,     \* records at the source
    top,        \* the highest position it ever used
    raw,        \* rows of raw_<connector>: the batch id and deleted_at IS NULL
    status,     \* sync_state.status
    lastCursor, \* sync_state.last_cursor, 0 for NULL
    trig,       \* where the caller of triggerSync stands
    mode,       \* the job's syncMode
    jobs,       \* BullMQ's state of the sync job
    pc,         \* where processSyncJob stands
    cursor,     \* its local cursor
    page,       \* ... and the page just fetched
    more,       \* ... with the source's hasMore
    seq,        \* ... batchSeqNum > 0
    batchId,    \* ... and the attempt's batchId, 0 for none
    minted,     \* batch ids handed out by crypto.randomUUID
    batches,    \* jobs on ingestion.batch
    givenUp,    \* records of batch jobs out of attempts
    clean,      \* history: nothing else was about when the last attempt began,
    fetched,    \* ... the records it fetched,
    swept,      \* ... that it soft-deleted what it did not see,
    lossy       \* ... and that one of its batch jobs was given up

sourceVars == <<source, top>>
trigVars == <<trig, mode>>
workVars == <<pc, cursor, page, more, seq, batchId, minted>>
batchVars == <<batches, givenUp>>
history == <<clean, fetched, swept, lossy>>
vars == <<sourceVars, raw, status, lastCursor, trigVars, jobs, workVars,
          batchVars, history>>

Records == 1 .. MaxRecords
BatchIds == 1 .. MaxStarts
BatchJobs == [id : BatchIds, rec : Records]

TypeOK ==
    /\ source \subseteq 1 .. top
    /\ top \in 0 .. MaxRecords
    /\ raw \in [Records -> [by : 0 .. MaxStarts, live : BOOLEAN]]
    /\ status \in {"never_run", "running", "success", "failed"}
    /\ lastCursor \in 0 .. top
    /\ trig \in [Syncs -> {"idle", "mark", "done"}]
    /\ mode \in [Syncs -> {"full", "incremental"}]
    /\ jobs \in [Syncs -> {"none", "waiting", "delayed", "active", "done",
                           "failed"}]
    /\ pc \in [Syncs -> {"idle", "cursor", "loop", "enqueue", "advance",
                         "sweep", "mark"}]
    /\ cursor \in [Syncs -> 0 .. top]
    /\ page \in [Syncs -> 0 .. top]
    /\ more \in [Syncs -> BOOLEAN]
    /\ seq \in [Syncs -> BOOLEAN]
    /\ batchId \in [Syncs -> 0 .. minted]
    /\ minted \in 0 .. MaxStarts
    /\ batches \subseteq BatchJobs
    /\ givenUp \subseteq Records
    /\ clean \in BOOLEAN
    /\ fetched \subseteq Records
    /\ swept \in BOOLEAN
    /\ lossy \in BOOLEAN

\* A connector just created: sync_state never_run and an empty raw table.
Init ==
    /\ top = MaxRecords \div 2
    /\ source = 1 .. top
    /\ raw = [r \in Records |-> [by |-> 0, live |-> FALSE]]
    /\ status = "never_run"
    /\ lastCursor = 0
    /\ trig = [s \in Syncs |-> "idle"]
    /\ mode = [s \in Syncs |-> "full"]
    /\ jobs = [s \in Syncs |-> "none"]
    /\ pc = [s \in Syncs |-> "idle"]
    /\ cursor = [s \in Syncs |-> 0]
    /\ page = [s \in Syncs |-> 0]
    /\ more = [s \in Syncs |-> FALSE]
    /\ seq = [s \in Syncs |-> FALSE]
    /\ batchId = [s \in Syncs |-> 0]
    /\ minted = 0
    /\ batches = {}
    /\ givenUp = {}
    /\ clean = FALSE
    /\ fetched = {}
    /\ swept = FALSE
    /\ lossy = FALSE

-----------------------------------------------------------------------------
(* The source system.                                                      *)

SourceAdds ==
    /\ top < MaxRecords
    /\ top' = top + 1
    /\ source' = source \cup {top + 1}
    /\ UNCHANGED <<raw, status, lastCursor, trigVars, jobs, workVars,
                   batchVars, history>>

SourceDeletes(r) ==
    /\ r \in source
    /\ source' = source \ {r}
    /\ UNCHANGED <<top, raw, status, lastCursor, trigVars, jobs, workVars,
                   batchVars, history>>

-----------------------------------------------------------------------------
(* triggerSync.                                                            *)

\* getJobs(["active", "waiting"]) does not list a job in its retry delay.
LiveJob == \E s \in Syncs : jobs[s] \in {"active", "waiting"}

\* The guard lets the caller pass (force, or no sync is running, or running
\* is stale and reset; SyncAlreadyRunningError otherwise) and the job is put
\* on the queue.  That two callers may pass the guard together adds nothing
\* to what force allows.
TriggerAdd(s, m, force) ==
    /\ trig[s] = "idle"
    /\ force \/ status # "running" \/ ~LiveJob
    /\ status' = IF force \/ status # "running" THEN status ELSE "failed"
    /\ trig' = [trig EXCEPT ![s] = "mark"]
    /\ mode' = [mode EXCEPT ![s] = m]
    /\ jobs' = [jobs EXCEPT ![s] = "waiting"]
    /\ UNCHANGED <<sourceVars, raw, lastCursor, workVars, batchVars, history>>

\* After the enqueue: the worker may be ahead of this write, or done.
TriggerMark(s) ==
    /\ trig[s] = "mark"
    /\ trig' = [trig EXCEPT ![s] = "done"]
    /\ status' = "running"
    /\ UNCHANGED <<sourceVars, raw, lastCursor, mode, jobs, workVars,
                   batchVars, history>>

\* The caller's process dies before that, or the UPDATE rejects.
TriggerAborts(s) ==
    /\ Faults \cap {"throw", "crash"} # {}
    /\ trig[s] = "mark"
    /\ trig' = [trig EXCEPT ![s] = "done"]
    /\ UNCHANGED <<sourceVars, raw, status, lastCursor, mode, jobs,
                   workVars, batchVars, history>>

\* executeWatchdog; a starting instance calls it with no age limit, so any
\* running row may be reset at any time.
Watchdog ==
    /\ status = "running"
    /\ status' = "failed"
    /\ UNCHANGED <<sourceVars, raw, lastCursor, trigVars, jobs, workVars,
                   batchVars, history>>

-----------------------------------------------------------------------------
(* processSyncJob.                                                         *)

Running == {s \in Syncs : pc[s] # "idle"}

\* processSyncJob returns, throws or dies: its locals end with it.
Leave(s) ==
    /\ pc' = [pc EXCEPT ![s] = "idle"]
    /\ cursor' = [cursor EXCEPT ![s] = 0]
    /\ page' = [page EXCEPT ![s] = 0]
    /\ more' = [more EXCEPT ![s] = FALSE]
    /\ seq' = [seq EXCEPT ![s] = FALSE]
    /\ batchId' = [batchId EXCEPT ![s] = 0]
    /\ UNCHANGED minted

SyncStart(s) ==
    /\ jobs[s] \in {"waiting", "delayed"}
    /\ minted < MaxStarts
    /\ jobs' = [jobs EXCEPT ![s] = "active"]
    /\ minted' = minted + 1
    /\ batchId' = [batchId EXCEPT ![s] = minted + 1]
    /\ pc' = [pc EXCEPT ![s] = "cursor"]
    /\ clean' = (Running = {} /\ batches = {})
    /\ fetched' = {}
    /\ swept' = FALSE
    /\ lossy' = FALSE
    /\ UNCHANGED <<sourceVars, raw, status, lastCursor, trigVars,
                   cursor, page, more, seq, batchVars>>

ReadCursor(s) ==
    /\ pc[s] = "cursor"
    /\ cursor' = [cursor EXCEPT ![s] =
                     IF mode[s] = "incremental" THEN lastCursor ELSE 0]
    /\ pc' = [pc EXCEPT ![s] = "loop"]
    /\ UNCHANGED <<sourceVars, raw, status, lastCursor, trigVars, jobs,
                   page, more, seq, batchId, minted, batchVars, history>>

\* batchQueue.count() leaves out the jobs under way, of which there are as
\* many as BatchSlots and as few as none.
QueueHasRoom == Cardinality(batches) - BatchSlots < BatchQueueMax
QueueIsFull == Cardinality(batches) >= BatchQueueMax

\* The records after a cursor, in order.
After(c) == {r \in source : r > c}

\* Mutant: the cursor is advanced before the page is on the queue.
FetchBatchAdvances(s) ==
    /\ pc[s] = "loop"
    /\ QueueHasRoom
    /\ \E r \in After(cursor[s]) :
          /\ \A q \in After(cursor[s]) : r <= q
          /\ page' = [page EXCEPT ![s] = r]
          /\ more' = [more EXCEPT ![s] = After(r) # {}]
          /\ fetched' = IF batchId[s] = minted THEN fetched \cup {r}
                        ELSE fetched
          /\ lastCursor' = r
    /\ seq' = [seq EXCEPT ![s] = TRUE]
    /\ pc' = [pc EXCEPT ![s] = "enqueue"]
    /\ UNCHANGED <<sourceVars, raw, status, trigVars, jobs,
                   cursor, batchId, minted, batchVars, clean, swept, lossy>>

\* fetchBatch of the connector plugin returned a record.
FetchBatch(s) ==
    /\ pc[s] = "loop"
    /\ QueueHasRoom
    /\ \E r \in After(cursor[s]) :
          /\ \A q \in After(cursor[s]) : r <= q
          /\ page' = [page EXCEPT ![s] = r]
          /\ more' = [more EXCEPT ![s] = After(r) # {}]
          /\ fetched' = IF batchId[s] = minted THEN fetched \cup {r}
                        ELSE fetched
    /\ seq' = [seq EXCEPT ![s] = TRUE]
    /\ pc' = [pc EXCEPT ![s] = "enqueue"]
    /\ UNCHANGED <<sourceVars, raw, status, lastCursor, trigVars, jobs,
                   cursor, batchId, minted, batchVars, clean, swept, lossy>>

\* It returned no record, a null cursor and hasMore = false.
FetchNothing(s) ==
    /\ pc[s] = "loop"
    /\ QueueHasRoom
    /\ After(cursor[s]) = {}
    /\ pc' = [pc EXCEPT ![s] = "sweep"]
    /\ UNCHANGED <<sourceVars, raw, status, lastCursor, trigVars, jobs,
                   cursor, page, more, seq, batchId, minted, batchVars, history>>

EnqueueBatch(s) ==
    /\ pc[s] = "enqueue"
    /\ batches' = batches \cup
                     {[id |-> batchId[s], rec |-> page[s]]}
    /\ pc' = [pc EXCEPT ![s] = "advance"]
    /\ UNCHANGED <<sourceVars, raw, status, lastCursor, trigVars, jobs,
                   cursor, page, more, seq, batchId, minted, givenUp, history>>

AdvanceCursor(s) ==
    /\ pc[s] = "advance"
    /\ lastCursor' = page[s]
    /\ cursor' = [cursor EXCEPT ![s] = page[s]]
    /\ pc' = [pc EXCEPT ![s] = IF more[s] THEN "loop" ELSE "sweep"]
    /\ UNCHANGED <<sourceVars, raw, status, trigVars, jobs, page, more, seq,
                   batchId, minted, batchVars, history>>

\* softDeleteNotInBatch.
SoftDelete(id) ==
    raw' = [r \in Records |->
               IF raw[r].by # id THEN [raw[r] EXCEPT !.live = FALSE]
               ELSE raw[r]]

Sweep(s) ==
    /\ pc[s] = "sweep"
    /\ IF mode[s] = "full" /\ seq[s]
       THEN /\ SoftDelete(batchId[s])
            /\ swept' = (swept \/ batchId[s] = minted)
       ELSE UNCHANGED <<raw, swept>>
    /\ pc' = [pc EXCEPT ![s] = "mark"]
    /\ UNCHANGED <<sourceVars, status, lastCursor, trigVars, jobs, cursor,
                   page, more, seq, batchId, minted, batchVars, clean, fetched,
                   lossy>>

SyncSucceeds(s) ==
    /\ pc[s] = "mark"
    /\ status' = "success"
    /\ jobs' = [jobs EXCEPT ![s] = "done"]
    /\ Leave(s)
    /\ UNCHANGED <<sourceVars, raw, lastCursor, trigVars, batchVars, history>>

\* The batch queue is at its limit, or anything in the try block throws:
\* sync_state says failed although BullMQ retries twice.
SyncFails(s, retried) ==
    /\ pc[s] # "idle"
    /\ \/ "throw" \in Faults
       \/ pc[s] = "loop" /\ QueueIsFull
    /\ status' = "failed"
    /\ jobs' = [jobs EXCEPT ![s] = IF retried THEN "delayed" ELSE "failed"]
    /\ Leave(s)
    /\ UNCHANGED <<sourceVars, raw, lastCursor, trigVars, batchVars, history>>

\* The worker process dies; the stalled check puts the job back.
SyncCrash(s) ==
    /\ "crash" \in Faults
    /\ pc[s] # "idle"
    /\ jobs' = [jobs EXCEPT ![s] = "waiting"]
    /\ Leave(s)
    /\ UNCHANGED <<sourceVars, raw, status, lastCursor, trigVars, batchVars,
                   history>>

-----------------------------------------------------------------------------
(* processBatchJob.                                                        *)

\* Mutant: ON CONFLICT leaves deleted_at alone.
UpsertKeepsDeleted(b) ==
    raw' = [raw EXCEPT ![b.rec] =
               [by |-> b.id, live |-> raw[b.rec].live \/ @.by = 0]]

\* insertBatch: ON CONFLICT (_id) DO UPDATE sets the batch id and clears
\* deleted_at.
Upsert(b) == raw' = [raw EXCEPT ![b.rec] = [by |-> b.id, live |-> TRUE]]

BatchDone(b) ==
    /\ b \in batches
    /\ Upsert(b)
    /\ batches' = batches \ {b}
    /\ UNCHANGED <<sourceVars, status, lastCursor, trigVars, jobs, workVars,
                   givenUp, history>>

\* The job throws or its worker dies after the insert: it runs again.  When
\* that happens before the insert, nothing has changed.
BatchRepeats(b) ==
    /\ "batch" \in Faults
    /\ b \in batches
    /\ Upsert(b)
    /\ UNCHANGED <<sourceVars, status, lastCursor, trigVars, jobs, workVars,
                   batchVars, history>>

\* Its fifth attempt failed too.
BatchGivenUp(b) ==
    /\ "batch" \in Faults
    /\ b \in batches
    /\ batches' = batches \ {b}
    /\ givenUp' = givenUp \cup {b.rec}
    /\ lossy' = (lossy \/ b.id = minted)
    /\ UNCHANGED <<sourceVars, raw, status, lastCursor, trigVars, jobs,
                   workVars, clean, fetched, swept>>

-----------------------------------------------------------------------------
Trigger(s) ==
    \/ \E m \in Modes, force \in BOOLEAN : TriggerAdd(s, m, force)
    \/ TriggerMark(s)

Process(s) ==
    \/ SyncStart(s) \/ ReadCursor(s) \/ FetchBatch(s) \/ FetchNothing(s)
    \/ EnqueueBatch(s) \/ AdvanceCursor(s) \/ Sweep(s) \/ SyncSucceeds(s)

Next ==
    \/ SourceAdds
    \/ \E r \in Records : SourceDeletes(r)
    \/ \E s \in Syncs : \/ Trigger(s) \/ TriggerAborts(s)
                        \/ Process(s) \/ SyncCrash(s)
                        \/ \E retried \in BOOLEAN : SyncFails(s, retried)
    \/ \E b \in batches : BatchDone(b) \/ BatchRepeats(b) \/ BatchGivenUp(b)
    \/ Watchdog

Spec == Init /\ [][Next]_vars

-----------------------------------------------------------------------------
(* Properties.                                                             *)

\* The record reached the raw table, or a batch job that holds it is queued
\* or was given up after its last attempt.
Secured(r) ==
    \/ raw[r].by # 0
    \/ r \in givenUp
    \/ \E b \in batches : b.rec = r

\* "a crash mid-sync resumes from the last committed position"
\* (sync-service.ts): the cursor is written before the page is in the table,
\* by overlapping syncs and attempts in any order, and yet no record it has
\* passed is skipped by the next incremental sync.
CursorNeverAhead == \A r \in source : r <= lastCursor => Secured(r)

\* Full sync deletion detection: processSyncJob soft-deletes before its pages
\* are inserted.  When the attempt had the connector for itself and its pages
\* are all in, the live rows are exactly the records it fetched.
CleanSyncMirrors ==
    (clean /\ swept /\ ~lossy /\ batches = {})
        => {r \in Records : raw[r].live} = fetched
=============================================================================
