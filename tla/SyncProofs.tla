------------------------------ MODULE SyncProofs ------------------------------
(***************************************************************************)
(* Proofs about Sync for any number of syncs, records and deliveries and   *)
(* every combination of faults: the cursor a connector resumes from never  *)
(* runs ahead of what its batch jobs have taken over, and deletion         *)
(* detection leaves live exactly what a full sync fetched.                 *)
(***************************************************************************)
EXTENDS Sync, TLAPS

\* A delivery that has begun has a batch id, and a page once it fetched one.
Begun ==
    \A s \in Syncs :
        /\ pc[s] # "idle" => batchId[s] # 0
        /\ pc[s] \in {"enqueue", "advance"} => page[s] # 0

Typed == TypeOK /\ Begun

\* Everything a delivery has passed is secured: up to its cursor before it
\* asks for a page, below the page before that is queued, up to it after.
LoopSecured ==
    \A s \in Syncs : pc[s] = "loop" =>
        \A r \in source : r <= cursor[s] => Secured(r)
EnqueueSecured ==
    \A s \in Syncs : pc[s] = "enqueue" =>
        \A r \in source : r < page[s] => Secured(r)
AdvanceSecured ==
    \A s \in Syncs : pc[s] = "advance" =>
        \A r \in source : r <= page[s] => Secured(r)

CursorInv ==
    CursorNeverAhead /\ LoopSecured /\ EnqueueSecured /\ AdvanceSecured

-----------------------------------------------------------------------------
\* The ranges the types speak of, as facts about numbers.
LEMMA Ranges ==
    ASSUME TypeOK
    PROVE  /\ top \in Nat /\ minted \in Nat
           /\ top <= MaxRecords /\ minted <= MaxStarts
           /\ 1 .. top \subseteq Records
           /\ source \subseteq Records
           /\ \A r \in source : r \in Nat /\ 1 <= r /\ r <= top
    <1>1. top \in 0 .. MaxRecords /\ minted \in 0 .. MaxStarts
        BY DEF TypeOK
    <1>2. source \subseteq 1 .. top
        BY DEF TypeOK
    <1> QED
        BY <1>1, <1>2, SyncConstants DEF Records

LEMMA TypedInit == Init => Typed
    <1> SUFFICES ASSUME Init PROVE Typed
        OBVIOUS
    <1>1. MaxRecords \div 2 \in 0 .. MaxRecords
        BY SyncConstants
    <1>2. /\ 0 \in 0 .. top /\ 0 \in 0 .. MaxStarts /\ top \in 0 .. MaxRecords
        BY <1>1, SyncConstants DEF Init
    <1>3. raw \in [Records -> [by : 0 .. MaxStarts, live : BOOLEAN]]
        BY <1>2 DEF Init
    <1>4. /\ cursor \in [Syncs -> 0 .. top]
          /\ page \in [Syncs -> 0 .. top]
          /\ batchId \in [Syncs -> 0 .. minted]
        BY <1>2 DEF Init
    <1>5. TypeOK
        BY <1>2, <1>3, <1>4 DEF Init, TypeOK
    <1>6. Begun
        BY DEF Init, Begun
    <1> QED BY <1>5, <1>6 DEF Typed

\* Leaving processSyncJob keeps the types of its locals.
LEMMA LeaveTyped ==
    ASSUME TypeOK, NEW s \in Syncs, Leave(s), UNCHANGED top
    PROVE  /\ pc' \in [Syncs -> {"idle", "cursor", "loop", "enqueue", "advance",
                                 "sweep", "mark"}]
           /\ cursor' \in [Syncs -> 0 .. top']
           /\ page' \in [Syncs -> 0 .. top']
           /\ more' \in [Syncs -> BOOLEAN]
           /\ seq' \in [Syncs -> BOOLEAN]
           /\ batchId' \in [Syncs -> 0 .. minted']
    <1>1. 0 \in 0 .. top /\ 0 \in 0 .. minted
        BY Ranges
    <1> QED
        BY <1>1 DEF TypeOK, Leave

LEMMA LeaveBegun ==
    ASSUME TypeOK, Begun, NEW s \in Syncs, Leave(s)
    PROVE  Begun'
    BY DEF TypeOK, Begun, Leave

\* Every step keeps the types.
LEMMA TypedStep == Typed /\ [Next]_vars => Typed'
    <1> SUFFICES ASSUME Typed, [Next]_vars PROVE Typed'
        OBVIOUS
    <1> USE DEF sourceVars, trigVars, workVars, batchVars, history
    <1>a. TypeOK /\ Begun
        BY DEF Typed
    <1>1. CASE SourceAdds
        <2>1. /\ top' = top + 1 /\ top < MaxRecords
              /\ source' = source \cup {top + 1}
            BY <1>1 DEF SourceAdds
        <2>2. /\ top' \in 0 .. MaxRecords
              /\ 0 .. top \subseteq 0 .. top'
              /\ source' \subseteq 1 .. top'
            BY <1>a, <2>1, Ranges, SyncConstants
        <2>3. /\ lastCursor' \in 0 .. top'
              /\ cursor' \in [Syncs -> 0 .. top']
              /\ page' \in [Syncs -> 0 .. top']
            BY <1>1, <1>a, <2>2 DEF SourceAdds, TypeOK
        <2> QED
            BY <1>1, <1>a, <2>2, <2>3 DEF SourceAdds, Typed, TypeOK, Begun
    <1>2. CASE \E r \in Records : SourceDeletes(r)
        BY <1>2, <1>a DEF SourceDeletes, Typed, TypeOK, Begun
    <1>3. ASSUME NEW s \in Syncs, \/ Trigger(s) \/ TriggerAborts(s)
          PROVE  Typed'
        <2>1. CASE TriggerMark(s) \/ TriggerAborts(s)
            BY <1>a, <2>1 DEF TriggerMark, TriggerAborts, Typed, TypeOK, Begun
        <2>2. ASSUME NEW m \in Modes, NEW force \in BOOLEAN, TriggerAdd(s, m, force)
              PROVE  Typed'
            <3>1. m \in {"full", "incremental"}
                BY SyncConstants
            <3>2. /\ trig' \in [Syncs -> {"idle", "mark", "done"}]
                  /\ mode' \in [Syncs -> {"full", "incremental"}]
                  /\ jobs' \in [Syncs -> {"none", "waiting", "delayed", "active",
                                          "done", "failed"}]
                BY <1>a, <2>2, <3>1 DEF TriggerAdd, TypeOK
            <3>3. status' \in {"never_run", "running", "success", "failed"}
                BY <1>a, <2>2 DEF TriggerAdd, TypeOK
            <3> QED
                BY <1>a, <2>2, <3>2, <3>3 DEF TriggerAdd, Typed, TypeOK, Begun
        <2> QED BY <1>3, <2>1, <2>2 DEF Trigger
    <1>4. CASE Watchdog
        BY <1>4, <1>a DEF Watchdog, Typed, TypeOK, Begun
    <1>5. ASSUME NEW s \in Syncs, SyncStart(s) PROVE Typed'
        <2>1. minted' = minted + 1 /\ minted < MaxStarts
            BY <1>5 DEF SyncStart
        <2>2. /\ minted' \in 0 .. MaxStarts
              /\ minted' \in 0 .. minted' /\ minted' # 0
              /\ 0 .. minted \subseteq 0 .. minted'
            BY <1>a, <2>1, Ranges, SyncConstants
        <2>3. batchId' = [batchId EXCEPT ![s] = minted']
            BY <1>5, <2>1 DEF SyncStart
        <2>4. batchId' \in [Syncs -> 0 .. minted']
            BY <1>a, <2>2, <2>3 DEF TypeOK
        <2>5. Begun'
            BY <1>5, <1>a, <2>2, <2>3 DEF SyncStart, TypeOK, Begun
        <2>6. clean' \in BOOLEAN
            BY <1>5 DEF SyncStart
        <2> QED
            BY <1>5, <1>a, <2>2, <2>4, <2>5, <2>6 DEF SyncStart, Typed, TypeOK
    <1>6. ASSUME NEW s \in Syncs, ReadCursor(s) PROVE Typed'
        <2>1. (IF mode[s] = "incremental" THEN lastCursor ELSE 0) \in 0 .. top
            BY <1>a, Ranges DEF TypeOK
        <2>2. cursor' \in [Syncs -> 0 .. top]
            BY <1>6, <1>a, <2>1 DEF ReadCursor, TypeOK
        <2> QED
            BY <1>6, <1>a, <2>2 DEF ReadCursor, Typed, TypeOK, Begun
    <1>7. ASSUME NEW s \in Syncs, FetchBatch(s) PROVE Typed'
        <2>1. PICK r \in After(cursor[s]) :
                 /\ page' = [page EXCEPT ![s] = r]
                 /\ more' = [more EXCEPT ![s] = After(r) # {}]
                 /\ fetched' = IF batchId[s] = minted THEN fetched \cup {r}
                               ELSE fetched
            BY <1>7 DEF FetchBatch
        <2>2. r \in Records /\ r \in 0 .. top /\ r # 0
            BY <1>a, Ranges DEF After
        <2>3. /\ page' \in [Syncs -> 0 .. top]
              /\ more' \in [Syncs -> BOOLEAN]
              /\ fetched' \subseteq Records
            BY <1>a, <2>1, <2>2 DEF TypeOK
        <2>4. Begun'
            BY <1>7, <1>a, <2>1, <2>2 DEF FetchBatch, TypeOK, Begun
        <2> QED
            BY <1>7, <1>a, <2>3, <2>4 DEF FetchBatch, Typed, TypeOK
    <1>8. ASSUME NEW s \in Syncs, FetchNothing(s) PROVE Typed'
        BY <1>8, <1>a DEF FetchNothing, Typed, TypeOK, Begun
    <1>9. ASSUME NEW s \in Syncs, EnqueueBatch(s) PROVE Typed'
        <2>1. batchId[s] \in BatchIds /\ page[s] \in Records
            <3>1. /\ batchId[s] \in 0 .. minted /\ batchId[s] # 0
                  /\ page[s] \in 0 .. top /\ page[s] # 0
                BY <1>9, <1>a DEF EnqueueBatch, TypeOK, Begun
            <3> QED
                BY <1>a, <3>1, Ranges, SyncConstants DEF BatchIds, Records
        <2>2. batches' \subseteq BatchJobs
            BY <1>9, <1>a, <2>1 DEF EnqueueBatch, TypeOK, BatchJobs
        <2> QED
            BY <1>9, <1>a, <2>2 DEF EnqueueBatch, Typed, TypeOK, Begun
    <1>10. ASSUME NEW s \in Syncs, AdvanceCursor(s) PROVE Typed'
        BY <1>10, <1>a DEF AdvanceCursor, Typed, TypeOK, Begun
    <1>11. ASSUME NEW s \in Syncs, Sweep(s) PROVE Typed'
        <2>1. raw' \in [Records -> [by : 0 .. MaxStarts, live : BOOLEAN]]
            <3>1. \A r \in Records :
                      [raw[r] EXCEPT !.live = FALSE] \in [by : 0 .. MaxStarts, live : BOOLEAN]
                BY <1>a DEF TypeOK
            <3>2. CASE SoftDelete(batchId[s])
                BY <1>a, <3>1, <3>2 DEF SoftDelete, TypeOK
            <3>3. CASE UNCHANGED raw
                BY <1>a, <3>3 DEF TypeOK
            <3> QED BY <1>11, <3>2, <3>3 DEF Sweep
        <2>2. swept' \in BOOLEAN
            BY <1>11, <1>a DEF Sweep, TypeOK
        <2> QED
            BY <1>11, <1>a, <2>1, <2>2 DEF Sweep, Typed, TypeOK, Begun
    <1>12. ASSUME NEW s \in Syncs,
                  \/ SyncSucceeds(s) \/ SyncCrash(s)
                  \/ \E retried \in BOOLEAN : SyncFails(s, retried)
           PROVE  Typed'
        <2>1. /\ Leave(s)
              /\ jobs' \in [Syncs -> {"none", "waiting", "delayed", "active",
                                      "done", "failed"}]
              /\ status' \in {"never_run", "running", "success", "failed"}
              /\ UNCHANGED <<sourceVars, raw, lastCursor, trigVars, batchVars,
                             history>>
            BY <1>12, <1>a DEF SyncSucceeds, SyncCrash, SyncFails, TypeOK
        <2>2. Begun'
            BY <1>a, <2>1, LeaveBegun
        <2>3. minted' = minted
            BY <2>1 DEF Leave
        <2> QED
            BY <1>a, <2>1, <2>2, <2>3, LeaveTyped DEF Typed, TypeOK
    <1>13. ASSUME NEW b \in batches,
                  BatchDone(b) \/ BatchRepeats(b) \/ BatchGivenUp(b)
           PROVE  Typed'
        <2>1. b.id \in BatchIds /\ b.rec \in Records
            BY <1>a DEF TypeOK, BatchJobs
        <2>2. b.id \in 0 .. MaxStarts
            BY <2>1, SyncConstants DEF BatchIds
        <2>3. raw' \in [Records -> [by : 0 .. MaxStarts, live : BOOLEAN]]
            <3>1. [by |-> b.id, live |-> TRUE] \in [by : 0 .. MaxStarts, live : BOOLEAN]
                BY <2>2
            <3>2. \/ raw' = [raw EXCEPT ![b.rec] = [by |-> b.id, live |-> TRUE]]
                  \/ raw' = raw
                BY <1>13 DEF BatchDone, BatchRepeats, BatchGivenUp, Upsert
            <3> QED BY <1>a, <3>1, <3>2 DEF TypeOK
        <2>4. /\ batches' \subseteq BatchJobs
              /\ givenUp' \subseteq Records
              /\ lossy' \in BOOLEAN
            BY <1>13, <1>a, <2>1
               DEF BatchDone, BatchRepeats, BatchGivenUp, TypeOK
        <2> QED
            BY <1>13, <1>a, <2>3, <2>4
               DEF BatchDone, BatchRepeats, BatchGivenUp, Typed, TypeOK, Begun
    <1>14. CASE UNCHANGED vars
        BY <1>14, <1>a DEF vars, Typed, TypeOK, Begun
    <1> QED
        BY <1>1, <1>2, <1>3, <1>4, <1>5, <1>6, <1>7, <1>8, <1>9, <1>10,
           <1>11, <1>12, <1>13, <1>14 DEF Next, Process

\* The Ingestion Service's records of a connector keep their types.
THEOREM TypeCorrect == Spec => []TypeOK
    BY TypedInit, TypedStep, PTL DEF Spec, Typed

-----------------------------------------------------------------------------
\* A record once secured stays so: a batch job leaves the queue only for the
\* table or for the list of those given up, and no row is ever removed.
LEMMA SecuredStays ==
    ASSUME Typed, [Next]_vars, NEW r \in Records, Secured(r)
    PROVE  Secured(r)'
    <1> USE DEF sourceVars, trigVars, workVars, batchVars, history
    <1>1. CASE UNCHANGED <<raw, givenUp, batches>>
        BY <1>1 DEF Secured
    <1>2. ASSUME NEW s \in Syncs, EnqueueBatch(s) PROVE Secured(r)'
        BY <1>2 DEF EnqueueBatch, Secured
    <1>3. ASSUME NEW s \in Syncs, Sweep(s) PROVE Secured(r)'
        <2>1. raw'[r].by = raw[r].by
            BY <1>3 DEF Sweep, SoftDelete, Typed, TypeOK
        <2> QED BY <1>3, <2>1 DEF Sweep, Secured
    <1>4. ASSUME NEW b \in batches, BatchDone(b) \/ BatchRepeats(b)
          PROVE  Secured(r)'
        <2>1. b.id # 0 /\ b.rec \in Records
            BY SyncConstants DEF Typed, TypeOK, BatchJobs, BatchIds
        <2>2. CASE b.rec = r
            <3>1. raw'[r].by = b.id
                BY <1>4, <2>2 DEF BatchDone, BatchRepeats, Upsert, Typed, TypeOK
            <3> QED BY <2>1, <3>1 DEF Secured
        <2>3. CASE b.rec # r
            <3>1. raw'[r] = raw[r]
                BY <1>4, <2>3 DEF BatchDone, BatchRepeats, Upsert, Typed, TypeOK
            <3>2. /\ givenUp' = givenUp
                  /\ \A c \in batches : c.rec = r => c \in batches'
                BY <1>4, <2>3 DEF BatchDone, BatchRepeats
            <3> QED BY <3>1, <3>2 DEF Secured
        <2> QED BY <2>2, <2>3
    <1>5. ASSUME NEW b \in batches, BatchGivenUp(b) PROVE Secured(r)'
        BY <1>5 DEF BatchGivenUp, Secured
    <1> QED
        BY <1>1, <1>2, <1>3, <1>4, <1>5 DEF Next, Process, Trigger, vars,
           SourceAdds, SourceDeletes, TriggerAdd, TriggerMark, TriggerAborts,
           Watchdog, SyncStart, ReadCursor, FetchBatch, FetchNothing,
           AdvanceCursor, SyncSucceeds, SyncFails, SyncCrash

\* What a step must show of a delivery and of the stored cursor.
LEMMA CursorStep == Typed /\ CursorInv /\ [Next]_vars => CursorInv'
    <1> SUFFICES ASSUME Typed, CursorInv, [Next]_vars PROVE CursorInv'
        OBVIOUS
    <1> USE DEF sourceVars, trigVars, workVars, batchVars, history
    <1>s. \A r \in source : r \in Records /\ r \in Nat /\ 1 <= r /\ r <= top
                            /\ (Secured(r) => Secured(r)')
        BY Ranges, SecuredStays DEF Typed
    <1>t. /\ pc \in [Syncs -> {"idle", "cursor", "loop", "enqueue", "advance",
                               "sweep", "mark"}]
          /\ cursor \in [Syncs -> 0 .. top]
          /\ page \in [Syncs -> 0 .. top]
          /\ lastCursor \in 0 .. top
          /\ top \in Nat
        BY Ranges DEF Typed, TypeOK
    <1>1. CASE SourceAdds
        <2>1. /\ top' = top + 1 /\ source' = source \cup {top + 1}
              /\ UNCHANGED <<pc, cursor, page, lastCursor>>
            BY <1>1 DEF SourceAdds
        <2>2. /\ ~(top + 1 <= lastCursor)
              /\ \A s \in Syncs : ~(top + 1 <= cursor[s]) /\ ~(top + 1 <= page[s])
            BY <1>t
        <2>3. CursorNeverAhead'
            BY <1>s, <2>1, <2>2 DEF CursorInv, CursorNeverAhead
        <2>4. LoopSecured'
            BY <1>s, <2>1, <2>2 DEF CursorInv, LoopSecured
        <2>5. EnqueueSecured'
            BY <1>s, <1>t, <2>1, <2>2 DEF CursorInv, EnqueueSecured
        <2>6. AdvanceSecured'
            BY <1>s, <2>1, <2>2 DEF CursorInv, AdvanceSecured
        <2> QED BY <2>3, <2>4, <2>5, <2>6 DEF CursorInv
    <1>2. CASE /\ source' \subseteq source
               /\ UNCHANGED lastCursor
               /\ \A s \in Syncs : pc'[s] \in {"loop", "enqueue", "advance"} =>
                     /\ pc'[s] = pc[s]
                     /\ cursor'[s] = cursor[s]
                     /\ page'[s] = page[s]
        BY <1>2, <1>s DEF CursorInv, CursorNeverAhead, LoopSecured,
           EnqueueSecured, AdvanceSecured
    <1>3. ASSUME NEW s \in Syncs, SyncStart(s) \/ FetchNothing(s) \/ Sweep(s)
          PROVE  CursorInv'
        BY <1>2, <1>3, <1>t DEF SyncStart, FetchNothing, Sweep
    <1>4. ASSUME NEW s \in Syncs, SyncSucceeds(s) \/ SyncCrash(s)
                              \/ \E retried \in BOOLEAN : SyncFails(s, retried)
          PROVE  CursorInv'
        <2>1. /\ pc' = [pc EXCEPT ![s] = "idle"]
              /\ cursor' = [cursor EXCEPT ![s] = 0]
              /\ page' = [page EXCEPT ![s] = 0]
              /\ UNCHANGED <<source, lastCursor>>
            BY <1>4 DEF SyncSucceeds, SyncCrash, SyncFails, Leave
        <2> QED BY <1>2, <1>t, <2>1
    <1>5. ASSUME NEW s \in Syncs, ReadCursor(s) PROVE CursorInv'
        <2>1. /\ cursor' = [cursor EXCEPT ![s] =
                     IF mode[s] = "incremental" THEN lastCursor ELSE 0]
              /\ pc' = [pc EXCEPT ![s] = "loop"]
              /\ UNCHANGED <<source, lastCursor, page>>
            BY <1>5 DEF ReadCursor
        <2>2. \A r \in source : r <= cursor'[s] => Secured(r)'
            BY <1>s, <1>t, <2>1 DEF CursorInv, CursorNeverAhead
        <2>3. \A q \in Syncs : q # s => pc'[q] = pc[q] /\ cursor'[q] = cursor[q]
            BY <1>t, <2>1
        <2>4. LoopSecured'
            BY <1>s, <2>1, <2>2, <2>3 DEF CursorInv, LoopSecured
        <2>5. EnqueueSecured' /\ AdvanceSecured'
            BY <1>s, <1>t, <2>1 DEF CursorInv, EnqueueSecured, AdvanceSecured
        <2>6. CursorNeverAhead'
            BY <1>s, <2>1 DEF CursorInv, CursorNeverAhead
        <2> QED BY <2>4, <2>5, <2>6 DEF CursorInv
    <1>6. ASSUME NEW s \in Syncs, FetchBatch(s) PROVE CursorInv'
        <2>1. PICK p \in After(cursor[s]) :
                 /\ \A q \in After(cursor[s]) : p <= q
                 /\ page' = [page EXCEPT ![s] = p]
            BY <1>6 DEF FetchBatch
        <2>2. /\ pc[s] = "loop" /\ pc' = [pc EXCEPT ![s] = "enqueue"]
              /\ UNCHANGED <<source, lastCursor, cursor>>
            BY <1>6 DEF FetchBatch
        <2>3. \A r \in source : r < p => r <= cursor[s]
            BY <1>s, <1>t, <2>1 DEF After
        <2>4. \A r \in source : r < page'[s] => Secured(r)'
            BY <1>s, <1>t, <2>1, <2>2, <2>3 DEF CursorInv, LoopSecured
        <2>5. \A q \in Syncs : q # s => pc'[q] = pc[q] /\ page'[q] = page[q]
            BY <1>t, <2>1, <2>2
        <2>6. EnqueueSecured'
            BY <1>s, <2>2, <2>4, <2>5 DEF CursorInv, EnqueueSecured
        <2>7. LoopSecured' /\ AdvanceSecured'
            BY <1>s, <1>t, <2>2, <2>5 DEF CursorInv, LoopSecured, AdvanceSecured
        <2>8. CursorNeverAhead'
            BY <1>s, <2>2 DEF CursorInv, CursorNeverAhead
        <2> QED BY <2>6, <2>7, <2>8 DEF CursorInv
    <1>7. ASSUME NEW s \in Syncs, EnqueueBatch(s) PROVE CursorInv'
        <2>1. /\ pc[s] = "enqueue" /\ pc' = [pc EXCEPT ![s] = "advance"]
              /\ UNCHANGED <<source, lastCursor, cursor, page>>
            BY <1>7 DEF EnqueueBatch
        <2>2. \A r \in source : r = page[s] => Secured(r)'
            <3>1. [id |-> batchId[s], rec |-> page[s]] \in batches'
                BY <1>7 DEF EnqueueBatch
            <3>2. \E b \in batches' : b.rec = page[s]
                BY <3>1
            <3> QED BY <3>2 DEF Secured
        <2>3. \A r \in source : r <= page[s] => Secured(r)'
            BY <1>s, <1>t, <2>1, <2>2 DEF CursorInv, EnqueueSecured
        <2>4. AdvanceSecured'
            BY <1>s, <1>t, <2>1, <2>3 DEF CursorInv, AdvanceSecured
        <2>5. LoopSecured' /\ EnqueueSecured'
            BY <1>s, <1>t, <2>1 DEF CursorInv, LoopSecured, EnqueueSecured
        <2>6. CursorNeverAhead'
            BY <1>s, <2>1 DEF CursorInv, CursorNeverAhead
        <2> QED BY <2>4, <2>5, <2>6 DEF CursorInv
    <1>8. ASSUME NEW s \in Syncs, AdvanceCursor(s) PROVE CursorInv'
        <2>1. /\ pc[s] = "advance"
              /\ pc' = [pc EXCEPT ![s] = IF more[s] THEN "loop" ELSE "sweep"]
              /\ lastCursor' = page[s]
              /\ cursor' = [cursor EXCEPT ![s] = page[s]]
              /\ UNCHANGED <<source, page>>
            BY <1>8 DEF AdvanceCursor
        <2>2. \A r \in source : r <= page[s] => Secured(r)'
            BY <1>s, <2>1 DEF CursorInv, AdvanceSecured
        <2>3. CursorNeverAhead'
            BY <2>1, <2>2 DEF CursorNeverAhead
        <2>4. LoopSecured'
            BY <1>s, <1>t, <2>1, <2>2 DEF CursorInv, LoopSecured
        <2>5. EnqueueSecured' /\ AdvanceSecured'
            BY <1>s, <1>t, <2>1 DEF CursorInv, EnqueueSecured, AdvanceSecured
        <2> QED BY <2>3, <2>4, <2>5 DEF CursorInv
    <1>9. CASE \/ \E r \in Records : SourceDeletes(r)
               \/ \E s \in Syncs : Trigger(s) \/ TriggerAborts(s)
               \/ \E b \in batches : BatchDone(b) \/ BatchRepeats(b) \/ BatchGivenUp(b)
               \/ Watchdog
               \/ UNCHANGED vars
        BY <1>2, <1>9 DEF SourceDeletes, Trigger, TriggerAdd, TriggerMark,
           TriggerAborts, BatchDone, BatchRepeats, BatchGivenUp, Watchdog, vars
    <1> QED
        BY <1>1, <1>3, <1>4, <1>5, <1>6, <1>7, <1>8, <1>9 DEF Next, Process

\* However syncs and attempts overlap, crash and are retried, an incremental
\* sync that starts from the stored cursor skips no record that is not in the
\* table, on the batch queue or given up.
THEOREM CursorIsSafe == Spec => []CursorNeverAhead
    <1>1. Init => CursorInv
        <2> SUFFICES ASSUME Init PROVE CursorInv
            OBVIOUS
        <2>1. \A r \in source : ~(r <= lastCursor)
            <3>1. \A r \in source : r \in Nat /\ 1 <= r
                BY TypedInit, Ranges DEF Typed
            <3> QED BY <3>1 DEF Init
        <2> QED
            BY <2>1 DEF Init, CursorInv, CursorNeverAhead, LoopSecured,
               EnqueueSecured, AdvanceSecured
    <1> QED
        BY <1>1, TypedInit, TypedStep, CursorStep, PTL DEF Spec, CursorInv
-----------------------------------------------------------------------------
(* Deletion detection.  CleanSyncMirrors speaks of the moment the last     *)
(* batch job is done; what leads there is that an attempt that found the   *)
(* connector at rest keeps it for itself until another one starts.         *)

\* Batch ids are handed out once: none is ahead of the counter.
IdsAreOld ==
    /\ \A r \in Records : raw[r].by <= minted
    /\ \A b \in batches : b.id <= minted

\* The last attempt is the only one, and the batch jobs are its own.
Alone ==
    /\ minted # 0
    /\ \A s, t \in Syncs : pc[s] # "idle" /\ pc[t] # "idle" => s = t
    /\ \A s \in Syncs : pc[s] # "idle" => batchId[s] = minted
    /\ \A s \in Syncs : pc[s] = "enqueue" => page[s] \in fetched
    /\ \A b \in batches : b.id = minted /\ b.rec \in fetched

\* Its rows are live and hold what it fetched.
OwnRowsLive ==
    \A r \in Records : raw[r].by = minted => r \in fetched /\ raw[r].live

\* A row, a batch job or the page in hand: where a fetched record is.
Traced(r) ==
    \/ raw[r].by = minted
    \/ \E b \in batches : b.rec = r
    \/ \E s \in Syncs : pc[s] = "enqueue" /\ page[s] = r

\* Nothing fetched is lost while the attempt goes on, or once it has swept.
FetchedTraced ==
    ~lossy /\ (swept \/ Running # {}) => \A r \in fetched : Traced(r)

\* The sweep comes after the last page and leaves only its own rows live.
SweptLast ==
    swept => /\ \A s \in Syncs : pc[s] \in {"idle", "mark"}
             /\ \A r \in Records : raw[r].live => raw[r].by = minted

CleanRun == Alone /\ OwnRowsLive /\ FetchedTraced /\ SweptLast

CleanInv == IdsAreOld /\ (clean => CleanRun)

\* Types the next lemmas need again and again.
LEMMA LocalTypes ==
    ASSUME TypeOK
    PROVE  /\ pc \in [Syncs -> {"idle", "cursor", "loop", "enqueue", "advance",
                                "sweep", "mark"}]
           /\ page \in [Syncs -> 0 .. top] /\ batchId \in [Syncs -> 0 .. minted]
           /\ raw \in [Records -> [by : 0 .. MaxStarts, live : BOOLEAN]]
           /\ \A r \in Records : raw[r].by \in Nat /\ raw[r].live \in BOOLEAN
           /\ minted \in Nat
           /\ \A b \in batches : b.id \in Nat /\ b.rec \in Records /\ b.id # 0
           /\ fetched \subseteq Records
    <1>1. minted \in Nat
        BY Ranges
    <1>2. \A b \in batches : b.id \in Nat /\ b.rec \in Records /\ b.id # 0
        BY DEF TypeOK, BatchJobs, BatchIds
    <1>3. \A r \in Records : raw[r].by \in Nat /\ raw[r].live \in BOOLEAN
        BY SyncConstants DEF TypeOK
    <1> QED
        BY <1>1, <1>2, <1>3 DEF TypeOK

LEMMA IdsStep ==
    ASSUME Typed, IdsAreOld, [Next]_vars
    PROVE  IdsAreOld'
    <1> USE DEF sourceVars, trigVars, workVars, batchVars, history
    <1>t. /\ TypeOK /\ Begun
        BY DEF Typed
    <1>1. CASE UNCHANGED <<raw, batches, minted>>
        BY <1>1 DEF IdsAreOld
    <1>2. ASSUME NEW s \in Syncs, SyncStart(s) PROVE IdsAreOld'
        BY <1>2, <1>t, LocalTypes DEF SyncStart, IdsAreOld
    <1>3. ASSUME NEW s \in Syncs, EnqueueBatch(s) PROVE IdsAreOld'
        <2>1. batchId[s] <= minted
            BY <1>t, LocalTypes
        <2> QED
            BY <2>1, <1>3 DEF EnqueueBatch, IdsAreOld
    <1>4. ASSUME NEW s \in Syncs, Sweep(s) PROVE IdsAreOld'
        <2>1. \A r \in Records : raw'[r].by = raw[r].by
            BY <1>4, <1>t, LocalTypes DEF Sweep, SoftDelete
        <2> QED
            BY <1>4, <2>1 DEF Sweep, IdsAreOld
    <1>5. ASSUME NEW b \in batches, BatchDone(b) \/ BatchRepeats(b) \/ BatchGivenUp(b)
          PROVE  IdsAreOld'
        <2>1. \A r \in Records : raw'[r].by \in {raw[r].by, b.id}
            BY <1>5, <1>t, LocalTypes DEF BatchDone, BatchRepeats, BatchGivenUp, Upsert
        <2>2. batches' \subseteq batches /\ minted' = minted
            BY <1>5 DEF BatchDone, BatchRepeats, BatchGivenUp
        <2> QED
            BY <2>1, <2>2 DEF IdsAreOld
    <1>6. ASSUME NEW s \in Syncs, \/ SyncSucceeds(s) \/ SyncCrash(s)
                                  \/ \E retried \in BOOLEAN : SyncFails(s, retried)
                                  \/ ReadCursor(s) \/ FetchBatch(s) \/ FetchNothing(s)
                                  \/ AdvanceCursor(s) \/ Trigger(s) \/ TriggerAborts(s)
          PROVE  UNCHANGED <<raw, batches, minted>>
        BY <1>6 DEF SyncSucceeds, SyncCrash, SyncFails, Leave, ReadCursor, FetchBatch,
           FetchNothing, AdvanceCursor, Trigger, TriggerAdd, TriggerMark, TriggerAborts
    <1>7. CASE \/ SourceAdds \/ Watchdog \/ UNCHANGED vars
               \/ \E r \in Records : SourceDeletes(r)
        BY <1>1, <1>7 DEF SourceAdds, Watchdog, SourceDeletes, vars
    <1> QED
        BY <1>1, <1>2, <1>3, <1>4, <1>5, <1>6, <1>7 DEF Next, Process

\* A step of the attempt before it has a page in hand or after it queued it.
LEMMA CleanMoves ==
    ASSUME Typed, CleanRun, NEW s \in Syncs, NEW q \in {"loop", "sweep"},
           pc[s] \in {"cursor", "loop", "advance"},
           pc' = [pc EXCEPT ![s] = q],
           UNCHANGED <<raw, batches, minted, batchId, page, fetched, swept, lossy>>
    PROVE  CleanRun'
    <1>1. /\ pc'[s] = q /\ q # "idle" /\ q # "enqueue"
          /\ \A t \in Syncs : t # s => pc'[t] = pc[t]
        BY LocalTypes DEF Typed
    <1>2. ~swept
        BY DEF CleanRun, SweptLast
    <1>3. Alone'
        BY <1>1 DEF CleanRun, Alone
    <1>4. OwnRowsLive' /\ SweptLast'
        BY <1>2 DEF CleanRun, OwnRowsLive, SweptLast
    <1>5. \A r \in fetched : Traced(r) => Traced(r)'
        BY <1>1 DEF Traced
    <1>6. FetchedTraced'
        BY <1>5 DEF CleanRun, FetchedTraced, Running
    <1> QED
        BY <1>3, <1>4, <1>6 DEF CleanRun

LEMMA CleanFetches ==
    ASSUME Typed, CleanRun, NEW s \in Syncs, FetchBatch(s)
    PROVE  CleanRun'
    <1>t. TypeOK
        BY DEF Typed
    <1>1. PICK r \in After(cursor[s]) :
             /\ page' = [page EXCEPT ![s] = r]
             /\ fetched' = IF batchId[s] = minted THEN fetched \cup {r} ELSE fetched
        BY DEF FetchBatch
    <1>2. /\ pc[s] = "loop" /\ pc' = [pc EXCEPT ![s] = "enqueue"]
          /\ UNCHANGED <<raw, batches, minted, batchId, swept, lossy>>
        BY DEF FetchBatch, batchVars
    <1>3. fetched' = fetched \cup {r}
        BY <1>1, <1>2 DEF CleanRun, Alone
    <1>4. /\ pc'[s] = "enqueue" /\ page'[s] = r
          /\ \A t \in Syncs : t # s => pc'[t] = pc[t] /\ page'[t] = page[t]
        BY <1>1, <1>2, <1>t, LocalTypes
    <1>5. ~swept /\ Running # {}
        BY <1>2 DEF CleanRun, SweptLast, Running
    <1>6. Alone'
        BY <1>2, <1>3, <1>4 DEF CleanRun, Alone
    <1>7. OwnRowsLive' /\ SweptLast'
        BY <1>2, <1>3, <1>5 DEF CleanRun, OwnRowsLive, SweptLast
    <1>8. \A x \in fetched : Traced(x) => Traced(x)'
        BY <1>2, <1>4 DEF Traced
    <1>9. Traced(r)'
        BY <1>4 DEF Traced
    <1>10. FetchedTraced'
        BY <1>2, <1>3, <1>5, <1>8, <1>9 DEF CleanRun, FetchedTraced
    <1> QED
        BY <1>6, <1>7, <1>10 DEF CleanRun

LEMMA CleanEnqueues ==
    ASSUME Typed, CleanRun, NEW s \in Syncs, EnqueueBatch(s)
    PROVE  CleanRun'
    <1> DEFINE b == [id |-> batchId[s], rec |-> page[s]]
    <1>t. TypeOK
        BY DEF Typed
    <1>1. /\ pc[s] = "enqueue" /\ pc' = [pc EXCEPT ![s] = "advance"]
          /\ batches' = batches \cup {b}
          /\ UNCHANGED <<raw, page, minted, batchId, fetched, swept, lossy>>
        BY DEF EnqueueBatch, history
    <1>2. b.id = minted /\ b.rec = page[s] /\ page[s] \in fetched
        BY <1>1 DEF CleanRun, Alone
    <1> HIDE DEF b
    <1>3. /\ pc'[s] = "advance" /\ \A t \in Syncs : t # s => pc'[t] = pc[t]
        BY <1>1, <1>t, LocalTypes
    <1>4. ~swept /\ Running # {}
        BY <1>1 DEF CleanRun, SweptLast, Running
    <1>5. Alone'
        BY <1>1, <1>2, <1>3 DEF CleanRun, Alone
    <1>6. OwnRowsLive' /\ SweptLast'
        BY <1>1, <1>4 DEF CleanRun, OwnRowsLive, SweptLast
    <1>7. ASSUME NEW r \in fetched, Traced(r) PROVE Traced(r)'
        <2>1. CASE r = page[s]
            BY <1>1, <1>2, <2>1 DEF Traced
        <2>2. CASE r # page[s]
            BY <1>1, <1>3, <1>7, <2>2 DEF Traced
        <2> QED
            BY <2>1, <2>2
    <1>8. FetchedTraced'
        BY <1>1, <1>4, <1>7 DEF CleanRun, FetchedTraced
    <1> QED
        BY <1>5, <1>6, <1>8 DEF CleanRun

LEMMA CleanSweeps ==
    ASSUME Typed, CleanRun, NEW s \in Syncs, Sweep(s)
    PROVE  CleanRun'
    <1>t. TypeOK
        BY DEF Typed
    <1>1. /\ pc[s] = "sweep" /\ pc' = [pc EXCEPT ![s] = "mark"]
          /\ UNCHANGED <<batches, page, minted, batchId, fetched, lossy>>
        BY DEF Sweep, batchVars
    <1>2. batchId[s] = minted
        BY <1>1 DEF CleanRun, Alone
    <1>3. /\ pc'[s] = "mark" /\ \A t \in Syncs : t # s => pc'[t] = pc[t]
        BY <1>1, <1>t, LocalTypes
    <1>4. ~swept /\ Running # {}
        BY <1>1 DEF CleanRun, SweptLast, Running
    <1>5. \A r \in Records : raw'[r].by = raw[r].by
        BY <1>t, LocalTypes DEF Sweep, SoftDelete
    <1>6. \A r \in Records : raw[r].by = minted => raw'[r] = raw[r]
        BY <1>2, <1>t, LocalTypes DEF Sweep, SoftDelete
    <1>7. \A r \in Records : swept' /\ raw'[r].live => raw'[r].by = minted
        <2>1. CASE mode[s] = "full" /\ seq[s]
            BY <1>2, <1>t, <2>1, LocalTypes DEF Sweep, SoftDelete
        <2>2. CASE ~(mode[s] = "full" /\ seq[s])
            BY <1>4, <2>2 DEF Sweep
        <2> QED
            BY <2>1, <2>2
    <1>8. Alone'
        BY <1>1, <1>3 DEF CleanRun, Alone
    <1>9. OwnRowsLive'
        BY <1>1, <1>5, <1>6 DEF CleanRun, OwnRowsLive
    <1>10. \A t \in Syncs : pc'[t] \in {"idle", "mark"}
        BY <1>1, <1>3 DEF CleanRun, Alone
    <1>11. SweptLast'
        BY <1>1, <1>7, <1>10 DEF SweptLast
    <1>12. \A r \in fetched : Traced(r) => Traced(r)'
        <2>1. fetched \subseteq Records
            BY <1>t, LocalTypes
        <2> QED
            BY <1>1, <1>3, <1>5, <2>1 DEF Traced
    <1>13. FetchedTraced'
        BY <1>1, <1>4, <1>12 DEF CleanRun, FetchedTraced
    <1> QED
        BY <1>8, <1>9, <1>11, <1>13 DEF CleanRun

\* The attempt ends: what it had in hand is lost unless it has swept.
LEMMA CleanLeaves ==
    ASSUME Typed, CleanRun, NEW s \in Syncs, pc[s] # "idle", Leave(s),
           UNCHANGED <<raw, batches, fetched, swept, lossy>>
    PROVE  CleanRun'
    <1>t. TypeOK
        BY DEF Typed
    <1>1. pc' = [pc EXCEPT ![s] = "idle"] /\ minted' = minted
        BY DEF Leave
    <1>2. /\ pc'[s] = "idle" /\ \A t \in Syncs : t # s => pc'[t] = pc[t]
        BY <1>1, <1>t, LocalTypes
    <1>3. \A t \in Syncs : pc'[t] = "idle"
        BY <1>2 DEF CleanRun, Alone
    <1>4. Running' = {}
        BY <1>3 DEF Running
    <1>5. Alone'
        BY <1>1, <1>3 DEF CleanRun, Alone
    <1>6. OwnRowsLive' /\ SweptLast'
        BY <1>1, <1>3 DEF CleanRun, OwnRowsLive, SweptLast
    <1>7. ASSUME swept, NEW r \in fetched, Traced(r) PROVE Traced(r)'
        <2>1. \A t \in Syncs : pc[t] # "enqueue"
            BY <1>7 DEF CleanRun, SweptLast
        <2> QED
            BY <1>1, <1>7, <2>1 DEF Traced
    <1>8. FetchedTraced'
        BY <1>4, <1>7 DEF CleanRun, FetchedTraced
    <1> QED
        BY <1>5, <1>6, <1>8 DEF CleanRun

\* An attempt that finds the connector at rest begins with a batch id no row
\* has.
LEMMA CleanStarts ==
    ASSUME Typed, IdsAreOld, NEW s \in Syncs, SyncStart(s), clean'
    PROVE  CleanRun'
    <1>t. TypeOK
        BY DEF Typed
    <1>1. /\ minted' = minted + 1 /\ batchId' = [batchId EXCEPT ![s] = minted + 1]
          /\ pc' = [pc EXCEPT ![s] = "cursor"] /\ fetched' = {} /\ swept' = FALSE
          /\ Running = {} /\ batches = {} /\ raw' = raw /\ batches' = batches
        BY DEF SyncStart, batchVars
    <1>2. \A t \in Syncs : pc[t] = "idle"
        BY <1>1 DEF Running
    <1>3. /\ pc'[s] = "cursor" /\ batchId'[s] = minted'
          /\ \A t \in Syncs : t # s => pc'[t] = "idle"
        BY <1>1, <1>2, <1>t, LocalTypes
    <1>4. minted' # 0 /\ \A r \in Records : raw'[r].by # minted'
        BY <1>1, <1>t, LocalTypes DEF IdsAreOld
    <1>5. Alone'
        BY <1>1, <1>3, <1>4 DEF Alone
    <1>6. OwnRowsLive' /\ SweptLast' /\ FetchedTraced'
        BY <1>1, <1>4 DEF OwnRowsLive, SweptLast, FetchedTraced
    <1> QED
        BY <1>5, <1>6 DEF CleanRun

LEMMA CleanUpserts ==
    ASSUME Typed, CleanRun, NEW b \in batches, BatchDone(b) \/ BatchRepeats(b)
    PROVE  CleanRun'
    <1>t. TypeOK
        BY DEF Typed
    <1>1. /\ raw' = [raw EXCEPT ![b.rec] = [by |-> b.id, live |-> TRUE]]
          /\ batches \ {b} \subseteq batches' /\ batches' \subseteq batches
          /\ UNCHANGED <<pc, page, minted, batchId, fetched, swept, lossy>>
        BY DEF BatchDone, BatchRepeats, Upsert, workVars, history, batchVars
    <1>2. b.id = minted /\ b.rec \in fetched /\ b.rec \in Records
        BY <1>t, LocalTypes DEF CleanRun, Alone
    <1>3. /\ raw'[b.rec].by = minted /\ raw'[b.rec].live
          /\ \A r \in Records : r # b.rec => raw'[r] = raw[r]
        BY <1>1, <1>2, <1>t, LocalTypes
    <1>4. Alone'
        BY <1>1 DEF CleanRun, Alone
    <1>5. OwnRowsLive' /\ SweptLast'
        BY <1>1, <1>2, <1>3 DEF CleanRun, OwnRowsLive, SweptLast
    <1>6. ASSUME NEW r \in fetched, Traced(r) PROVE Traced(r)'
        <2>1. r \in Records
            BY <1>t, LocalTypes
        <2>2. CASE r = b.rec
            BY <1>1, <1>3, <2>2 DEF Traced
        <2>3. CASE r # b.rec
            BY <1>1, <1>3, <1>6, <2>1, <2>3 DEF Traced
        <2> QED
            BY <2>2, <2>3
    <1>7. FetchedTraced'
        BY <1>1, <1>6 DEF CleanRun, FetchedTraced, Running
    <1> QED
        BY <1>4, <1>5, <1>7 DEF CleanRun

LEMMA CleanGivesUp ==
    ASSUME Typed, CleanRun, NEW b \in batches, BatchGivenUp(b)
    PROVE  CleanRun'
    <1>1. /\ batches' \subseteq batches /\ lossy' = (lossy \/ b.id = minted)
          /\ UNCHANGED <<raw, pc, page, minted, batchId, fetched, swept>>
        BY DEF BatchGivenUp, workVars
    <1>2. lossy'
        BY <1>1 DEF CleanRun, Alone
    <1>3. Alone'
        BY <1>1 DEF CleanRun, Alone
    <1>4. OwnRowsLive' /\ SweptLast' /\ FetchedTraced'
        BY <1>1, <1>2 DEF CleanRun, OwnRowsLive, SweptLast, FetchedTraced
    <1> QED
        BY <1>3, <1>4 DEF CleanRun

\* Steps of the source, the callers of triggerSync and the watchdog.
LEMMA CleanOthers ==
    ASSUME CleanRun,
           UNCHANGED <<raw, batches, pc, page, minted, batchId, fetched, swept,
                       lossy>>
    PROVE  CleanRun'
    BY DEF CleanRun, Alone, OwnRowsLive, FetchedTraced, SweptLast, Traced, Running

LEMMA CleanStep == Typed /\ CleanInv /\ [Next]_vars => CleanInv'
    <1> SUFFICES ASSUME Typed, CleanInv, [Next]_vars, clean' PROVE CleanRun'
        BY IdsStep DEF CleanInv
    <1>o. IdsAreOld
        BY DEF CleanInv
    <1>1. ASSUME NEW s \in Syncs, SyncStart(s) PROVE CleanRun'
        BY <1>o, <1>1, CleanStarts
    <1>2. ASSUME NEW s \in Syncs, Process(s), ~SyncStart(s) PROVE CleanRun'
        <2>c. clean' = clean
            BY <1>2 DEF Process, ReadCursor, FetchBatch, FetchNothing, EnqueueBatch,
               AdvanceCursor, Sweep, SyncSucceeds, history
        <2>r. CleanRun
            BY <2>c DEF CleanInv
        <2>1. CASE ReadCursor(s)
            BY <2>1, <2>r, CleanMoves DEF ReadCursor, batchVars, history
        <2>2. CASE FetchBatch(s)
            BY <2>2, <2>r, CleanFetches
        <2>3. CASE FetchNothing(s)
            BY <2>3, <2>r, CleanMoves DEF FetchNothing, batchVars, history
        <2>4. CASE EnqueueBatch(s)
            BY <2>4, <2>r, CleanEnqueues
        <2>5. CASE AdvanceCursor(s)
            <3>1. PICK q \in {"loop", "sweep"} : pc' = [pc EXCEPT ![s] = q]
                BY <2>5 DEF AdvanceCursor
            <3> QED
                BY <2>5, <3>1, <2>r, CleanMoves DEF AdvanceCursor, batchVars, history
        <2>6. CASE Sweep(s)
            BY <2>6, <2>r, CleanSweeps
        <2>7. CASE SyncSucceeds(s)
            BY <2>7, <2>r, CleanLeaves DEF SyncSucceeds, batchVars, history
        <2> QED
            BY <1>2, <2>1, <2>2, <2>3, <2>4, <2>5, <2>6, <2>7 DEF Process
    <1>3. ASSUME NEW s \in Syncs,
                 SyncCrash(s) \/ \E retried \in BOOLEAN : SyncFails(s, retried)
          PROVE  CleanRun'
        <2>1. /\ Leave(s) /\ pc[s] # "idle" /\ clean' = clean
              /\ UNCHANGED <<raw, batches, fetched, swept, lossy>>
            BY <1>3 DEF SyncCrash, SyncFails, batchVars, history
        <2> QED
            BY <2>1, CleanLeaves DEF CleanInv
    <1>4. ASSUME NEW b \in batches, BatchDone(b) \/ BatchRepeats(b) \/ BatchGivenUp(b)
          PROVE  CleanRun'
        <2>1. clean' = clean
            BY <1>4 DEF BatchDone, BatchRepeats, BatchGivenUp, history
        <2> QED
            BY <1>4, <2>1, CleanUpserts, CleanGivesUp DEF CleanInv
    <1>5. CASE \/ SourceAdds \/ Watchdog \/ UNCHANGED vars
               \/ \E r \in Records : SourceDeletes(r)
               \/ \E s \in Syncs : Trigger(s) \/ TriggerAborts(s)
        <2>1. UNCHANGED <<raw, workVars, batchVars, history>>
            BY <1>5 DEF SourceAdds, Watchdog, SourceDeletes, Trigger, TriggerAdd,
               TriggerMark, TriggerAborts, vars
        <2> QED
            BY <2>1, CleanOthers DEF CleanInv, workVars, batchVars, history
    <1> QED
        BY <1>1, <1>2, <1>3, <1>4, <1>5 DEF Next

\* Full sync deletion detection (softDeleteNotInBatch), for any number of
\* syncs, records and deliveries: when an attempt had the connector for itself
\* and none of its batch jobs was given up, then once they are done the live
\* rows are exactly what it fetched, in whichever order its batch jobs, their
\* repetitions and the sweep took place.
THEOREM FullSyncMirrors == Spec => []CleanSyncMirrors
    <1>1. Init => CleanInv
        <2> SUFFICES ASSUME Init PROVE IdsAreOld
            BY DEF CleanInv, Init
        <2> QED
            BY DEF Init, IdsAreOld
    <1>2. Typed /\ CleanInv => CleanSyncMirrors
        <2> SUFFICES ASSUME Typed, CleanInv, clean, swept, ~lossy, batches = {}
                     PROVE  {r \in Records : raw[r].live} = fetched
            BY DEF CleanSyncMirrors
        <2>1. CleanRun /\ fetched \subseteq Records
            BY LocalTypes DEF CleanInv, Typed
        <2>2. \A r \in fetched : raw[r].by = minted
            BY <2>1 DEF CleanRun, FetchedTraced, SweptLast, Traced
        <2> QED
            BY <2>1, <2>2 DEF CleanRun, OwnRowsLive, SweptLast
    <1> QED
        BY <1>1, <1>2, TypedInit, TypedStep, CleanStep, PTL DEF Spec
=============================================================================
