---------------------------- MODULE StepTraversal ----------------------------
(***************************************************************************)
(* Steps 5 to 9 of processRun: one instance, holding the run's lock, walks *)
(* the step graph of an accepted definition.  The rows are those of        *)
(* run_steps; the branches of a parallel step are promises that go on      *)
(* whether or not the walk still waits for them.  Users may request        *)
(* cancellation at any time; what a hook, a condition or a step's body     *)
(* does is a choice.                                                       *)
(***************************************************************************)
EXTENDS StepGraph

CONSTANTS
    Steps,        \* step ids
    Definitions,  \* definitions a user may submit
    MaxRetries,   \* largest retryConfig.maxRetries of a definition
    MaxBranches,  \* most branches of a parallel step
    TriesCap      \* where the history counter tries stops counting

ASSUME TraversalConstants ==
    /\ NoStep \notin Steps
    /\ MaxRetries \in Nat
    /\ MaxBranches \in Nat
    /\ TriesCap \in Nat \ {0}

\* run_steps_step_id_per_run_unique: only definitions without duplicate ids
\* get past createBatch.  Flattening a definition yields a list.
ASSUME DefinitionsUsable ==
    \A d \in Definitions :
        /\ AllIds(d) \subseteq Steps
        /\ Len(collectAllStepsFlat(d.steps)) \in Nat
        /\ DOMAIN collectAllStepsFlat(d.steps) = 1 .. Len(collectAllStepsFlat(d.steps))
        /\ Cardinality(AllIds(d)) = Len(collectAllStepsFlat(d.steps))
        /\ \A i \in DOMAIN collectAllStepsFlat(d.steps) :
               LET step == collectAllStepsFlat(d.steps)[i]
               IN  /\ step.retries \in 0 .. MaxRetries
                   /\ step.kind = "parallel" =>
                          DOMAIN step.branches \subseteq 1 .. MaxBranches

VARIABLES
    def,       \* runs.definition_snapshot
    status,    \* runs.status
    row,       \* run_steps.status, "none" for ids the definition lacks
    cancel,    \* the Redis cancellation flag
    pc,        \* where processRun stands
    cur,       \* currentStepId
    chosen,    \* nextStepId of the step just executed
    attempt,   \* the retry loop's counter
    failedStep, \* failedStepId
    thr,       \* what became of each branch promise
    at,        \* ... and the step it executes
    verdict,   \* what Promise.all or Promise.race settled to
    tries      \* history: calls of executeStep for each step

vars == <<def, status, row, cancel, pc, cur, chosen, attempt, failedStep, thr,
          at, verdict, tries>>
branchVars == <<thr, at, verdict>>

Branches == Steps \X (0 .. MaxRetries) \X (1 .. MaxBranches)
RowStatus == {"pending", "running", "completed", "failed", "skipped",
              "cancelled"}

Flat == collectAllStepsFlat(def.steps)
StepCur == StepOf(Flat, cur)

\* The steps of the branch a promise walks.
BranchOf(b) == StepOf(Flat, b[1]).branches[b[3]]

TypeOK ==
    /\ def \in Definitions
    /\ status \in {"running", "completed", "failed", "cancelled"}
    /\ row \in [Steps -> RowStatus \cup {"none"}]
    /\ cancel \in BOOLEAN
    /\ pc \in {"start", "loop", "exec", "after", "end", "over", "thrown"}
    /\ attempt \in 0 .. MaxRetries
    /\ failedStep \in Steps \cup {NoStep}
    /\ thr \in [Branches -> {"none", "live", "done", "failed"}]
    /\ verdict \in {"none", "done", "failed"}
    /\ tries \in [Steps -> 0 .. TriesCap]

\* The row is running, the rows are created and the tracker has an entry.
Init ==
    /\ def \in {d \in Definitions : validateDefinition(d)}
    /\ status = "running"
    /\ row = [s \in Steps |-> IF s \in AllIds(def) THEN "pending" ELSE "none"]
    /\ cancel = FALSE
    /\ pc = "start"
    /\ cur = def.entry
    /\ chosen = NoStep
    /\ attempt = 0
    /\ failedStep = NoStep
    /\ thr = [b \in Branches |-> "none"]
    /\ at = [b \in Branches |-> NoStep]
    /\ verdict = "none"
    /\ tries = [s \in Steps |-> 0]

-----------------------------------------------------------------------------
CancelRun ==
    /\ status = "running"
    /\ cancel' = TRUE
    /\ UNCHANGED <<def, status, row, pc, cur, chosen, attempt, failedStep,
                   branchVars, tries>>

CancelExpires ==
    /\ cancel
    /\ cancel' = FALSE
    /\ UNCHANGED <<def, status, row, pc, cur, chosen, attempt, failedStep,
                   branchVars, tries>>

-----------------------------------------------------------------------------
(* after:pipeline.trigger hooks.                                           *)

StartHooksPass ==
    /\ pc = "start"
    /\ pc' = "loop"
    /\ UNCHANGED <<def, status, row, cancel, cur, chosen, attempt, failedStep,
                   branchVars, tries>>

StartHooksFail ==
    /\ pc = "start"
    /\ pc' = "over"
    /\ status' = "failed"
    /\ UNCHANGED <<def, row, cancel, cur, chosen, attempt, failedStep,
                   branchVars, tries>>

-----------------------------------------------------------------------------
(* The head of the traversal loop.                                         *)

CancelPending == [s \in Steps |-> IF row[s] = "pending" THEN "cancelled"
                                                        ELSE row[s]]

\* Go on with a step, or leave the loop.
Goto(s) == cur' = s /\ pc' = IF s = NoStep THEN "end" ELSE "loop"

SeeCancel ==
    /\ pc = "loop"
    /\ cancel
    /\ row' = CancelPending
    /\ status' = "cancelled"
    /\ pc' = "over"
    /\ UNCHANGED <<def, cancel, cur, chosen, attempt, failedStep, branchVars,
                   tries>>

AtStep == pc = "loop" /\ ~cancel /\ cur \in AllIds(def)

\* An id the definition lacks ends the loop as if all steps were done.
UnknownStep ==
    /\ pc = "loop"
    /\ ~cancel
    /\ cur \notin AllIds(def)
    /\ pc' = "end"
    /\ UNCHANGED <<def, status, row, cancel, cur, chosen, attempt, failedStep,
                   branchVars, tries>>

\* Mutant: the status of a finished step in the design's diagram.
SkipStepAsDone ==
    /\ AtStep
    /\ StepCur.skipIf
    /\ row' = [row EXCEPT ![cur] = "done"]
    /\ Goto(Sequential(Flat, cur))
    /\ UNCHANGED <<def, status, cancel, chosen, attempt, failedStep,
                   branchVars, tries>>

SkipStep ==
    /\ AtStep
    /\ StepCur.skipIf
    /\ row' = [row EXCEPT ![cur] = "skipped"]
    /\ Goto(Sequential(Flat, cur))
    /\ UNCHANGED <<def, status, cancel, chosen, attempt, failedStep,
                   branchVars, tries>>

BeforeHookFails ==
    /\ AtStep
    /\ row' = [row EXCEPT ![cur] = "failed"]
    /\ failedStep' = cur
    /\ pc' = "end"
    /\ UNCHANGED <<def, status, cancel, cur, chosen, attempt, branchVars,
                   tries>>

-----------------------------------------------------------------------------
(* Executing the step.                                                     *)

Count(f, s) == [f EXCEPT ![s] = IF @ < TriesCap THEN @ + 1 ELSE @]

\* A call of executeStep for cur: a parallel step starts all its branches.
Call(n) ==
    /\ attempt' = n
    /\ tries' = Count(tries, cur)
    /\ verdict' = "none"
    /\ LET started == IF StepCur.kind = "parallel"
                      THEN {cur} \X {n} \X DOMAIN StepCur.branches ELSE {}
       IN  /\ thr' = [b \in Branches |->
                         IF b \in started THEN "live" ELSE thr[b]]
           /\ at' = [b \in Branches |->
                        IF b \in started THEN BranchOf(b).entry ELSE at[b]]

BeginStep ==
    /\ AtStep
    /\ row' = [row EXCEPT ![cur] = "running"]
    /\ pc' = "exec"
    /\ Call(0)
    /\ UNCHANGED <<def, status, cancel, cur, chosen, failedStep>>

\* The promises of the call the walk is waiting for.
Awaited == {b \in Branches : /\ pc = "exec"
                             /\ b[1] = cur /\ b[2] = attempt
                             /\ b[3] \in DOMAIN StepCur.branches}

\* Mutant: the promises are raced whatever waitMode says.
SettleRace(b, s) == s

\* What the awaited promise is worth once branch b has settled to s.
Settle(b, s) ==
    IF StepCur.wait = "any" \/ s = "failed" THEN s
    ELSE IF \A o \in Awaited \ {b} : thr[o] = "done" THEN "done" ELSE "none"

SetBranch(b, s) ==
    /\ thr' = [thr EXCEPT ![b] = s]
    /\ verdict' = IF b \in Awaited /\ verdict = "none" THEN Settle(b, s)
                                                       ELSE verdict

\* traverseBranch: a branch executes its steps without rows, retries, hooks
\* or cancellation; a step its list lacks ends it.
BranchStep(b) ==
    /\ thr[b] = "live"
    /\ at[b] \in StepIds(BranchOf(b).steps)
    /\ tries' = Count(tries, at[b])
    /\ \/ /\ SetBranch(b, "failed")
          /\ UNCHANGED at
       \/ \E c \in Outcomes(StepOf(BranchOf(b).steps, at[b])) :
             LET next == getNextStepId(BranchOf(b).steps, at[b], c)
             IN  /\ at' = [at EXCEPT ![b] = next]
                 /\ IF next = NoStep THEN SetBranch(b, "done")
                                     ELSE UNCHANGED <<thr, verdict>>
    /\ UNCHANGED <<def, status, row, cancel, pc, cur, chosen, attempt,
                   failedStep>>

BranchLeaves(b) ==
    /\ thr[b] = "live"
    /\ at[b] \notin StepIds(BranchOf(b).steps)
    /\ SetBranch(b, "done")
    /\ UNCHANGED <<def, status, row, cancel, pc, cur, chosen, attempt,
                   failedStep, at, tries>>

\* executeStep returned: the row is completed, the output stored.
StepReturns(c) ==
    /\ pc = "exec"
    /\ StepCur.kind = "parallel" => verdict = "done"
    /\ c \in Outcomes(StepCur)
    /\ chosen' = c
    /\ row' = [row EXCEPT ![cur] = "completed"]
    /\ pc' = "after"
    /\ UNCHANGED <<def, status, cancel, cur, attempt, failedStep, branchVars,
                   tries>>

Threw == pc = "exec" /\ (StepCur.kind = "parallel" => verdict = "failed")

\* Mutant: one retry too many.
RetryStepOnceMore ==
    /\ Threw
    /\ attempt <= StepCur.retries
    /\ attempt < MaxRetries
    /\ Call(attempt + 1)
    /\ UNCHANGED <<def, status, row, cancel, pc, cur, chosen, failedStep>>

RetryStep ==
    /\ Threw
    /\ attempt < StepCur.retries
    /\ Call(attempt + 1)
    /\ UNCHANGED <<def, status, row, cancel, pc, cur, chosen, failedStep>>

\* Retries exhausted: the fallback takes precedence over onError.
StepFails ==
    /\ Threw
    /\ attempt >= StepCur.retries
    /\ row' = [row EXCEPT ![cur] = "failed"]
    /\ \/ /\ StepCur.fallback # NoStep
          /\ Goto(StepCur.fallback)
          /\ UNCHANGED failedStep
       \/ /\ StepCur.fallback = NoStep
          /\ StepCur.onError = "skip"
          /\ Goto(Sequential(Flat, cur))
          /\ UNCHANGED failedStep
       \/ /\ StepCur.fallback = NoStep
          /\ StepCur.onError = "fail"
          /\ failedStep' = cur
          /\ pc' = "end"
          /\ UNCHANGED cur
    /\ UNCHANGED <<def, status, cancel, chosen, attempt, branchVars,
                   tries>>

AfterHooksPass ==
    /\ pc = "after"
    /\ Goto(getNextStepId(Flat, cur, chosen))
    /\ UNCHANGED <<def, status, row, cancel, chosen, attempt, failedStep,
                   branchVars, tries>>

\* Mutant: after:step hooks are advisory, as a comment above them says.
AfterHookAdvisory ==
    /\ pc = "after"
    /\ row' = [row EXCEPT ![cur] = "failed"]
    /\ Goto(getNextStepId(Flat, cur, chosen))
    /\ UNCHANGED <<def, status, cancel, chosen, attempt, failedStep,
                   branchVars, tries>>

AfterHookFails ==
    /\ pc = "after"
    /\ row' = [row EXCEPT ![cur] = "failed"]
    /\ failedStep' = cur
    /\ pc' = "end"
    /\ UNCHANGED <<def, status, cancel, cur, chosen, attempt, branchVars,
                   tries>>

-----------------------------------------------------------------------------
(* After the loop.                                                         *)

\* Mutant: the steps that never ran are left as they are.
FinishFailedKeepsPending ==
    /\ pc = "end"
    /\ failedStep # NoStep
    /\ status' = "failed"
    /\ pc' = "over"
    /\ UNCHANGED <<def, row, cancel, cur, chosen, attempt, failedStep,
                   branchVars, tries>>

FinishFailed ==
    /\ pc = "end"
    /\ failedStep # NoStep
    /\ row' = CancelPending
    /\ status' = "failed"
    /\ pc' = "over"
    /\ UNCHANGED <<def, cancel, cur, chosen, attempt, failedStep, branchVars,
                   tries>>

\* before:pipeline.complete hooks pass, or fail the run.
Finish(s) ==
    /\ pc = "end"
    /\ failedStep = NoStep
    /\ status' = s
    /\ pc' = "over"
    /\ UNCHANGED <<def, row, cancel, cur, chosen, attempt, failedStep,
                   branchVars, tries>>

\* A Postgres, Redis or Plugin Service call outside executeStep rejects:
\* processRun is left through its finally block.
EngineThrows ==
    /\ pc \notin {"over", "thrown"}
    /\ pc' = "thrown"
    /\ UNCHANGED <<def, status, row, cancel, cur, chosen, attempt, failedStep,
                   branchVars, tries>>

-----------------------------------------------------------------------------
Walk ==
    \/ StartHooksPass \/ StartHooksFail
    \/ SeeCancel \/ UnknownStep \/ SkipStep \/ BeforeHookFails \/ BeginStep
    \/ \E c \in Steps \cup {NoStep} : StepReturns(c)
    \/ RetryStep \/ StepFails
    \/ AfterHooksPass \/ AfterHookFails
    \/ FinishFailed
    \/ \E s \in {"completed", "failed"} : Finish(s)

BranchMoves(b) == BranchStep(b) \/ BranchLeaves(b)

Next ==
    \/ Walk
    \/ \E b \in Branches : BranchMoves(b)
    \/ CancelRun \/ CancelExpires \/ EngineThrows

Spec == Init /\ [][Next]_vars

\* The event loop runs whatever is ready; steps and hooks have timeouts.
Fairness ==
    /\ WF_vars(Walk)
    /\ \A b \in Branches : WF_vars(BranchMoves(b))

FairSpec == Spec /\ Fairness

-----------------------------------------------------------------------------
(* Properties.                                                             *)

\* Where the engine may go from a step: on, past it, or to its fallback.
LeadsTo(d, s) ==
    LET flat == collectAllStepsFlat(d.steps)
        step == StepOf(flat, s)
    IN  {getNextStepId(flat, s, c) : c \in Outcomes(step)}
        \cup {t \in {Sequential(flat, s)} :
                 step.skipIf \/ (step.fallback = NoStep /\ step.onError = "skip")}
        \cup {t \in {step.fallback} : t # NoStep}

\* The validator looked at every move the engine can make.  It does not look
\* at fallbacks, at a conditional that falls through, at the way past a
\* conditional and at the way from one branch of a parallel step to the next.
EdgesSeen(d) ==
    \A s \in AllIds(d) : \A t \in LeadsTo(d, s) \cap AllIds(d) :
        <<s, t>> \in buildAdjacencyMap(d)

\* The definitions of which the validator saw every move.
Seen == {d \in Definitions : EdgesSeen(d)}

Unforked(d) ==
    \A i \in DOMAIN collectAllStepsFlat(d.steps) :
        collectAllStepsFlat(d.steps)[i].kind # "parallel"

\* The walk never came to a step: its start hooks failed.
NotBegun == cur = def.entry /\ \A s \in AllIds(def) : row[s] = "pending"

\* The walk came to the end of a path: no step, or one the definition lacks.
PathEnded == cur \notin AllIds(def)

\* When processRun returns, no row claims to be running, and rows are left
\* pending in two cases only: none of the steps was begun, or the run went to
\* the end of its path without failing at a step.  Every other end marks "all
\* remaining pending steps as cancelled".
EndedRowsSettled ==
    pc = "over" =>
        /\ \A s \in Steps : row[s] # "running"
        /\ \/ \A s \in Steps : row[s] # "pending"
           \/ status = "failed" /\ NotBegun
           \/ status \in {"completed", "failed"} /\ failedStep = NoStep /\ PathEnded

\* A failed step is never lost, and no failure is invented.  A run that
\* completes has only failed steps whose fallback or onError excuses them.  A
\* run that fails names a failed step, unless hooks failed it before its first
\* step or after its last; and only a failed run names one.
FailuresAccounted ==
    /\ failedStep # NoStep =>
           row[failedStep] = "failed" /\ (pc = "over" => status = "failed")
    /\ status = "failed" => failedStep # NoStep \/ NotBegun \/ PathEnded
    /\ status = "completed" => PathEnded
    /\ status \in {"completed", "failed"} =>
           \A s \in AllIds(def) : row[s] = "failed" =>
               \/ s = failedStep
               \/ StepOf(Flat, s).fallback # NoStep
               \/ StepOf(Flat, s).onError = "skip"

\* Where the validator saw every move, no step's body is executed more often
\* than its retryConfig allows: neither the retry loop nor the path through the
\* graph repeats it.
TriesBounded ==
    def \in Seen /\ Unforked(def) =>
        \A s \in AllIds(def) : tries[s] <= StepOf(Flat, s).retries + 1

\* Where the validator saw every move, a row that reached a final status keeps
\* it, except that an after:step hook may still fail a completed step.
RowsMonotone ==
    [][(def \in Seen) =>
          \A s \in Steps :
             row[s] \in {"completed", "failed", "skipped", "cancelled"} =>
                 \/ row'[s] = row[s]
                 \/ row[s] = "completed" /\ row'[s] = "failed"]_vars

\* Where the validator saw every move, its search for cycles is enough: the
\* traversal ends, and the pipeline's lock with it.
SeenTerminates == (def \in Seen) ~> (pc \in {"over", "thrown"})

\* "Detect cycles in the step graph (DFS). A cycle is a VALIDATION_ERROR."
\* (pipeline-service.md 5.2): the traversal of any accepted definition ends.
\* The code does not keep this: see EdgesSeen.
Terminates == <>(pc \in {"over", "thrown"})

\* "After a parallel step: next step is the step declared after the parallel
\* block." (pipeline-service.md 7.3): the walk itself executes steps of the top
\* level, those of a branch are for the branch.  The code does not keep this:
\* getNextStepIdFromMain looks in the flat list.
WalkStaysAtTop == pc = "exec" => cur \in StepIds(def.steps)

\* A parallel step with waitMode "all" completes only after each of its
\* branches has, in one and the same attempt.
AllBranchesDone ==
    \A s \in AllIds(def) :
        (/\ StepOf(Flat, s).kind = "parallel"
         /\ StepOf(Flat, s).wait = "all"
         /\ row[s] = "completed") =>
            \E n \in 0 .. MaxRetries :
                \A b \in DOMAIN StepOf(Flat, s).branches :
                    thr[<<s, n, b>>] = "done"

=============================================================================
