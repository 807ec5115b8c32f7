------------------------- MODULE StepTraversalProofs -------------------------
(***************************************************************************)
(* What holds of the traversal of every definition, however long its lists *)
(* and however many branches, retries and cancellations it meets.          *)
(***************************************************************************)
EXTENDS StepTraversal, FiniteSetTheorems, WellFoundedInduction, TLAPS

\* Looking up an id a list has yields a step of that list.
LEMMA StepOfMember ==
    ASSUME NEW list, NEW id \in StepIds(list)
    PROVE  /\ IndexOf(list, id) \in DOMAIN list
           /\ StepOf(list, id) = list[IndexOf(list, id)]
<1>1. \E i \in DOMAIN list : list[i].id = id
    BY DEF StepIds
<1> QED BY <1>1 DEF IndexOf, StepOf

\* The steps of a definition have ids, a retry limit below MaxRetries and, if
\* they are parallel, as many branches as MaxBranches allows.
LEMMA UsableStep ==
    ASSUME NEW d \in Definitions, NEW s \in AllIds(d)
    PROVE  LET step == StepOf(collectAllStepsFlat(d.steps), s)
           IN  /\ s \in Steps
               /\ step.retries \in 0 .. MaxRetries
               /\ step.kind = "parallel" =>
                      DOMAIN step.branches \subseteq 1 .. MaxBranches
<1> DEFINE flat == collectAllStepsFlat(d.steps)
<1>1. s \in StepIds(flat) BY DEF AllIds
<1> HIDE DEF flat
<1>2. IndexOf(flat, s) \in DOMAIN flat /\ StepOf(flat, s) = flat[IndexOf(flat, s)]
    BY <1>1, StepOfMember
<1>3. \A i \in DOMAIN flat :
          /\ flat[i].retries \in 0 .. MaxRetries
          /\ flat[i].kind = "parallel" =>
                 DOMAIN flat[i].branches \subseteq 1 .. MaxBranches
    BY DefinitionsUsable DEF flat
<1>4. s \in Steps BY DefinitionsUsable
<1>5. /\ StepOf(flat, s).retries \in 0 .. MaxRetries
      /\ StepOf(flat, s).kind = "parallel" =>
             DOMAIN StepOf(flat, s).branches \subseteq 1 .. MaxBranches
    BY <1>2, <1>3
<1> QED BY <1>4, <1>5 DEF flat

-----------------------------------------------------------------------------
(* Type correctness.  What is added to TypeOK: while a step is executed,   *)
(* the current id is one of the definition's.                              *)

AtKnownStep == pc \in {"exec", "after"} => cur \in AllIds(def)

TypeInv == TypeOK /\ AtKnownStep

LEMMA TypeInit == Init => TypeInv
<1> SUFFICES ASSUME Init PROVE TypeInv OBVIOUS
<1>1. row \in [Steps -> RowStatus \cup {"none"}]
    BY DEF Init, RowStatus
<1>2. 0 \in 0 .. MaxRetries /\ 0 \in 0 .. TriesCap BY TraversalConstants
<1> QED BY <1>1, <1>2 DEF Init, TypeInv, TypeOK, AtKnownStep

\* Setting one row to a status, and cancelling the pending ones, keeps the
\* rows well typed.
LEMMA RowTyped ==
    ASSUME row \in [Steps -> RowStatus \cup {"none"}]
    PROVE  /\ \A s \in RowStatus :
                 [row EXCEPT ![cur] = s] \in [Steps -> RowStatus \cup {"none"}]
           /\ CancelPending \in [Steps -> RowStatus \cup {"none"}]
<1>1. CancelPending \in [Steps -> RowStatus \cup {"none"}]
    BY DEF CancelPending, RowStatus
<1> QED BY <1>1

LEMMA CountTyped ==
    ASSUME NEW f \in [Steps -> 0 .. TriesCap], NEW s
    PROVE  Count(f, s) \in [Steps -> 0 .. TriesCap]
<1> DEFINE v == IF f[s] < TriesCap THEN f[s] + 1 ELSE f[s]
<1>1. ASSUME s \in Steps PROVE v \in 0 .. TriesCap
    BY <1>1, TraversalConstants
<1>2. Count(f, s) = [f EXCEPT ![s] = v] BY DEF Count
<1> HIDE DEF v
<1>3. [f EXCEPT ![s] = v] \in [Steps -> 0 .. TriesCap] BY <1>1
<1> QED BY <1>2, <1>3

\* A call of executeStep with an attempt number in range keeps the types.
LEMMA CallTyped ==
    ASSUME TypeOK, NEW n \in 0 .. MaxRetries, Call(n)
    PROVE  /\ attempt' \in 0 .. MaxRetries
           /\ thr' \in [Branches -> {"none", "live", "done", "failed"}]
           /\ verdict' \in {"none", "done", "failed"}
           /\ tries' \in [Steps -> 0 .. TriesCap]
<1>1. tries' \in [Steps -> 0 .. TriesCap]
    BY CountTyped DEF TypeOK, Call
<1>2. thr' \in [Branches -> {"none", "live", "done", "failed"}]
    BY DEF TypeOK, Call
<1> QED BY <1>1, <1>2 DEF Call

LEMMA SetBranchTyped ==
    ASSUME TypeOK, NEW b \in Branches, NEW s \in {"done", "failed"},
           SetBranch(b, s)
    PROVE  /\ thr' \in [Branches -> {"none", "live", "done", "failed"}]
           /\ verdict' \in {"none", "done", "failed"}
<1>1. Settle(b, s) \in {"none", "done", "failed"} BY DEF Settle
<1> QED BY <1>1 DEF TypeOK, SetBranch

LEMMA TypeStep == TypeInv /\ [Next]_vars => TypeInv'
<1> SUFFICES ASSUME TypeInv, [Next]_vars PROVE TypeInv' OBVIOUS
<1> USE DEF TypeInv
<1>0. CASE UNCHANGED vars
    BY <1>0 DEF vars, branchVars, TypeOK, AtKnownStep
<1>1. CASE CancelRun \/ CancelExpires
    BY <1>1 DEF CancelRun, CancelExpires, branchVars, TypeOK, AtKnownStep
<1>2. CASE StartHooksPass \/ StartHooksFail
    BY <1>2 DEF StartHooksPass, StartHooksFail, branchVars, TypeOK, AtKnownStep
<1>3. CASE SeeCancel
    BY <1>3, RowTyped DEF SeeCancel, branchVars, TypeOK, AtKnownStep
<1>4. CASE UnknownStep
    BY <1>4 DEF UnknownStep, branchVars, TypeOK, AtKnownStep
<1>5. CASE SkipStep
    BY <1>5, RowTyped DEF SkipStep, Goto, RowStatus, branchVars, TypeOK,
                          AtKnownStep
<1>6. CASE BeforeHookFails
  <2>1. cur \in Steps BY <1>6, UsableStep DEF BeforeHookFails, AtStep, TypeOK
  <2> QED BY <1>6, <2>1, RowTyped DEF BeforeHookFails, RowStatus, branchVars,
                                      TypeOK, AtKnownStep
<1>7. CASE BeginStep
  <2>1. Call(0) /\ 0 \in 0 .. MaxRetries
      BY <1>7, TraversalConstants DEF BeginStep
  <2>2. cur \in AllIds(def) BY <1>7 DEF BeginStep, AtStep
  <2> QED BY <1>7, <2>1, <2>2, CallTyped, RowTyped
          DEF BeginStep, RowStatus, TypeOK, AtKnownStep
<1>8. ASSUME NEW b \in Branches, BranchMoves(b) PROVE TypeInv'
  <2>1. CASE BranchStep(b)
    <3>1. tries' \in [Steps -> 0 .. TriesCap]
        BY <2>1, CountTyped DEF BranchStep, TypeOK
    <3>2. /\ thr' \in [Branches -> {"none", "live", "done", "failed"}]
          /\ verdict' \in {"none", "done", "failed"}
      <4>1. CASE SetBranch(b, "failed") BY <4>1, SetBranchTyped
      <4>2. CASE SetBranch(b, "done") BY <4>2, SetBranchTyped
      <4>3. CASE UNCHANGED <<thr, verdict>> BY <4>3 DEF TypeOK
      <4> QED BY <2>1, <4>1, <4>2, <4>3 DEF BranchStep
    <3> QED BY <2>1, <3>1, <3>2 DEF BranchStep, TypeOK, AtKnownStep
  <2>2. CASE BranchLeaves(b)
      BY <2>2, SetBranchTyped DEF BranchLeaves, TypeOK, AtKnownStep
  <2> QED BY <1>8, <2>1, <2>2 DEF BranchMoves
<1>9. ASSUME NEW c \in Steps \cup {NoStep}, StepReturns(c) PROVE TypeInv'
    BY <1>9, RowTyped DEF StepReturns, RowStatus, branchVars, TypeOK,
                          AtKnownStep
<1>10. CASE RetryStep
  <2>1. StepCur.retries \in 0 .. MaxRetries
      BY <1>10, UsableStep DEF RetryStep, Threw, TypeOK, AtKnownStep, StepCur,
                               Flat
  <2>2. attempt + 1 \in 0 .. MaxRetries
      BY <1>10, <2>1, TraversalConstants DEF RetryStep, TypeOK
  <2>3. Call(attempt + 1) BY <1>10 DEF RetryStep
  <2> QED BY <1>10, <2>2, <2>3, CallTyped DEF RetryStep, TypeOK, AtKnownStep
<1>11. CASE StepFails
  <2>1. cur \in Steps
      BY <1>11, UsableStep DEF StepFails, Threw, TypeOK, AtKnownStep
  <2> QED BY <1>11, <2>1, RowTyped DEF StepFails, Threw, Goto, RowStatus,
                                       branchVars, TypeOK, AtKnownStep
<1>12. CASE AfterHooksPass
    BY <1>12 DEF AfterHooksPass, Goto, branchVars, TypeOK, AtKnownStep
<1>13. CASE AfterHookFails
  <2>1. cur \in Steps
      BY <1>13, UsableStep DEF AfterHookFails, TypeOK, AtKnownStep
  <2> QED BY <1>13, <2>1, RowTyped DEF AfterHookFails, RowStatus, branchVars,
                                       TypeOK, AtKnownStep
<1>14. CASE FinishFailed
    BY <1>14, RowTyped DEF FinishFailed, branchVars, TypeOK, AtKnownStep
<1>15. ASSUME NEW s \in {"completed", "failed"}, Finish(s) PROVE TypeInv'
    BY <1>15 DEF Finish, branchVars, TypeOK, AtKnownStep
<1>16. CASE EngineThrows
    BY <1>16 DEF EngineThrows, branchVars, TypeOK, AtKnownStep
<1> QED BY <1>0, <1>1, <1>2, <1>3, <1>4, <1>5, <1>6, <1>7, <1>8, <1>9, <1>10,
           <1>11, <1>12, <1>13, <1>14, <1>15, <1>16 DEF Next, Walk

\* Every variable keeps its type: the attempt counter stays within the largest
\* retry limit of a definition and no row gets a status the table lacks.
THEOREM TypeCorrect == Spec => []TypeOK
<1>1. Init => TypeInv BY TypeInit
<1>2. TypeInv /\ [Next]_vars => TypeInv' BY TypeStep
<1>3. TypeInv => TypeOK BY DEF TypeInv
<1> QED BY <1>1, <1>2, <1>3, PTL DEF Spec

-----------------------------------------------------------------------------
(* The rows at the end.  Neither property is inductive: RowsInv says at    *)
(* every position what has already been settled, that only the step being  *)
(* executed is running, that a failed row is excused or is the failedStep, *)
(* and that a failedStep is set only on the way out; EndInv says by which  *)
(* way the loop was left.                                                  *)

Excused(s) == \/ StepOf(Flat, s).fallback # NoStep
              \/ StepOf(Flat, s).onError = "skip"

RowsInv ==
    /\ TypeInv
    /\ \A s \in Steps : row[s] = "running" =>
           \/ pc = "exec" /\ s = cur
           \/ pc = "thrown"
    /\ \A s \in AllIds(def) : row[s] = "failed" =>
           Excused(s) \/ failedStep = s
    /\ failedStep # NoStep => /\ row[failedStep] = "failed"
                             /\ pc \in {"end", "over", "thrown"}
                             /\ status \in {"running", "failed"}
    /\ status # "running" => pc = "over"
    /\ (pc = "over" /\ (status = "cancelled" \/ failedStep # NoStep)) =>
           \A s \in Steps : row[s] # "pending"
    /\ status = "completed" => failedStep = NoStep

LEMMA RowsInit == Init => RowsInv
<1> SUFFICES ASSUME Init PROVE RowsInv OBVIOUS
<1>1. TypeInv BY TypeInit
<1>2. \A s \in Steps : row[s] \in {"pending", "none"} BY DEF Init
<1>3. AllIds(def) \subseteq Steps BY <1>1, UsableStep DEF TypeInv, TypeOK
<1> QED BY <1>1, <1>2, <1>3 DEF Init, RowsInv

\* Cancelling what is pending settles every pending row and touches no other.
LEMMA CancelPendingRows ==
    ASSUME row' = CancelPending
    PROVE  \A s \in Steps : /\ row'[s] # "pending"
                            /\ row'[s] \in {"running", "failed"} =>
                                   row'[s] = row[s]
                            /\ row[s] = "failed" => row'[s] = "failed"
BY DEF CancelPending

\* Failing the current step on the way out of the loop keeps the invariant.
LEMMA RowsFailHere ==
    ASSUME RowsInv, TypeInv', cur \in AllIds(def),
           pc \in {"loop", "exec", "after"},
           row' = [row EXCEPT ![cur] = "failed"], failedStep' = cur,
           pc' = "end", UNCHANGED <<def, status, cur>>
    PROVE  RowsInv'
<1>1. cur \in Steps /\ AllIds(def) \subseteq Steps
    BY UsableStep DEF RowsInv, TypeInv, TypeOK
<1>2. \A s \in Steps : row'[s] = IF s = cur THEN "failed" ELSE row[s]
    BY <1>1 DEF RowsInv, TypeInv, TypeOK
<1>3. status = "running" /\ failedStep = NoStep BY DEF RowsInv
<1>4. \A s \in Steps : row'[s] # "running" BY <1>2 DEF RowsInv
<1>5. \A s \in AllIds(def) : row'[s] = "failed" => Excused(s) \/ s = cur
    BY <1>1, <1>2, <1>3, TraversalConstants DEF RowsInv
<1>6. \A s : Excused(s)' <=> Excused(s) BY DEF Excused, Flat
<1>7. AllIds(def') = AllIds(def) OBVIOUS
<1>8. row'[cur] = "failed" BY <1>1, <1>2
<1> QED BY <1>3, <1>4, <1>5, <1>6, <1>7, <1>8 DEF RowsInv

LEMMA RowsStep == RowsInv /\ [Next]_vars => RowsInv'
<1> SUFFICES ASSUME RowsInv, [Next]_vars PROVE RowsInv' OBVIOUS
<1>t. TypeInv' BY TypeStep DEF RowsInv
<1>i. AllIds(def) \subseteq Steps
    BY UsableStep DEF RowsInv, TypeInv, TypeOK
<1>r. row \in [Steps -> RowStatus \cup {"none"}]
    BY DEF RowsInv, TypeInv, TypeOK
<1>0. CASE UNCHANGED vars
    BY <1>0, <1>t DEF vars, branchVars, RowsInv, Excused, Flat
<1>1. CASE CancelRun \/ CancelExpires
    BY <1>1, <1>t DEF CancelRun, CancelExpires, branchVars, RowsInv, Excused,
                      Flat
<1>2. CASE StartHooksPass \/ StartHooksFail
    BY <1>2, <1>t DEF StartHooksPass, StartHooksFail, branchVars, RowsInv,
                      Excused, Flat
<1>3. CASE SeeCancel
    BY <1>3, <1>t, <1>i, CancelPendingRows
       DEF SeeCancel, branchVars, RowsInv, Excused, Flat
<1>4. CASE UnknownStep
    BY <1>4, <1>t DEF UnknownStep, branchVars, RowsInv, Excused, Flat
<1>5. CASE SkipStep
    BY <1>5, <1>t, <1>i, <1>r DEF SkipStep, AtStep, Goto, branchVars, RowsInv,
                                  Excused, Flat
<1>6. CASE BeforeHookFails
    BY <1>6, <1>t, RowsFailHere DEF BeforeHookFails, AtStep
<1>7. CASE BeginStep
    BY <1>7, <1>t, <1>i, <1>r DEF BeginStep, AtStep, RowsInv, Excused, Flat
<1>8. ASSUME NEW b \in Branches, BranchMoves(b) PROVE RowsInv'
    BY <1>8, <1>t DEF BranchMoves, BranchStep, BranchLeaves, RowsInv, Excused,
                      Flat
<1>9. ASSUME NEW c \in Steps \cup {NoStep}, StepReturns(c) PROVE RowsInv'
    BY <1>9, <1>t, <1>i, <1>r DEF StepReturns, branchVars, RowsInv, Excused,
                                  Flat
<1>10. CASE RetryStep
    BY <1>10, <1>t DEF RetryStep, RowsInv, Excused, Flat
<1>11. CASE StepFails
  <2>1. cur \in AllIds(def) /\ pc = "exec"
      BY <1>11 DEF StepFails, Threw, RowsInv, TypeInv, AtKnownStep
  <2>2. CASE failedStep' = cur /\ pc' = "end" /\ UNCHANGED cur
      BY <1>11, <1>t, <2>1, <2>2, RowsFailHere DEF StepFails
  <2>3. CASE Excused(cur) /\ UNCHANGED failedStep /\ pc' \in {"loop", "end"}
    <3>1. \A s \in Steps : row'[s] = IF s = cur THEN "failed" ELSE row[s]
        BY <1>11, <1>r DEF StepFails
    <3>2. status = "running" /\ failedStep = NoStep /\ status' = status
        BY <1>11, <2>1 DEF RowsInv, StepFails
    <3>3. \A s \in Steps : row'[s] # "running"
        BY <2>1, <3>1 DEF RowsInv
    <3>4. \A s : Excused(s)' <=> Excused(s)
        BY <1>11 DEF StepFails, Excused, Flat
    <3>5. \A s \in AllIds(def) : row'[s] = "failed" =>
              Excused(s) \/ failedStep = s
        BY <1>i, <2>3, <3>1 DEF RowsInv
    <3>6. AllIds(def') = AllIds(def) BY <1>11 DEF StepFails
    <3> QED BY <1>t, <2>3, <3>2, <3>3, <3>4, <3>5, <3>6 DEF RowsInv
  <2> QED BY <1>11, <2>2, <2>3 DEF StepFails, StepCur, Goto, Excused
<1>12. CASE AfterHooksPass
    BY <1>12, <1>t DEF AfterHooksPass, Goto, branchVars, RowsInv, Excused, Flat
<1>13. CASE AfterHookFails
  <2>1. cur \in AllIds(def)
      BY <1>13 DEF AfterHookFails, RowsInv, TypeInv, AtKnownStep
  <2> QED BY <1>13, <1>t, <2>1, RowsFailHere DEF AfterHookFails
<1>14. CASE FinishFailed
    BY <1>14, <1>t, <1>i, CancelPendingRows
       DEF FinishFailed, branchVars, RowsInv, TypeInv, TypeOK, Excused, Flat
<1>15. ASSUME NEW s \in {"completed", "failed"}, Finish(s) PROVE RowsInv'
    BY <1>15, <1>t DEF Finish, branchVars, RowsInv, Excused, Flat
<1>16. CASE EngineThrows
    BY <1>16, <1>t DEF EngineThrows, branchVars, RowsInv, Excused, Flat
<1> QED BY <1>0, <1>1, <1>2, <1>3, <1>4, <1>5, <1>6, <1>7, <1>8, <1>9, <1>10,
           <1>11, <1>12, <1>13, <1>14, <1>15, <1>16 DEF Next, Walk

\* Which end it was.  What processRun has done with the rows follows from how
\* it left the loop: through its start hooks, at the end of a path, at a failed
\* step or at a cancellation.
EndInv ==
    /\ pc = "start" => NotBegun
    /\ (pc = "end" /\ failedStep = NoStep) => PathEnded
    /\ pc = "over" =>
          \/ status = "failed" /\ failedStep = NoStep /\ NotBegun
          \/ status \in {"completed", "failed"} /\ failedStep = NoStep /\ PathEnded
          \/ status = "failed" /\ failedStep # NoStep
          \/ status = "cancelled" /\ failedStep = NoStep

\* Where the definition, the rows and the position stay, so do the two ends.
LEMMA EndsKept ==
    ASSUME UNCHANGED <<def, row, cur>>
    PROVE  (NotBegun <=> NotBegun') /\ (PathEnded <=> PathEnded')
BY DEF NotBegun, PathEnded

\* Leaving the loop because there is no next step ends a path.
LEMMA GotoEnds ==
    ASSUME TypeOK, def' = def, NEW s, Goto(s), pc' = "end"
    PROVE  PathEnded'
<1>1. cur' = NoStep BY DEF Goto
<1>2. NoStep \notin AllIds(def) BY UsableStep, TraversalConstants DEF TypeOK
<1> QED BY <1>1, <1>2 DEF PathEnded

LEMMA EndStep == RowsInv /\ EndInv /\ [Next]_vars => EndInv'
<1> SUFFICES ASSUME RowsInv, EndInv, [Next]_vars PROVE EndInv' OBVIOUS
<1>t. TypeOK BY DEF RowsInv, TypeInv
<1>0. CASE UNCHANGED <<def, row, cur, pc, status, failedStep>>
    BY <1>0, EndsKept DEF EndInv
<1>1. CASE \/ CancelRun \/ CancelExpires \/ UNCHANGED vars
           \/ \E b \in Branches : BranchMoves(b)
    BY <1>0, <1>1 DEF CancelRun, CancelExpires, vars, BranchMoves, BranchStep,
                      BranchLeaves
<1>2. CASE StartHooksPass BY <1>2 DEF StartHooksPass, EndInv
<1>3. CASE StartHooksFail
  <2>1. NotBegun' /\ failedStep' = NoStep
      BY <1>3, EndsKept DEF StartHooksFail, EndInv, RowsInv
  <2> QED BY <1>3, <2>1 DEF StartHooksFail, EndInv
<1>4. CASE SeeCancel BY <1>4 DEF SeeCancel, EndInv, RowsInv
<1>5. CASE UnknownStep
    BY <1>5 DEF UnknownStep, EndInv, PathEnded
<1>6. CASE SkipStep
  <2>1. pc' = "end" => PathEnded' BY <1>6, <1>t, GotoEnds DEF SkipStep
  <2> QED BY <1>6, <2>1 DEF SkipStep, Goto, EndInv
<1>7. CASE BeforeHookFails \/ AfterHookFails
  <2>1. cur \in AllIds(def)
      BY <1>7 DEF BeforeHookFails, AtStep, AfterHookFails, RowsInv, TypeInv,
                  AtKnownStep
  <2>2. cur # NoStep BY <1>t, <2>1, UsableStep, TraversalConstants DEF TypeOK
  <2> QED BY <1>7, <2>2 DEF BeforeHookFails, AfterHookFails, EndInv
<1>8. CASE BeginStep BY <1>8 DEF BeginStep, EndInv
<1>9. CASE \E c \in Steps \cup {NoStep} : StepReturns(c)
    BY <1>9 DEF StepReturns, EndInv
<1>10. CASE RetryStep BY <1>10 DEF RetryStep, Threw, EndInv
<1>11. CASE StepFails
  <2>1. CASE failedStep' = cur /\ pc' = "end"
    <3>1. cur \in AllIds(def)
        BY <1>11 DEF StepFails, Threw, RowsInv, TypeInv, AtKnownStep
    <3>2. cur # NoStep BY <1>t, <3>1, UsableStep, TraversalConstants DEF TypeOK
    <3> QED BY <2>1, <3>2 DEF EndInv
  <2>2. ASSUME NEW s, Goto(s) PROVE EndInv'
    <3>1. pc' = "end" => PathEnded' BY <1>11, <1>t, <2>2, GotoEnds DEF StepFails
    <3> QED BY <2>2, <3>1 DEF Goto, EndInv
  <2> QED BY <1>11, <2>1, <2>2 DEF StepFails
<1>12. CASE AfterHooksPass
  <2>1. pc' = "end" => PathEnded' BY <1>12, <1>t, GotoEnds DEF AfterHooksPass
  <2> QED BY <1>12, <2>1 DEF AfterHooksPass, Goto, EndInv
<1>13. CASE FinishFailed BY <1>13 DEF FinishFailed, EndInv
<1>14. CASE \E s \in {"completed", "failed"} : Finish(s)
  <2>1. UNCHANGED <<def, row, cur>> /\ pc = "end" /\ failedStep = NoStep
      BY <1>14 DEF Finish
  <2>2. PathEnded' BY <2>1, EndsKept DEF EndInv
  <2> QED BY <1>14, <2>1, <2>2 DEF Finish, EndInv
<1>15. CASE EngineThrows BY <1>15 DEF EngineThrows, EndInv
<1> QED BY <1>1, <1>2, <1>3, <1>4, <1>5, <1>6, <1>7, <1>8, <1>9, <1>10, <1>11,
           <1>12, <1>13, <1>14, <1>15 DEF Next, Walk

LEMMA EndInit == Init => EndInv
BY UsableStep DEF Init, EndInv, NotBegun

LEMMA EndsAlways == Spec => [](RowsInv /\ EndInv)
<1>1. Init => RowsInv /\ EndInv BY RowsInit, EndInit
<1>2. (RowsInv /\ EndInv) /\ [Next]_vars => (RowsInv /\ EndInv)'
    BY RowsStep, EndStep
<1> QED BY <1>1, <1>2, PTL DEF Spec

\* However processRun returns, no row is left running.  Rows are left pending
\* when the start hooks failed the run, which then has begun no step, and when
\* the run came to the end of its path, which need not lead through every step;
\* a run that was cancelled or that a step failed leaves none.
THEOREM RowsSettled == Spec => []EndedRowsSettled
<1>1. RowsInv /\ EndInv => EndedRowsSettled
    BY DEF RowsInv, EndInv, EndedRowsSettled
<1> QED BY <1>1, EndsAlways, PTL

\* A failed step either fails its run, which names it, or is one whose
\* fallback or onError excuses it.  A failed run that names no step was failed
\* by hooks: before its first step, or after the last one of its path.
THEOREM FailuresNeverLost == Spec => []FailuresAccounted
<1>1. RowsInv /\ EndInv => FailuresAccounted
  <2> SUFFICES ASSUME RowsInv, EndInv PROVE FailuresAccounted OBVIOUS
  <2>1. AllIds(def) \subseteq Steps
      BY UsableStep DEF RowsInv, TypeInv, TypeOK
  <2>2. /\ failedStep # NoStep =>
               row[failedStep] = "failed" /\ (pc = "over" => status = "failed")
        /\ status \in {"completed", "failed"} =>
               \A s \in AllIds(def) : row[s] = "failed" =>
                   \/ s = failedStep
                   \/ StepOf(Flat, s).fallback # NoStep
                   \/ StepOf(Flat, s).onError = "skip"
      BY <2>1 DEF RowsInv, EndInv, Excused
  <2>3. /\ status = "failed" => failedStep # NoStep \/ NotBegun \/ PathEnded
        /\ status = "completed" => PathEnded
      BY DEF RowsInv, EndInv
  <2> QED BY <2>2, <2>3 DEF FailuresAccounted
<1> QED BY <1>1, EndsAlways, PTL

-----------------------------------------------------------------------------
(* Parallel steps.  A branch promise that is done stays so until the same  *)
(* attempt of the same step is called again, and by then the row no longer *)
(* says completed.                                                         *)

WaitsForAll(s) == StepOf(Flat, s).kind = "parallel" /\ StepOf(Flat, s).wait = "all"

AllDone(s, n) ==
    \A b \in DOMAIN StepOf(Flat, s).branches : thr[<<s, n, b>>] = "done"

BranchInv ==
    /\ TypeInv
    /\ pc = "exec" => row[cur] = "running"
    /\ (pc = "exec" /\ verdict = "done" /\ WaitsForAll(cur)) =>
           AllDone(cur, attempt)
    /\ AllBranchesDone

\* The promises of a parallel step of the definition are among Branches.
LEMMA PromiseKnown ==
    ASSUME TypeOK, NEW s \in AllIds(def), StepOf(Flat, s).kind = "parallel",
           NEW n \in 0 .. MaxRetries, NEW b \in DOMAIN StepOf(Flat, s).branches
    PROVE  <<s, n, b>> \in Branches
<1>1. s \in Steps /\ b \in 1 .. MaxBranches
    BY UsableStep DEF TypeOK, Flat
<1> QED BY <1>1 DEF Branches

\* A step that completes no row and undoes no promise of a completed one.
LEMMA DoneKept ==
    ASSUME BranchInv, def' = def,
           \A s \in Steps : row'[s] = "completed" =>
               /\ row[s] = "completed"
               /\ \A b \in Branches :
                     b[1] = s /\ thr[b] = "done" => thr'[b] = "done"
    PROVE  AllBranchesDone'
<1>1. SUFFICES ASSUME NEW s \in AllIds(def), WaitsForAll(s), row'[s] = "completed"
               PROVE  \E n \in 0 .. MaxRetries :
                         \A b \in DOMAIN StepOf(Flat, s).branches :
                            thr'[<<s, n, b>>] = "done"
    BY DEF AllBranchesDone, WaitsForAll, Flat
<1>2. TypeOK /\ s \in Steps
    BY UsableStep DEF BranchInv, TypeInv, TypeOK
<1>3. PICK n \in 0 .. MaxRetries : AllDone(s, n)
    BY <1>1, <1>2 DEF BranchInv, AllBranchesDone, WaitsForAll, AllDone
<1>4. ASSUME NEW b \in DOMAIN StepOf(Flat, s).branches
      PROVE  thr'[<<s, n, b>>] = "done"
  <2>1. <<s, n, b>> \in Branches
      BY <1>1, <1>2, PromiseKnown DEF WaitsForAll
  <2>2. thr[<<s, n, b>>] = "done"
      BY <1>3 DEF AllDone
  <2> QED BY <1>1, <1>2, <2>1, <2>2
<1> QED BY <1>4

\* Steps of the walk that leave the promises alone and complete no row.
LEMMA BranchWalk ==
    ASSUME BranchInv, TypeInv', UNCHANGED <<def, branchVars>>, pc' # "exec",
           \A s \in Steps : row'[s] = "completed" => row[s] = "completed"
    PROVE  BranchInv'
<1>1. AllBranchesDone' BY DoneKept DEF branchVars
<1> QED BY <1>1 DEF BranchInv

\* Calling executeStep starts the promises of the running step only.
LEMMA BranchCall ==
    ASSUME BranchInv, TypeInv', NEW n \in 0 .. MaxRetries, Call(n),
           cur \in Steps, UNCHANGED <<def, cur>>, row'[cur] = "running",
           \A s \in Steps \ {cur} : row'[s] = row[s]
    PROVE  BranchInv'
<1>1. verdict' = "none"
    BY DEF Call
<1>2. \A b \in Branches : b[1] # cur => thr'[b] = thr[b]
    BY DEF Call
<1>3. AllBranchesDone'
    BY <1>2, DoneKept
<1> QED BY <1>1, <1>3 DEF BranchInv

\* A promise settles: the verdict is done only when it was the last.
LEMMA BranchSettles ==
    ASSUME BranchInv, TypeInv', NEW b \in Branches, thr[b] = "live",
           NEW v \in {"done", "failed"}, SetBranch(b, v),
           UNCHANGED <<def, row, pc, cur, attempt>>
    PROVE  BranchInv'
<1>1. \A o \in Branches : thr[o] = "done" => thr'[o] = "done"
    BY DEF SetBranch
<1>2. AllBranchesDone'
    BY <1>1, DoneKept
<1>3. ASSUME pc = "exec", verdict' = "done", WaitsForAll(cur)
      PROVE  \A c \in DOMAIN StepOf(Flat, cur).branches :
                thr'[<<cur, attempt, c>>] = "done"
  <2>1. TypeOK /\ cur \in AllIds(def) /\ attempt \in 0 .. MaxRetries
      BY <1>3 DEF BranchInv, TypeInv, AtKnownStep, TypeOK
  <2> SUFFICES ASSUME NEW c \in DOMAIN StepOf(Flat, cur).branches
               PROVE  thr'[<<cur, attempt, c>>] = "done"
      OBVIOUS
  <2>2. <<cur, attempt, c>> \in Branches
      BY <1>3, <2>1, PromiseKnown DEF WaitsForAll
  <2>3. CASE verdict = "done"
      BY <1>1, <1>3, <2>2, <2>3 DEF BranchInv, AllDone
  <2>4. CASE verdict # "done"
    <3>1. b \in Awaited /\ Settle(b, v) = "done"
        BY <1>3, <2>4 DEF SetBranch
    <3>2. /\ v = "done" /\ \A o \in Awaited \ {b} : thr[o] = "done"
        BY <1>3, <3>1 DEF Settle, WaitsForAll, StepCur
    <3>3. <<cur, attempt, c>> \in Awaited
        BY <1>3, <2>2 DEF Awaited, StepCur
    <3>4. thr'[b] = "done"
        BY <2>1, <3>2 DEF SetBranch, TypeOK
    <3> QED BY <1>1, <2>2, <3>2, <3>3, <3>4
  <2> QED BY <2>3, <2>4
<1>4. (WaitsForAll(cur) <=> WaitsForAll(cur)') /\ Flat' = Flat
    BY DEF WaitsForAll, Flat
<1>5. (pc = "exec" /\ verdict = "done" /\ WaitsForAll(cur))' => AllDone(cur, attempt)'
    BY <1>3, <1>4 DEF AllDone
<1> QED BY <1>2, <1>5 DEF BranchInv

LEMMA BranchStepHolds == BranchInv /\ [Next]_vars => BranchInv'
<1> SUFFICES ASSUME BranchInv, [Next]_vars PROVE BranchInv' OBVIOUS
<1>t. TypeInv /\ TypeInv' BY TypeStep DEF BranchInv
<1>r. row \in [Steps -> RowStatus \cup {"none"}]
    BY <1>t DEF TypeInv, TypeOK
<1>k. pc \in {"exec", "after"} => cur \in AllIds(def) /\ cur \in Steps
    BY <1>t, UsableStep DEF TypeInv, TypeOK, AtKnownStep
<1>0. CASE UNCHANGED <<def, row, pc, cur, attempt, branchVars>>
  <2>1. AllBranchesDone' BY <1>0, DoneKept DEF branchVars
  <2>2. /\ WaitsForAll(cur)' <=> WaitsForAll(cur)
        /\ AllDone(cur, attempt)' <=> AllDone(cur, attempt)
      BY <1>0 DEF WaitsForAll, AllDone, Flat, branchVars
  <2> QED BY <1>0, <1>t, <2>1, <2>2 DEF BranchInv, branchVars
<1>1. CASE CancelRun \/ CancelExpires \/ UNCHANGED vars
    BY <1>0, <1>1 DEF CancelRun, CancelExpires, vars, branchVars
<1>2. CASE \/ StartHooksPass \/ StartHooksFail \/ UnknownStep \/ EngineThrows
           \/ AfterHooksPass \/ \E s \in {"completed", "failed"} : Finish(s)
    BY <1>2, <1>t, BranchWalk DEF StartHooksPass, StartHooksFail, UnknownStep,
       EngineThrows, AfterHooksPass, Goto, Finish
<1>3. CASE SeeCancel \/ FinishFailed
    BY <1>3, <1>t, BranchWalk DEF SeeCancel, FinishFailed, CancelPending
<1>4. CASE SkipStep \/ BeforeHookFails \/ AfterHookFails \/ StepFails
    BY <1>4, <1>t, <1>r, BranchWalk DEF SkipStep, BeforeHookFails, AfterHookFails,
       StepFails, Goto
<1>5. CASE BeginStep
  <2>1. cur \in Steps
      BY <1>5, <1>t, UsableStep DEF BeginStep, AtStep, TypeInv, TypeOK
  <2>2. /\ row'[cur] = "running" /\ \A s \in Steps \ {cur} : row'[s] = row[s]
      BY <1>5, <1>r, <2>1 DEF BeginStep
  <2>3. Call(0) /\ 0 \in 0 .. MaxRetries /\ UNCHANGED <<def, cur>>
      BY <1>5, TraversalConstants DEF BeginStep
  <2> QED BY <1>t, <2>1, <2>2, <2>3, BranchCall
<1>6. CASE RetryStep
  <2>1. Call(attempt + 1) /\ UNCHANGED <<def, cur, row>> /\ pc = "exec"
      BY <1>6 DEF RetryStep, Threw
  <2>2. attempt + 1 \in 0 .. MaxRetries
      BY <1>t, <2>1 DEF TypeInv, TypeOK, Call
  <2> QED BY <1>t, <1>k, <2>1, <2>2, BranchCall DEF BranchInv
<1>7. ASSUME NEW c \in Steps \cup {NoStep}, StepReturns(c) PROVE BranchInv'
  <2>1. /\ pc = "exec" /\ pc' = "after" /\ row' = [row EXCEPT ![cur] = "completed"]
        /\ StepCur.kind = "parallel" => verdict = "done"
        /\ def' = def /\ thr' = thr
      BY <1>7 DEF StepReturns, branchVars
  <2>2. attempt \in 0 .. MaxRetries
      BY <1>t DEF TypeInv, TypeOK
  <2>3. WaitsForAll(cur) => AllDone(cur, attempt)
      BY <2>1 DEF BranchInv, WaitsForAll, StepCur
  <2>4. \A s \in Steps : row'[s] = IF s = cur THEN "completed" ELSE row[s]
      BY <1>r, <2>1
  <2>5. ASSUME NEW s \in AllIds(def), WaitsForAll(s), row'[s] = "completed"
        PROVE  \E n \in 0 .. MaxRetries : AllDone(s, n)
    <3>1. s \in Steps
        BY <1>t, UsableStep DEF TypeInv, TypeOK
    <3>2. CASE s = cur
        BY <2>2, <2>3, <2>5, <3>2
    <3>3. CASE s # cur
        BY <2>4, <2>5, <3>1, <3>3 DEF BranchInv, AllBranchesDone, WaitsForAll, AllDone
    <3> QED BY <3>2, <3>3
  <2>6. AllBranchesDone'
      BY <2>1, <2>5 DEF AllBranchesDone, WaitsForAll, AllDone, Flat
  <2> QED BY <1>t, <2>1, <2>6 DEF BranchInv
<1>8. ASSUME NEW b \in Branches, BranchMoves(b) PROVE BranchInv'
  <2>1. /\ thr[b] = "live" /\ UNCHANGED <<def, row, pc, cur, attempt>>
        /\ \/ UNCHANGED <<thr, verdict>>
           \/ \E v \in {"done", "failed"} : SetBranch(b, v)
      BY <1>8 DEF BranchMoves, BranchStep, BranchLeaves
  <2>2. CASE UNCHANGED <<thr, verdict>>
    <3>1. AllBranchesDone' BY <2>1, <2>2, DoneKept
    <3>2. /\ WaitsForAll(cur)' <=> WaitsForAll(cur)
          /\ AllDone(cur, attempt)' <=> AllDone(cur, attempt)
        BY <2>1, <2>2 DEF WaitsForAll, AllDone, Flat
    <3> QED BY <1>t, <2>1, <2>2, <3>1, <3>2 DEF BranchInv
  <2>3. CASE \E v \in {"done", "failed"} : SetBranch(b, v)
      BY <1>t, <2>1, <2>3, BranchSettles
  <2> QED BY <2>1, <2>2, <2>3
<1> QED BY <1>1, <1>2, <1>3, <1>4, <1>5, <1>6, <1>7, <1>8 DEF Next, Walk

\* Promise.all in the parallel case of executeStep: a parallel step with
\* waitMode "all" has a completed row only if every branch of one and the same
\* attempt ran to its end, whatever branches of other attempts are still doing.
THEOREM WaitAllWaits == Spec => []AllBranchesDone
<1>1. Init => BranchInv
  <2> SUFFICES ASSUME Init PROVE AllBranchesDone /\ pc = "start"
      BY TypeInit DEF BranchInv
  <2>1. AllIds(def) \subseteq Steps BY UsableStep DEF Init
  <2> QED BY <2>1 DEF Init, AllBranchesDone
<1>2. BranchInv => AllBranchesDone BY DEF BranchInv
<1> QED BY <1>1, <1>2, BranchStepHolds, PTL DEF Spec

-----------------------------------------------------------------------------
(* The path of the walk.  No row is begun twice and no body repeated when  *)
(* the steps the walk can reach are ordered, so that every move of the     *)
(* engine goes forward.                                                    *)

\* o numbers the entry and whatever is reached from it, in ascending order.
IsOrder(d, o) ==
    /\ DOMAIN o \subseteq AllIds(d)
    /\ d.entry \in DOMAIN o
    /\ \A s \in DOMAIN o :
          /\ o[s] \in Nat
          /\ \A t \in LeadsTo(d, s) \cap AllIds(d) :
                t \in DOMAIN o /\ o[s] < o[t]

Ordered(d) == \E o : IsOrder(d, o)

-----------------------------------------------------------------------------
(* The search for cycles.  A definition whose moves the validator saw is   *)
(* ordered: number a step by the longest walk that leads to it from the    *)
(* entry.  hasCycle bounds these walks.                                    *)

LEMMA LeastNatural ==
    ASSUME NEW T \in SUBSET Nat, T # {}
    PROVE  \E x \in T : \A y \in T : x <= y
<1> DEFINE R == OpToRel(<, Nat)
<1>1. IsWellFoundedOn(R, Nat)
    BY NatLessThanWellFounded
<1>2. \A x, y \in Nat : y < x => <<y, x>> \in R
    BY DEF OpToRel
<1> HIDE DEF R
<1>3. PICK x \in T : \A y \in T : ~ (<<y, x>> \in R)
    BY <1>1, WFMin
<1>4. ASSUME NEW y \in T PROVE x <= y
  <2>1. x \in Nat /\ y \in Nat /\ ~(y < x) BY <1>2, <1>3
  <2> QED BY <2>1
<1> QED BY <1>4

LEMMA GreatestNatural ==
    ASSUME NEW n \in Nat, NEW T \in SUBSET (0 .. n), T # {}
    PROVE  \E x \in T : \A y \in T : y <= x
<1> DEFINE U == {n - k : k \in T}
<1>1. U \in SUBSET Nat
  <2> SUFFICES ASSUME NEW k \in T PROVE n - k \in Nat OBVIOUS
  <2>1. k \in 0 .. n OBVIOUS
  <2> QED BY <2>1
<1>2. U # {} OBVIOUS
<1>3. PICK u \in U : \A v \in U : u <= v
  <2> HIDE DEF U
  <2> QED BY <1>1, <1>2, LeastNatural
<1>4. PICK x \in T : u = n - x
    BY <1>3
<1>5. ASSUME NEW y \in T PROVE y <= x
  <2>1. n - y \in U OBVIOUS
  <2>2. n - x <= n - y BY <1>3, <1>4, <2>1
  <2>3. x \in 0 .. n /\ y \in 0 .. n OBVIOUS
  <2> QED BY <2>2, <2>3
<1> QED BY <1>5

\* A walk of n edges from the entry to s.
IsWalk(d, n, w) ==
    /\ w \in [0 .. n -> AllIds(d)]
    /\ w[0] = d.entry
    /\ \A i \in 1 .. n : <<w[i - 1], w[i]>> \in buildAdjacencyMap(d)

WalkTo(d, n, s) == \E w : IsWalk(d, n, w) /\ w[n] = s

\* The validator accepts no definition with a walk as long as it has steps.
LEMMA WalksAreShort ==
    ASSUME NEW d \in Definitions, validateDefinition(d), NEW n \in Nat, NEW s,
           WalkTo(d, n, s)
    PROVE  n \in 0 .. Cardinality(AllIds(d))
<1> DEFINE N == Cardinality(AllIds(d))
<1>1. N \in Nat
    BY DefinitionsUsable
<1>2. PICK w : IsWalk(d, n, w)
    BY DEF WalkTo
<1>3. ~hasCycle(buildAdjacencyMap(d), d.entry, AllIds(d))
    BY DEF validateDefinition
<1> HIDE DEF N
<1>4. ASSUME N < n PROVE FALSE
  <2> DEFINE v == [i \in 0 .. N |-> w[i]]
  <2>1. \A i \in 0 .. N : i \in 0 .. n
      BY <1>1, <1>4
  <2>2. v \in [0 .. N -> AllIds(d)]
      BY <1>2, <2>1 DEF IsWalk
  <2>3. v[0] = d.entry
      BY <1>1, <1>2 DEF IsWalk
  <2>4. ASSUME NEW i \in 1 .. N PROVE <<v[i - 1], v[i]>> \in buildAdjacencyMap(d)
    <3>1. i \in 1 .. n /\ i \in 0 .. N /\ i - 1 \in 0 .. N
        BY <1>1, <1>4
    <3> QED BY <1>2, <3>1 DEF IsWalk
  <2> HIDE DEF v
  <2>5. hasCycle(buildAdjacencyMap(d), d.entry, AllIds(d))
      BY <2>2, <2>3, <2>4 DEF hasCycle, N
  <2> QED BY <1>3, <2>5
<1> QED BY <1>1, <1>4 DEF N

\* A walk goes on along an edge.
LEMMA WalkExtends ==
    ASSUME NEW d, NEW n \in Nat, NEW s, WalkTo(d, n, s), NEW t \in AllIds(d),
           <<s, t>> \in buildAdjacencyMap(d)
    PROVE  WalkTo(d, n + 1, t)
<1>1. PICK w : IsWalk(d, n, w) /\ w[n] = s
    BY DEF WalkTo
<1> DEFINE v == [i \in 0 .. n + 1 |-> IF i = n + 1 THEN t ELSE w[i]]
<1>2. v \in [0 .. n + 1 -> AllIds(d)]
  <2> SUFFICES ASSUME NEW i \in 0 .. n + 1, i # n + 1 PROVE w[i] \in AllIds(d)
      OBVIOUS
  <2>1. i \in 0 .. n OBVIOUS
  <2> QED BY <1>1, <2>1 DEF IsWalk
<1>3. v[0] = d.entry
  <2>1. 0 \in 0 .. n + 1 /\ 0 # n + 1 OBVIOUS
  <2> QED BY <1>1, <2>1 DEF IsWalk
<1>4. ASSUME NEW i \in 1 .. n + 1 PROVE <<v[i - 1], v[i]>> \in buildAdjacencyMap(d)
  <2>1. i \in 0 .. n + 1 /\ i - 1 \in 0 .. n + 1 /\ i - 1 # n + 1
      OBVIOUS
  <2>2. CASE i = n + 1
    <3>1. i - 1 = n BY <2>2
    <3> QED BY <1>1, <2>1, <2>2, <3>1
  <2>3. CASE i # n + 1
    <3>1. i \in 1 .. n BY <2>3
    <3> QED BY <1>1, <2>1, <2>3, <3>1 DEF IsWalk
  <2> QED BY <2>2, <2>3
<1>5. v[n + 1] = t
  <2>1. n + 1 \in 0 .. n + 1 OBVIOUS
  <2> QED BY <2>1
<1> HIDE DEF v
<1> QED BY <1>2, <1>3, <1>4, <1>5 DEF WalkTo, IsWalk

\* The search of validateDefinition does what it is for wherever it sees every
\* move of the engine: the steps of such a definition can be numbered so that
\* the engine only ever moves forward.
THEOREM SeenIsOrdered ==
    ASSUME NEW d \in Seen, validateDefinition(d)
    PROVE  Ordered(d)
<1> DEFINE N == Cardinality(AllIds(d))
           Lengths(s) == {n \in 0 .. N : WalkTo(d, n, s)}
           Longest(s) == CHOOSE n \in Lengths(s) : \A m \in Lengths(s) : m <= n
           R == {s \in AllIds(d) : Lengths(s) # {}}
           o == [s \in R |-> Longest(s)]
<1>1. d \in Definitions /\ EdgesSeen(d)
    BY DEF Seen
<1>2. N \in Nat /\ d.entry \in AllIds(d)
    BY <1>1, DefinitionsUsable DEF validateDefinition, TargetsExist
<1> HIDE DEF N
<1>3. \A n \in Nat : \A s : WalkTo(d, n, s) => n \in Lengths(s)
    BY <1>1, WalksAreShort DEF N
<1>4. ASSUME NEW s, Lengths(s) # {}
      PROVE  Longest(s) \in Lengths(s) /\ \A m \in Lengths(s) : m <= Longest(s)
  <2>1. Lengths(s) \in SUBSET (0 .. N) OBVIOUS
  <2> HIDE DEF Lengths
  <2>2. \E n \in Lengths(s) : \A m \in Lengths(s) : m <= n
      BY <1>2, <1>4, <2>1, GreatestNatural
  <2> QED BY <2>2
<1>5. d.entry \in R
  <2> DEFINE w == [i \in 0 .. 0 |-> d.entry]
  <2>1. w \in [0 .. 0 -> AllIds(d)] /\ w[0] = d.entry
      BY <1>2
  <2>2. \A i \in 1 .. 0 : <<w[i - 1], w[i]>> \in buildAdjacencyMap(d)
      OBVIOUS
  <2> HIDE DEF w
  <2>3. WalkTo(d, 0, d.entry)
      BY <2>1, <2>2 DEF WalkTo, IsWalk
  <2>4. 0 \in Lengths(d.entry)
      BY <1>3, <2>3
  <2> QED BY <1>2, <2>4
<1>6. ASSUME NEW s \in R, NEW t \in LeadsTo(d, s) \cap AllIds(d)
      PROVE  t \in R /\ Longest(s) < Longest(t)
  <2>1. s \in AllIds(d) /\ Lengths(s) # {}
      OBVIOUS
  <2>2. Longest(s) \in 0 .. N /\ WalkTo(d, Longest(s), s)
      BY <1>4, <2>1
  <2>3. <<s, t>> \in buildAdjacencyMap(d)
      BY <1>1, <2>1 DEF EdgesSeen
  <2> HIDE DEF Longest, Lengths
  <2>4. Longest(s) \in Nat
      BY <1>2, <2>2
  <2>5. WalkTo(d, Longest(s) + 1, t)
      BY <2>2, <2>3, <2>4, WalkExtends
  <2>6. Longest(s) + 1 \in Lengths(t)
      BY <1>3, <2>4, <2>5
  <2>7. Longest(t) \in Lengths(t) /\ Longest(s) + 1 <= Longest(t)
      BY <1>4, <2>6
  <2>8. Longest(t) \in Nat
      BY <1>2, <2>7 DEF Lengths
  <2> QED BY <2>4, <2>6, <2>7, <2>8
<1>7. \A s \in R : Longest(s) \in Nat
    BY <1>2, <1>4
<1> HIDE DEF Longest
<1>8. IsOrder(d, o)
    BY <1>5, <1>6, <1>7 DEF IsOrder
<1> QED BY <1>8 DEF Ordered

-----------------------------------------------------------------------------
(* The walk of an ordered definition.                                      *)

OrderOf(d) == CHOOSE o : IsOrder(d, o)

Settled(s) == row[s] \in {"completed", "failed", "skipped", "cancelled"}

Behind(s) == /\ s \in DOMAIN OrderOf(def) /\ cur \in DOMAIN OrderOf(def)
             /\ OrderOf(def)[s] < OrderOf(def)[cur]

\* Settled steps lie behind the walk.
Fresh == pc = "start" => cur = def.entry /\ \A s \in Steps : ~Settled(s)
LoopPath ==
    pc = "loop" /\ cur \in AllIds(def) =>
        /\ cur \in DOMAIN OrderOf(def)
        /\ \A s \in Steps : Settled(s) => Behind(s)
StepPath ==
    pc \in {"exec", "after"} =>
        /\ cur \in DOMAIN OrderOf(def)
        /\ \A s \in Steps : Settled(s) /\ s # cur => Behind(s)
RowOfStep ==
    /\ pc = "exec" => row[cur] = "running"
    /\ pc = "after" => row[cur] = "completed" /\ chosen \in Outcomes(StepCur)

PathInv ==
    /\ TypeInv /\ validateDefinition(def)
    /\ Fresh /\ LoopPath /\ StepPath /\ RowOfStep

LEMMA OrderKnown ==
    ASSUME Ordered(def)
    PROVE  IsOrder(def, OrderOf(def))
BY DEF Ordered, OrderOf

\* Leaving a step for one it leads to, when only the left one was settled.
LEMMA PathMoves ==
    ASSUME Ordered(def), PathInv, TypeInv', cur \in DOMAIN OrderOf(def),
           \A s \in Steps : Settled(s) /\ s # cur => Behind(s),
           NEW t \in LeadsTo(def, cur), Goto(t), def' = def,
           \A s \in Steps : s # cur => row'[s] = row[s]
    PROVE  PathInv'
<1> DEFINE o == OrderOf(def)
<1>1. IsOrder(def, o) BY OrderKnown DEF PathInv, TypeInv
<1> HIDE DEF o
<1>2. pc' \in {"loop", "end"} /\ cur' = t BY DEF Goto
<1>3. ASSUME t \in AllIds(def), NEW s \in Steps, Settled(s)'
      PROVE  s \in DOMAIN o /\ t \in DOMAIN o /\ o[s] < o[t]
  <2>1. t \in DOMAIN o /\ o[cur] < o[t] /\ o[cur] \in Nat /\ o[t] \in Nat
      BY <1>1, <1>3 DEF IsOrder, o
  <2>2. CASE s = cur
      BY <2>1, <2>2 DEF o
  <2>3. CASE s # cur
    <3>1. Behind(s) BY <1>3, <2>3 DEF Settled
    <3>2. s \in DOMAIN o /\ o[s] < o[cur] /\ o[s] \in Nat
        BY <1>1, <3>1 DEF Behind, IsOrder, o
    <3> QED BY <2>1, <3>2
  <2> QED BY <2>2, <2>3
<1>4. t \in AllIds(def) => t \in DOMAIN o
    BY <1>1 DEF IsOrder, o
<1>5. LoopPath'
    BY <1>2, <1>3, <1>4 DEF LoopPath, Behind, o
<1> QED BY <1>2, <1>5 DEF PathInv, Fresh, StepPath, RowOfStep

\* Outside the loop the path makes no demands.
LEMMA PathEnds ==
    ASSUME PathInv, TypeInv', def' = def, pc' \in {"end", "over", "thrown"}
    PROVE  PathInv'
BY DEF PathInv, Fresh, LoopPath, StepPath, RowOfStep

\* Staying at a step, other rows unchanged.
LEMMA PathStays ==
    ASSUME PathInv, TypeInv', UNCHANGED <<def, cur>>,
           cur \in DOMAIN OrderOf(def), pc' \in {"exec", "after"},
           \A s \in Steps : Settled(s) /\ s # cur => Behind(s),
           \A s \in Steps : s # cur => row'[s] = row[s],
           RowOfStep'
    PROVE  PathInv'
<1>1. \A s \in Steps : Settled(s)' /\ s # cur => Behind(s)'
    BY DEF Settled, Behind
<1>2. StepPath'
    BY <1>1 DEF StepPath
<1> QED BY <1>2 DEF PathInv, Fresh, LoopPath

LEMMA PathStep == Ordered(def) /\ PathInv /\ [Next]_vars => PathInv'
<1> SUFFICES ASSUME Ordered(def), PathInv, [Next]_vars PROVE PathInv' OBVIOUS
<1>t. TypeInv /\ TypeInv' BY TypeStep DEF PathInv
<1>r. row \in [Steps -> RowStatus \cup {"none"}]
    BY <1>t DEF TypeInv, TypeOK
<1>k. pc \in {"exec", "after"} => cur \in AllIds(def) /\ cur \in Steps
    BY <1>t, UsableStep DEF TypeInv, TypeOK, AtKnownStep
<1>l. AtStep => /\ cur \in Steps /\ cur \in DOMAIN OrderOf(def)
                /\ \A s \in Steps : Settled(s) /\ s # cur => Behind(s)
    BY <1>t, UsableStep DEF AtStep, PathInv, LoopPath, TypeInv, TypeOK
<1>e. pc \in {"exec", "after"} =>
          /\ cur \in DOMAIN OrderOf(def)
          /\ \A s \in Steps : Settled(s) /\ s # cur => Behind(s)
    BY DEF PathInv, StepPath
<1>0. CASE UNCHANGED <<def, row, pc, cur, chosen>>
    BY <1>0, <1>t DEF PathInv, Fresh, LoopPath, StepPath, RowOfStep, Settled,
       Behind, StepCur, Flat
<1>1. CASE CancelRun \/ CancelExpires \/ RetryStep \/ UNCHANGED vars
    BY <1>0, <1>1 DEF CancelRun, CancelExpires, RetryStep, vars
<1>2. ASSUME NEW b \in Branches, BranchMoves(b) PROVE PathInv'
    BY <1>0, <1>2 DEF BranchMoves, BranchStep, BranchLeaves
<1>3. CASE \/ StartHooksFail \/ UnknownStep \/ EngineThrows \/ SeeCancel
           \/ BeforeHookFails \/ AfterHookFails \/ FinishFailed
           \/ \E s \in {"completed", "failed"} : Finish(s)
    BY <1>3, <1>t, PathEnds DEF StartHooksFail, UnknownStep, EngineThrows, SeeCancel,
       BeforeHookFails, AfterHookFails, FinishFailed, Finish
<1>4. CASE StartHooksPass
  <2>1. /\ pc = "start" /\ pc' = "loop" /\ UNCHANGED <<def, row, cur>>
      BY <1>4 DEF StartHooksPass
  <2>2. cur = def.entry /\ \A s \in Steps : ~Settled(s)
      BY <2>1 DEF PathInv, Fresh
  <2>3. cur \in DOMAIN OrderOf(def)
      BY <1>t, <2>2, OrderKnown DEF PathInv, TypeInv, IsOrder
  <2>4. LoopPath'
      BY <2>1, <2>2, <2>3 DEF LoopPath, Settled
  <2> QED BY <1>t, <2>1, <2>4 DEF PathInv, Fresh, StepPath, RowOfStep
<1>5. CASE SkipStep
  <2>1. /\ AtStep /\ Goto(Sequential(Flat, cur)) /\ def' = def
        /\ row' = [row EXCEPT ![cur] = "skipped"] /\ StepCur.skipIf
      BY <1>5 DEF SkipStep
  <2>2. Sequential(Flat, cur) \in LeadsTo(def, cur)
      BY <2>1 DEF LeadsTo, StepCur, Flat
  <2>3. \A s \in Steps : s # cur => row'[s] = row[s]
      BY <1>r, <2>1
  <2> QED BY <1>t, <1>l, <2>1, <2>2, <2>3, PathMoves
<1>6. CASE BeginStep
  <2>1. /\ AtStep /\ pc' = "exec" /\ UNCHANGED <<def, cur>>
        /\ row' = [row EXCEPT ![cur] = "running"]
      BY <1>6 DEF BeginStep
  <2>2. /\ row'[cur] = "running" /\ \A s \in Steps : s # cur => row'[s] = row[s]
      BY <1>r, <1>l, <2>1
  <2>3. RowOfStep'
      BY <2>1, <2>2 DEF RowOfStep
  <2> QED BY <1>t, <1>l, <2>1, <2>2, <2>3, PathStays
<1>7. ASSUME NEW c \in Steps \cup {NoStep}, StepReturns(c) PROVE PathInv'
  <2>1. /\ pc = "exec" /\ pc' = "after" /\ UNCHANGED <<def, cur>>
        /\ row' = [row EXCEPT ![cur] = "completed"]
        /\ c \in Outcomes(StepCur) /\ chosen' = c
      BY <1>7 DEF StepReturns
  <2>2. /\ row'[cur] = "completed" /\ \A s \in Steps : s # cur => row'[s] = row[s]
      BY <1>r, <1>k, <2>1
  <2>3. RowOfStep'
      BY <2>1, <2>2 DEF RowOfStep, StepCur, Flat
  <2> QED BY <1>t, <1>e, <2>1, <2>2, <2>3, PathStays
<1>8. CASE StepFails
  <2>1. /\ pc = "exec" /\ def' = def /\ row' = [row EXCEPT ![cur] = "failed"]
        /\ \/ StepCur.fallback # NoStep /\ Goto(StepCur.fallback)
           \/ /\ StepCur.fallback = NoStep /\ StepCur.onError = "skip"
              /\ Goto(Sequential(Flat, cur))
           \/ pc' = "end"
      BY <1>8 DEF StepFails, Threw
  <2>2. \A s \in Steps : s # cur => row'[s] = row[s]
      BY <1>r, <2>1
  <2>3. CASE StepCur.fallback # NoStep /\ Goto(StepCur.fallback)
    <3>1. StepCur.fallback \in LeadsTo(def, cur)
        BY <2>3 DEF LeadsTo, StepCur, Flat
    <3> QED BY <1>t, <1>e, <2>1, <2>2, <2>3, <3>1, PathMoves
  <2>4. CASE /\ StepCur.fallback = NoStep /\ StepCur.onError = "skip"
             /\ Goto(Sequential(Flat, cur))
    <3>1. Sequential(Flat, cur) \in LeadsTo(def, cur)
        BY <2>4 DEF LeadsTo, StepCur, Flat
    <3> QED BY <1>t, <1>e, <2>1, <2>2, <2>4, <3>1, PathMoves
  <2>5. CASE pc' = "end"
      BY <1>t, <2>1, <2>5, PathEnds
  <2> QED BY <2>1, <2>3, <2>4, <2>5
<1>9. CASE AfterHooksPass
  <2>1. /\ pc = "after" /\ Goto(getNextStepId(Flat, cur, chosen))
        /\ UNCHANGED <<def, row>>
      BY <1>9 DEF AfterHooksPass
  <2>2. getNextStepId(Flat, cur, chosen) \in LeadsTo(def, cur)
      BY <2>1 DEF PathInv, RowOfStep, LeadsTo, StepCur, Flat
  <2> QED BY <1>t, <1>e, <2>1, <2>2, PathMoves
<1> QED BY <1>1, <1>2, <1>3, <1>4, <1>5, <1>6, <1>7, <1>8, <1>9 DEF Next, Walk

\* The current step is not behind itself.
LEMMA HereUnsettled ==
    ASSUME Ordered(def), PathInv, AtStep
    PROVE  ~Settled(cur)
<1> DEFINE o == OrderOf(def)
<1>1. cur \in Steps
    BY UsableStep DEF PathInv, TypeInv, TypeOK, AtStep
<1>2. IsOrder(def, o)
    BY OrderKnown DEF PathInv, TypeInv
<1>3. Settled(cur) => cur \in DOMAIN o /\ o[cur] < o[cur]
    BY <1>1 DEF PathInv, LoopPath, AtStep, Behind
<1>4. cur \in DOMAIN o => o[cur] \in Nat
    BY <1>2 DEF IsOrder
<1> QED BY <1>3, <1>4

\* What RowsMonotone allows a step to do to a row.
RowKept(s) ==
    Settled(s) => row'[s] = row[s] \/ (row[s] = "completed" /\ row'[s] = "failed")

LEMMA RowsKept ==
    ASSUME Ordered(def), PathInv, [Next]_vars, NEW s \in Steps
    PROVE  RowKept(s)
<1>t. TypeInv BY DEF PathInv
<1>r. row \in [Steps -> RowStatus \cup {"none"}]
    BY <1>t DEF TypeInv, TypeOK
<1>0. CASE row' = row
    BY <1>0 DEF RowKept
<1>1. CASE SkipStep \/ BeforeHookFails \/ BeginStep
    BY <1>1, <1>r, HereUnsettled
       DEF SkipStep, BeforeHookFails, BeginStep, RowKept
<1>2. CASE StepFails \/ \E c \in Steps \cup {NoStep} : StepReturns(c)
  <2>1. row[cur] = "running"
      BY <1>2 DEF StepFails, StepReturns, Threw, PathInv, RowOfStep
  <2> QED BY <1>2, <1>r, <2>1 DEF StepFails, StepReturns, RowKept, Settled
<1>3. CASE AfterHookFails
  <2>1. row[cur] = "completed"
      BY <1>3 DEF AfterHookFails, PathInv, RowOfStep
  <2> QED BY <1>3, <1>r, <2>1 DEF AfterHookFails, RowKept
<1>4. CASE SeeCancel \/ FinishFailed
    BY <1>4 DEF SeeCancel, FinishFailed, CancelPending, RowKept, Settled
<1>5. ASSUME NEW b \in Branches, BranchMoves(b) PROVE row' = row
    BY <1>5 DEF BranchMoves, BranchStep, BranchLeaves
<1>6. CASE \/ CancelRun \/ CancelExpires \/ EngineThrows \/ UNCHANGED vars
           \/ StartHooksPass \/ StartHooksFail \/ UnknownStep \/ RetryStep
           \/ AfterHooksPass \/ \E v \in {"completed", "failed"} : Finish(v)
    BY <1>0, <1>6 DEF CancelRun, CancelExpires, EngineThrows, vars, StartHooksPass,
       StartHooksFail, UnknownStep, RetryStep, AfterHooksPass, Finish
<1> QED BY <1>0, <1>1, <1>2, <1>3, <1>4, <1>5, <1>6 DEF Next, Walk

LEMMA PathInit == Init => PathInv
<1> SUFFICES ASSUME Init PROVE PathInv OBVIOUS
<1>1. pc = "start" /\ cur = def.entry /\ validateDefinition(def)
    BY DEF Init
<1>2. \A s \in Steps : row[s] \in {"pending", "none"}
    BY DEF Init
<1>3. Fresh
    BY <1>1, <1>2 DEF Fresh, Settled
<1> QED BY <1>1, <1>3, TypeInit DEF PathInv, LoopPath, StepPath, RowOfStep

\* No action changes the snapshot of the definition.
LEMMA DefKept == [Next]_vars => def' = def
<1> SUFFICES ASSUME [Next]_vars PROVE def' = def OBVIOUS
<1>1. CASE Walk
    BY <1>1 DEF Walk, StartHooksPass, StartHooksFail, SeeCancel, UnknownStep,
       SkipStep, BeforeHookFails, BeginStep, StepReturns, RetryStep, StepFails,
       AfterHooksPass, AfterHookFails, FinishFailed, Finish
<1>2. ASSUME NEW b \in Branches, BranchMoves(b) PROVE def' = def
    BY <1>2 DEF BranchMoves, BranchStep, BranchLeaves
<1>3. CASE CancelRun \/ CancelExpires \/ EngineThrows \/ UNCHANGED vars
    BY <1>3 DEF CancelRun, CancelExpires, EngineThrows, vars
<1> QED BY <1>1, <1>2, <1>3 DEF Next

\* The path invariant, for the definitions it is meant for.
OrderedPath == Ordered(def) => PathInv

LEMMA OrderedPathAlways == Spec => []OrderedPath
<1>1. Init => OrderedPath
    BY PathInit DEF OrderedPath
<1>2. OrderedPath /\ [Next]_vars => OrderedPath'
  <2> SUFFICES ASSUME OrderedPath, [Next]_vars, Ordered(def)' PROVE PathInv'
      BY DEF OrderedPath
  <2>1. Ordered(def)
      BY DefKept DEF Ordered, IsOrder
  <2> QED BY <2>1, PathStep DEF OrderedPath
<1> QED BY <1>1, <1>2, PTL DEF Spec

\* What the validator has accepted.
LEMMA AcceptedAlways == Spec => [](def \in Definitions /\ validateDefinition(def))
<1>1. Init => def \in Definitions /\ validateDefinition(def)
    BY DEF Init
<1>2. def \in Definitions /\ validateDefinition(def) /\ [Next]_vars =>
          (def \in Definitions /\ validateDefinition(def))'
    BY DefKept
<1> QED BY <1>1, <1>2, PTL DEF Spec

\* run_steps over the whole of processRun, for every definition whose moves the
\* validator saw: whatever fails, is retried, skipped or cancelled, no row
\* leaves a final status, except for the after:step hook that fails a
\* completed step.
THEOREM RowsNeverReopen == Spec => RowsMonotone
<1>1. def \in Definitions /\ validateDefinition(def) /\ OrderedPath /\ [Next]_vars =>
          [(def \in Seen) =>
             \A s \in Steps :
              row[s] \in {"completed", "failed", "skipped", "cancelled"} =>
                  \/ row'[s] = row[s]
                  \/ row[s] = "completed" /\ row'[s] = "failed"]_vars
  <2> SUFFICES ASSUME def \in Definitions, validateDefinition(def), OrderedPath,
                      [Next]_vars, def \in Seen, NEW s \in Steps
               PROVE  RowKept(s)
      BY DEF RowKept, Settled
  <2>1. Ordered(def)
      BY SeenIsOrdered
  <2> QED BY <2>1, RowsKept DEF OrderedPath
<1> QED BY <1>1, OrderedPathAlways, AcceptedAlways, PTL DEF Spec, RowsMonotone

-----------------------------------------------------------------------------
(* How often a body is executed.  Without branches the walk is the only    *)
(* caller of executeStep: it has called it for settled steps and for the   *)
(* step it is at, there once for each attempt.                             *)

BodiesBounded == \A s \in AllIds(def) : tries[s] <= StepOf(Flat, s).retries + 1

NoPromises == \A b \in Branches : thr[b] = "none"

TriesInv ==
    /\ PathInv
    /\ BodiesBounded
    /\ NoPromises
    /\ pc \in {"start", "loop", "exec", "after"} =>
           \A s \in Steps : tries[s] # 0 => Settled(s) \/ (pc = "exec" /\ s = cur)
    /\ pc = "exec" => tries[cur] <= attempt + 1 /\ attempt <= StepCur.retries

\* The walk goes on and calls nothing; settled steps stay settled.
LEMMA TriesWalk ==
    ASSUME Ordered(def), TriesInv, PathInv', [Next]_vars,
           UNCHANGED <<def, tries, thr>>, pc' # "exec",
           pc' \in {"start", "loop", "after"} =>
               /\ pc \in {"start", "loop", "exec", "after"}
               /\ pc = "exec" => row'[cur] \in {"completed", "failed"}
    PROVE  TriesInv'
<1>1. \A s \in Steps : Settled(s) => Settled(s)'
    BY RowsKept DEF TriesInv, RowKept, Settled
<1>2. BodiesBounded'
    BY DEF TriesInv, BodiesBounded, Flat
<1>3. ASSUME pc' \in {"start", "loop", "after"}, NEW s \in Steps, tries[s] # 0
      PROVE  Settled(s)'
    BY <1>1, <1>3 DEF TriesInv, Settled
<1>4. NoPromises'
    BY DEF TriesInv, NoPromises
<1> QED BY <1>2, <1>3, <1>4 DEF TriesInv

\* A call of executeStep counts once.
LEMMA CallCounts ==
    ASSUME TypeOK, NEW n, Call(n), cur \in Steps
    PROVE  /\ attempt' = n
           /\ tries'[cur] <= tries[cur] + 1 /\ tries'[cur] \in Nat /\ tries[cur] \in Nat
           /\ \A s \in Steps : s # cur => tries'[s] = tries[s]
<1>1. tries \in [Steps -> 0 .. TriesCap] /\ TriesCap \in Nat
    BY TraversalConstants DEF TypeOK
<1>2. /\ attempt' = n /\ tries' = Count(tries, cur)
    BY DEF Call
<1>3. tries'[cur] = IF tries[cur] < TriesCap THEN tries[cur] + 1 ELSE tries[cur]
    BY <1>1, <1>2 DEF Count
<1>4. \A s \in Steps : s # cur => tries'[s] = tries[s]
    BY <1>1, <1>2 DEF Count
<1>5. tries[cur] \in Nat
    BY <1>1
<1> QED BY <1>1, <1>2, <1>3, <1>4, <1>5

\* After the n-th call of the current step.
LEMMA TriesCall ==
    ASSUME Unforked(def), TriesInv, PathInv', NEW n \in Nat, Call(n),
           n <= StepCur.retries, cur \in AllIds(def), UNCHANGED <<def, cur>>, pc' = "exec",
           tries[cur] <= n,
           \A s \in Steps : s # cur => row'[s] = row[s] /\ (tries[s] # 0 => Settled(s))
    PROVE  TriesInv'
<1>1. TypeOK /\ cur \in Steps /\ AllIds(def) \subseteq Steps
    BY UsableStep DEF TriesInv, PathInv, TypeInv, TypeOK
<1>2. StepCur.retries \in Nat
    BY <1>1, UsableStep DEF StepCur, Flat, TypeOK
<1>3. /\ attempt' = n /\ tries'[cur] <= n + 1 /\ tries'[cur] \in Nat
      /\ \A s \in Steps : s # cur => tries'[s] = tries[s]
  <2>1. /\ attempt' = n /\ tries'[cur] <= tries[cur] + 1
        /\ tries'[cur] \in Nat /\ tries[cur] \in Nat
        /\ \A s \in Steps : s # cur => tries'[s] = tries[s]
      BY <1>1, CallCounts
  <2> QED BY <2>1
<1>4. StepCur' = StepCur /\ Flat' = Flat
    BY DEF StepCur, Flat
<1>5. tries'[cur] <= StepCur.retries + 1
    BY <1>2, <1>3
<1>6. \A s \in AllIds(def) : tries'[s] <= StepOf(Flat, s).retries + 1
    BY <1>1, <1>3, <1>5 DEF TriesInv, BodiesBounded, StepCur
<1>7. BodiesBounded'
    BY <1>4, <1>6 DEF BodiesBounded
<1>8. \A s \in Steps : tries'[s] # 0 => Settled(s)' \/ s = cur
    BY <1>3 DEF Settled
<1>9. NoPromises'
  <2>1. StepCur.kind # "parallel"
    <3>1. cur \in StepIds(Flat) BY DEF AllIds, Flat
    <3>2. IndexOf(Flat, cur) \in DOMAIN Flat /\ StepCur = Flat[IndexOf(Flat, cur)]
        BY <3>1, StepOfMember DEF StepCur
    <3> QED BY <3>2 DEF Unforked, Flat
  <2>2. thr' = [b \in Branches |-> thr[b]]
      BY <2>1 DEF Call
  <2> QED BY <2>2 DEF TriesInv, NoPromises
<1> QED BY <1>3, <1>4, <1>7, <1>8, <1>9 DEF TriesInv

LEMMA TriesStep ==
    ASSUME Ordered(def), Unforked(def), TriesInv, [Next]_vars
    PROVE  TriesInv'
<1>p. PathInv /\ PathInv' BY PathStep DEF TriesInv
<1>t. TypeOK /\ AtKnownStep BY <1>p DEF PathInv, TypeInv
<1>r. row \in [Steps -> RowStatus \cup {"none"}] BY <1>t DEF TypeOK
<1>b. ASSUME NEW b \in Branches, BranchMoves(b) PROVE FALSE
    BY <1>b DEF BranchMoves, BranchStep, BranchLeaves, TriesInv, NoPromises
<1>0. CASE UNCHANGED <<def, row, pc, cur, attempt, tries, thr>>
    BY <1>0, <1>p DEF TriesInv, BodiesBounded, NoPromises, Settled,
                         StepCur, Flat
<1>1. CASE CancelRun \/ CancelExpires \/ UNCHANGED vars
    BY <1>0, <1>1 DEF CancelRun, CancelExpires, vars, branchVars
<1>2. CASE \/ StartHooksPass \/ StartHooksFail \/ UnknownStep \/ EngineThrows
           \/ SeeCancel \/ FinishFailed \/ BeforeHookFails \/ AfterHookFails
           \/ AfterHooksPass \/ SkipStep
           \/ \E s \in {"completed", "failed"} : Finish(s)
    BY <1>2, <1>p, TriesWalk DEF StartHooksPass, StartHooksFail, UnknownStep,
       EngineThrows, SeeCancel, FinishFailed, BeforeHookFails, AfterHookFails,
       AfterHooksPass, SkipStep, AtStep, Goto, Finish, branchVars
<1>3. CASE BeginStep
  <2>1. /\ AtStep /\ Call(0) /\ UNCHANGED <<def, cur>> /\ pc' = "exec"
        /\ row' = [row EXCEPT ![cur] = "running"]
      BY <1>3 DEF BeginStep
  <2>2. cur \in AllIds(def) /\ pc = "loop" /\ cur \in Steps
      BY <1>t, <2>1, UsableStep DEF AtStep, TypeOK
  <2>3. StepCur.retries \in Nat
      BY <1>t, <2>2, UsableStep DEF StepCur, Flat, TypeOK
  <2>4. tries[cur] = 0
      BY <1>p, <2>1, <2>2, HereUnsettled DEF TriesInv
  <2>5. \A s \in Steps : s # cur => row'[s] = row[s] /\ (tries[s] # 0 => Settled(s))
      BY <1>r, <2>1, <2>2 DEF TriesInv
  <2>6. 0 \in Nat /\ 0 <= StepCur.retries /\ tries[cur] <= 0
      BY <2>3, <2>4
  <2> QED BY <1>p, <2>1, <2>2, <2>5, <2>6, TriesCall
<1>4. CASE RetryStep
  <2>1. /\ pc = "exec" /\ attempt < StepCur.retries /\ Call(attempt + 1)
        /\ UNCHANGED <<def, cur, row, pc>>
      BY <1>4 DEF RetryStep, Threw
  <2>2. cur \in AllIds(def)
      BY <1>t, <2>1 DEF AtKnownStep
  <2>3. StepCur.retries \in Nat /\ attempt \in Nat
      BY <1>t, <2>2, UsableStep DEF StepCur, Flat, TypeOK
  <2>4. attempt + 1 \in Nat /\ attempt + 1 <= StepCur.retries
      BY <2>1, <2>3
  <2>5. tries[cur] <= attempt + 1 /\ \A s \in Steps : s # cur /\ tries[s] # 0 => Settled(s)
      BY <2>1 DEF TriesInv
  <2> QED BY <1>p, <2>1, <2>2, <2>4, <2>5, TriesCall
<1>5. CASE StepFails \/ \E c \in Steps \cup {NoStep} : StepReturns(c)
  <2>1. pc = "exec" /\ UNCHANGED <<def, tries, thr>> /\ pc' # "exec"
      BY <1>5 DEF StepFails, Threw, Goto, StepReturns, branchVars
  <2>2. cur \in Steps
      BY <1>t, <2>1, UsableStep DEF AtKnownStep, TypeOK
  <2>3. row' = [row EXCEPT ![cur] = "failed"] \/ row' = [row EXCEPT ![cur] = "completed"]
      BY <1>5 DEF StepFails, StepReturns
  <2>4. row'[cur] \in {"failed", "completed"}
      BY <1>r, <2>2, <2>3
  <2> QED BY <1>p, <2>1, <2>4, TriesWalk
<1> QED BY <1>b, <1>1, <1>2, <1>3, <1>4, <1>5 DEF Next, Walk

\* The invariant, for the definitions it is meant for.
OrderedTries == Ordered(def) /\ Unforked(def) => TriesInv

\* The retry loop of processRun and the graph walk together: where the validator
\* saw every move and no branch runs beside the walk, no step's body is executed
\* more than once and once more for each retry its retryConfig allows.
THEOREM TriesNeverExceed == Spec => []TriesBounded
<1>1. Init => OrderedTries
  <2> SUFFICES ASSUME Init PROVE TriesInv BY DEF OrderedTries
  <2>1. PathInv BY PathInit
  <2>2. TypeOK /\ pc = "start" /\ \A s \in Steps : tries[s] = 0
      BY <2>1 DEF Init, PathInv, TypeInv
  <2>3. BodiesBounded
    <3> SUFFICES ASSUME NEW s \in AllIds(def)
                 PROVE  tries[s] <= StepOf(Flat, s).retries + 1
        BY DEF BodiesBounded
    <3>1. s \in Steps /\ StepOf(Flat, s).retries \in Nat
        BY <2>2, UsableStep DEF TypeOK, Flat
    <3> QED BY <2>2, <3>1
  <2>4. NoPromises BY DEF Init, NoPromises
  <2> QED BY <2>1, <2>2, <2>3, <2>4 DEF TriesInv
<1>2. OrderedTries /\ [Next]_vars => OrderedTries'
  <2> SUFFICES ASSUME OrderedTries, [Next]_vars, Ordered(def)', Unforked(def)'
               PROVE  TriesInv'
      BY DEF OrderedTries
  <2>1. Ordered(def) /\ Unforked(def)
      BY DefKept DEF Ordered, IsOrder, Unforked
  <2> QED BY <2>1, TriesStep DEF OrderedTries
<1>3. OrderedTries /\ def \in Definitions /\ validateDefinition(def) => TriesBounded
    BY SeenIsOrdered DEF OrderedTries, TriesInv, BodiesBounded, TriesBounded
<1> QED BY <1>1, <1>2, <1>3, AcceptedAlways, PTL DEF Spec

-----------------------------------------------------------------------------
(* Definitions that jump ahead.  The validator need not have seen a move   *)
(* for the walk to be ordered: where every target of a condition and every *)
(* fallback stands further down the list, the list itself is the order.    *)

Jumps(step) ==
    {step.fallback} \cup
    (IF step.kind = "conditional" THEN {step.then, step.else} ELSE {})

JumpsAhead(d) ==
    LET flat == collectAllStepsFlat(d.steps)
    IN  \A s \in AllIds(d) : \A t \in Jumps(StepOf(flat, s)) \cap AllIds(d) :
            IndexOf(flat, s) < IndexOf(flat, t)

\* As many ids as steps: no two positions hold the same one.
LEMMA IdsUnique ==
    ASSUME NEW d \in Definitions, NEW i \in DOMAIN collectAllStepsFlat(d.steps)
    PROVE  LET flat == collectAllStepsFlat(d.steps)
           IN  flat[i].id \in AllIds(d) /\ IndexOf(flat, flat[i].id) = i
<1> DEFINE flat == collectAllStepsFlat(d.steps)
           f == [k \in DOMAIN flat |-> flat[k].id]
<1>1. /\ Len(flat) \in Nat /\ DOMAIN flat = 1 .. Len(flat)
      /\ Cardinality(AllIds(d)) = Len(flat)
    BY DefinitionsUsable
<1>2. AllIds(d) = {flat[k].id : k \in DOMAIN flat} /\ i \in DOMAIN flat
    BY DEF AllIds, StepIds
<1> HIDE DEF flat
<1>3. f \in Surjection(DOMAIN flat, AllIds(d))
    BY <1>2 DEF Surjection
<1>4. IsFiniteSet(DOMAIN flat) /\ Cardinality(DOMAIN flat) = Len(flat)
  <2>1. ASSUME NEW n \in Nat
        PROVE  IsFiniteSet(1 .. n) /\ Cardinality(1 .. n) = n
    <3>1. 1 \in Int /\ n \in Int
        OBVIOUS
    <3>2. IsFiniteSet(1 .. n) /\ Cardinality(1 .. n) = IF 1 > n THEN 0 ELSE n - 1 + 1
        BY <3>1, FS_Interval
    <3> QED BY <3>2
  <2> QED BY <1>1, <2>1
<1>5. f \in Injection(DOMAIN flat, AllIds(d))
  <2> HIDE DEF f
  <2> QED BY <1>1, <1>3, <1>4, FS_SurjSameCardinalityImpliesInj
<1>6. \A j, k \in DOMAIN flat : flat[j].id = flat[k].id => j = k
    BY <1>5 DEF Injection, IsInjective
<1>7. flat[i].id \in AllIds(d) /\ IndexOf(flat, flat[i].id) = i
    BY <1>2, <1>6 DEF IndexOf
<1> QED BY <1>7 DEF flat

\* A definition of any length and with any forks is ordered if its conditionals
\* and fallbacks jump ahead in the list getNextStepIdFromMain walks.
LEMMA JumpsAheadIsOrdered ==
    ASSUME NEW d \in Definitions, validateDefinition(d), JumpsAhead(d)
    PROVE  Ordered(d)
<1> DEFINE flat == collectAllStepsFlat(d.steps)
           o == [s \in AllIds(d) |-> IndexOf(flat, s)]
<1>1. /\ Len(flat) \in Nat /\ DOMAIN flat = 1 .. Len(flat)
      /\ AllIds(d) \subseteq Steps /\ NoStep \notin AllIds(d)
    BY DefinitionsUsable, TraversalConstants
<1>2. d.entry \in AllIds(d) /\ JumpsAhead(d)
    BY DEF validateDefinition, TargetsExist
<1>3. AllIds(d) = StepIds(flat)
    BY DEF AllIds
<1>4. \A i \in DOMAIN flat : flat[i].id \in AllIds(d) /\ IndexOf(flat, flat[i].id) = i
    BY IdsUnique
<1>5. \A s \in AllIds(d) : \A t \in Jumps(StepOf(flat, s)) \cap AllIds(d) :
          IndexOf(flat, s) < IndexOf(flat, t)
    BY <1>2 DEF JumpsAhead
<1>6. \A s \in AllIds(d) : \A t \in LeadsTo(d, s) :
          t \in Jumps(StepOf(flat, s)) \/ t = Sequential(flat, s)
    BY DEF LeadsTo, Jumps, getNextStepId, Outcomes
<1> HIDE DEF flat
<1>7. ASSUME NEW s \in AllIds(d) PROVE IndexOf(flat, s) \in 1 .. Len(flat)
    BY <1>1, <1>3, StepOfMember
<1>8. ASSUME NEW s \in AllIds(d), NEW t \in LeadsTo(d, s) \cap AllIds(d)
      PROVE  IndexOf(flat, s) < IndexOf(flat, t)
  <2>1. CASE t \in Jumps(StepOf(flat, s))
      BY <1>5, <2>1
  <2>2. CASE t = Sequential(flat, s)
    <3>1. IndexOf(flat, s) # Len(flat) /\ t = flat[IndexOf(flat, s) + 1].id
        BY <1>1, <2>2 DEF Sequential
    <3>2. IndexOf(flat, s) + 1 \in DOMAIN flat
        BY <1>1, <1>7, <3>1
    <3>3. IndexOf(flat, t) = IndexOf(flat, s) + 1
        BY <1>4, <3>1, <3>2
    <3> QED BY <1>7, <3>3
  <2> QED BY <1>6, <2>1, <2>2
<1>9. IsOrder(d, o)
    BY <1>1, <1>2, <1>7, <1>8 DEF IsOrder
<1> QED BY <1>9 DEF Ordered

\* The moves the validator does not see do no harm where they lead ahead: the
\* fallbacks, the ways past a conditional and those between branches reopen no
\* row of a definition whose jumps all go down the list.
THEOREM JumpsAheadReopenNothing ==
    Spec => [][JumpsAhead(def) =>
                  \A s \in Steps :
                     row[s] \in {"completed", "failed", "skipped", "cancelled"} =>
                         \/ row'[s] = row[s]
                         \/ row[s] = "completed" /\ row'[s] = "failed"]_vars
<1>1. def \in Definitions /\ validateDefinition(def) /\ OrderedPath /\ [Next]_vars =>
          [JumpsAhead(def) =>
             \A s \in Steps :
              row[s] \in {"completed", "failed", "skipped", "cancelled"} =>
                  \/ row'[s] = row[s]
                  \/ row[s] = "completed" /\ row'[s] = "failed"]_vars
  <2> SUFFICES ASSUME def \in Definitions, validateDefinition(def), OrderedPath,
                      [Next]_vars, JumpsAhead(def), NEW s \in Steps
               PROVE  RowKept(s)
      BY DEF RowKept, Settled
  <2>1. Ordered(def)
      BY JumpsAheadIsOrdered
  <2> QED BY <2>1, RowsKept DEF OrderedPath
<1> QED BY <1>1, OrderedPathAlways, AcceptedAlways, PTL DEF Spec
=============================================================================
