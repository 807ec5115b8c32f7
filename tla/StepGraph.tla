------------------------------ MODULE StepGraph ------------------------------
(***************************************************************************)
(* The step graph of a pipeline definition, seen twice: by the validator   *)
(* (validateDefinition in pipeline-service.ts, when a definition is        *)
(* stored) and by the engine (execution-engine.ts, when a run walks it).   *)
(*                                                                         *)
(* A definition is a record [entry, steps]; a step has the fields          *)
(*   id, kind ("task", "conditional" or "parallel"), then, else, branches, *)
(*   wait ("all" or "any"), onError ("fail" or "skip"), fallback, retries  *)
(*   and skipIf (whether the step has such an expression);                 *)
(* a branch is a record [entry, steps].  The step types the engine only    *)
(* calls and awaits are all "task".  Branches hold no parallel steps.      *)
(***************************************************************************)
EXTENDS Integers, Sequences, SequencesExt, FiniteSets

CONSTANT NoStep  \* undefined or null where a step id may stand

-----------------------------------------------------------------------------
(* Both sides: the steps of a definition, depth first.                     *)

BranchSteps(step) ==
    FlattenSeq([b \in DOMAIN step.branches |-> step.branches[b].steps])

collectAllStepsFlat(steps) ==
    FlattenSeq([i \in DOMAIN steps |->
        <<steps[i]>> \o (IF steps[i].kind = "parallel"
                         THEN BranchSteps(steps[i]) ELSE <<>>)])

StepIds(steps) == {steps[i].id : i \in DOMAIN steps}

AllIds(d) == StepIds(collectAllStepsFlat(d.steps))

-----------------------------------------------------------------------------
(* The validator.                                                          *)

\* Where buildAdjacencyMap says the i-th step of a list may lead.
Neighbors(list, i) ==
    LET step == list[i]
        sequential == IF i < Len(list) THEN {list[i + 1].id} ELSE {}
    IN  CASE step.kind = "conditional" -> {step.then, step.else} \ {NoStep}
          [] step.kind = "parallel" ->
                 {step.branches[b].entry : b \in DOMAIN step.branches}
                     \cup sequential
          [] OTHER -> sequential

\* The lists buildAdjacencyMap walks: the top level and every branch.
StepLists(d) ==
    {d.steps} \cup
    UNION {{d.steps[i].branches[b].steps : b \in DOMAIN d.steps[i].branches} :
              i \in {k \in DOMAIN d.steps : d.steps[k].kind = "parallel"}}

buildAdjacencyMap(d) ==
    UNION {UNION {{<<list[i].id, n>> : n \in Neighbors(list, i)} :
                      i \in DOMAIN list} : list \in StepLists(d)}

\* Mutant: an entry that leads to itself is taken for one already visited.
hasCyclePastEntry(adj, start, nodes) ==
    \E w \in [0 .. Cardinality(nodes) -> nodes] :
        /\ w[0] = start
        /\ \A i \in 1 .. Cardinality(nodes) :
              <<w[i - 1], w[i]>> \in adj \ {<<start, start>>}

\* The depth-first search from the entry meets a node on its own stack: some
\* walk from there, through the steps there are, is longer than their number.
hasCycle(adj, start, nodes) ==
    \E w \in [0 .. Cardinality(nodes) -> nodes] :
        /\ w[0] = start
        /\ \A i \in 1 .. Cardinality(nodes) : <<w[i - 1], w[i]>> \in adj

\* Targets are checked for top-level steps only, fallbacks not at all.
TargetsExist(d) ==
    /\ d.entry \in AllIds(d)
    /\ \A i \in DOMAIN d.steps :
          CASE d.steps[i].kind = "conditional" ->
                   {d.steps[i].then, d.steps[i].else} \ {NoStep}
                       \subseteq AllIds(d)
            [] d.steps[i].kind = "parallel" ->
                   \A b \in DOMAIN d.steps[i].branches :
                       d.steps[i].branches[b].entry \in AllIds(d)
            [] OTHER -> TRUE

\* Mutant: a definition is accepted without the search for cycles.
validateTargetsOnly(d) == TargetsExist(d)

validateDefinition(d) ==
    /\ TargetsExist(d)
    /\ ~hasCycle(buildAdjacencyMap(d), d.entry, AllIds(d))

-----------------------------------------------------------------------------
(* The engine.                                                             *)

\* The position of an id in a list: ids are unique.
IndexOf(list, id) == CHOOSE i \in DOMAIN list : list[i].id = id

StepOf(list, id) == list[IndexOf(list, id)]

\* The step after this one in the list, NoStep at its end.
Sequential(list, id) ==
    IF IndexOf(list, id) = Len(list) THEN NoStep
    ELSE list[IndexOf(list, id) + 1].id

\* getNextStepId and getNextStepIdFromMain: the target the condition chose,
\* or else the next step of the list.
getNextStepId(list, id, conditionalNext) ==
    IF StepOf(list, id).kind = "conditional" /\ conditionalNext # NoStep
    THEN conditionalNext ELSE Sequential(list, id)

\* What executeStep may return as nextStepId.
Outcomes(step) ==
    IF step.kind = "conditional" THEN {step.then, step.else} ELSE {NoStep}
=============================================================================
