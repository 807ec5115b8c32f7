--------------------------- MODULE MCStepTraversal ---------------------------
(***************************************************************************)
(* Definitions for TLC: every definition of three steps of a given shape   *)
(* (the validator then picks the ones it accepts), and parallel steps with *)
(* two branches.                                                           *)
(***************************************************************************)
EXTENDS StepTraversal

Base == [kind |-> "task", then |-> NoStep, else |-> NoStep, branches |-> <<>>,
         wait |-> "all", onError |-> "fail", fallback |-> NoStep,
         retries |-> 0, skipIf |-> FALSE]

Named(id, kinds) == {k @@ [id |-> id] : k \in kinds}

Tasks == {[Base EXCEPT !.retries = 1, !.onError = "skip"],
          [Base EXCEPT !.skipIf = TRUE]}

\* Conditionals with both targets, and with no else target.
Targets == {"a", "b", "c"}
Conditionals == {[Base EXCEPT !.kind = "conditional", !.then = t, !.else = e] :
                    t \in Targets, e \in Targets \cup {NoStep}}

\* Tasks whose fallback is the first step or no step of the definition.
Guarded == {[Base EXCEPT !.fallback = f] : f \in {"a", "x"}}

\* All definitions of three steps drawn from a set of shapes.
ThreeOf(shapes) ==
    {[entry |-> "a", steps |-> <<x, y, z>>] :
        x \in Named("a", shapes), y \in Named("b", shapes),
        z \in Named("c", shapes)}

RoutedDefinitions == ThreeOf(Tasks \cup Conditionals \cup Guarded)

Task(id, r) == [Base EXCEPT !.retries = r] @@ [id |-> id]

\* p runs [a; b] and [c] in parallel, then d; its rows are p, a, b, c, d.
Forked(first, wait, onError, retries) ==
    [entry |-> "p",
     steps |-> <<[Base EXCEPT !.kind = "parallel", !.wait = wait,
                     !.onError = onError, !.retries = retries,
                     !.branches = <<[entry |-> "a",
                                     steps |-> <<first, Task("b", 0)>>],
                                    [entry |-> "c",
                                     steps |-> <<Task("c", 0)>>]>>]
                     @@ [id |-> "p"],
                 Task("d", 0)>>]

\* A branch may also leave its own list by a conditional.
Leaving == [Base EXCEPT !.kind = "conditional", !.then = "b", !.else = "d"]
               @@ [id |-> "a"]

\* A fork that fails its run, and one that is retried and then passed over.
ForkDefinitions ==
    UNION {{Forked(Leaving, w, "fail", 0), Forked(Task("a", 0), w, "skip", 1)} :
              w \in {"all", "any"}}

\* Tasks, conditions, fallbacks and forks together.
AllDefinitions == RoutedDefinitions \cup ForkDefinitions
=============================================================================
