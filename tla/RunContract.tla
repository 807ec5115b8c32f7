----------------------------- MODULE RunContract -----------------------------
(***************************************************************************)
(* What the Pipeline Service promises of a run to those who read its row:  *)
(* it is inserted once and started once, its steps are entered once, and   *)
(* only a run whose steps were entered completes or is cancelled.  A run   *)
(* may be declared failed at any time, even after its end, and a run whose *)
(* steps are still running when that happens may yet write its own end.    *)
(***************************************************************************)
EXTENDS Naturals

CONSTANTS Runs

VARIABLES
    state,  \* what the row says of the run
    driven  \* how often its steps were entered

Init ==
    /\ state = [r \in Runs |-> "none"]
    /\ driven = [r \in Runs |-> 0]

Create(r) ==
    /\ state[r] = "none"
    /\ state' = [state EXCEPT ![r] = "pending"]
    /\ UNCHANGED driven

Start(r) ==
    /\ state[r] = "pending"
    /\ state' = [state EXCEPT ![r] = "running"]
    /\ UNCHANGED driven

Drive(r) ==
    /\ state[r] \in {"running", "failed"}
    /\ driven[r] = 0
    /\ driven' = [driven EXCEPT ![r] = 1]
    /\ UNCHANGED state

Finish(r, s) ==
    /\ driven[r] = 1
    /\ state[r] \in {"running", "failed"}
    /\ state' = [state EXCEPT ![r] = s]
    /\ UNCHANGED driven

Fail(r) ==
    /\ state[r] # "none"
    /\ state' = [state EXCEPT ![r] = "failed"]
    /\ UNCHANGED driven

Next == \E r \in Runs :
    \/ Create(r) \/ Start(r) \/ Drive(r) \/ Fail(r)
    \/ \E s \in {"completed", "failed", "cancelled"} : Finish(r, s)

Spec == Init /\ [][Next]_<<state, driven>>
=============================================================================
