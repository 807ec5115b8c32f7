------------------------------ MODULE MCSchedule ------------------------------
(***************************************************************************)
(* A schedule for TLC: an expression that fires every two time units and   *)
(* one that fires every three, in zones that shift it by zero or one.      *)
(***************************************************************************)
EXTENDS Schedule, TLC

CONSTANTS hourly, daily, utc, cet

Period == (hourly :> 2) @@ (daily :> 3)
Shift == (utc :> 0) @@ (cet :> 1)

FireTimes ==
    [x \in Crons \X Zones \X Times |->
        CHOOSE n \in x[3] + 1 .. x[3] + Period[x[1]] :
            n % Period[x[1]] = Shift[x[2]]]
===============================================================================
