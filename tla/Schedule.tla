------------------------------- MODULE Schedule -------------------------------
(***************************************************************************)
(* A cron schedule: every instance of the Pipeline Service runs cronTick   *)
(* every 30 seconds (and a slow tick overlaps the next one), claims a due  *)
(* row of pipeline.schedules with a conditional UPDATE and only then       *)
(* triggers the run, while users change, disable and delete the schedule.  *)
(* One row: the loop over the due schedules handles each by itself.        *)
(*                                                                         *)
(* All instances read one clock; triggerRun itself is module PipelineRun.  *)
(***************************************************************************)
EXTENDS Integers

CONSTANTS
    Ticks,     \* concurrent activations of cronTick, of any instance
    Editors,   \* concurrent PATCH requests
    Crons,     \* cron expressions
    Zones,     \* time zones
    Keep,      \* a field the request leaves out
    Horizon,   \* where the clock stops
    NextFire,  \* cron-parser: first firing of an expression in a zone after t
    HasDeps,   \* depends_on is not empty
    Faults     \* an instance may crash, an await may reject

Times == 0 .. Horizon

\* interval.next() lies strictly after currentDate.
ASSUME ScheduleConstants ==
    /\ Horizon \in Nat
    /\ NextFire \in [Crons \X Zones \X Times -> Nat]
    /\ \A c \in Crons, z \in Zones, t \in Times : NextFire[<<c, z, t>>] > t
    /\ HasDeps \in BOOLEAN
    /\ Faults \in BOOLEAN

VARIABLES
    now,     \* the clock
    exists,  \* the row is there
    enabled, cron, zone, nextAt,  \* its columns
    depsOk,  \* the latest run of every dependency is completed
    tpc,     \* where each cronTick stands
    seen,    \* ... the row as findDueSchedules returned it
    newNext, \* ... and the nextRunAt it computed
    epc,     \* where each PATCH stands
    read,    \* ... and the cron and zone it found
    claimed, \* history: how often a next_run_at was claimed
    fired,   \* history: how often triggerRun returned for it
    withdrawn \* history: firings a user disabled, replaced or deleted

vars == <<now, exists, enabled, cron, zone, nextAt, depsOk, tpc, seen, newNext,
          epc, read, claimed, fired, withdrawn>>
rowVars == <<exists, enabled, cron, zone, nextAt>>
tickVars == <<tpc, seen, newNext>>
editVars == <<epc, read, withdrawn>>

\* next_run_at of a due row is a time the clock has reached.
Rows == [cron : Crons, zone : Zones, nextAt : Nat]

TypeOK ==
    /\ now \in Times
    /\ exists \in BOOLEAN
    /\ enabled \in BOOLEAN
    /\ cron \in Crons
    /\ zone \in Zones
    /\ nextAt \in Nat
    /\ depsOk \in BOOLEAN
    /\ tpc \in [Ticks -> {"idle", "due", "computed", "claim", "trigger"}]
    /\ seen \in [Ticks -> Rows]
    /\ newNext \in [Ticks -> Nat]
    /\ epc \in [Editors -> {"idle", "read"}]
    /\ read \in [Editors -> Crons \X Zones]
    /\ claimed \in [Times -> Nat]
    /\ fired \in [Times -> Nat]
    /\ withdrawn \subseteq Nat

\* createSchedule at time 0.
Init ==
    /\ now = 0
    /\ exists = TRUE
    /\ enabled \in BOOLEAN
    /\ cron \in Crons
    /\ zone \in Zones
    /\ nextAt = NextFire[<<cron, zone, 0>>]
    /\ depsOk \in BOOLEAN
    /\ tpc = [i \in Ticks |-> "idle"]
    /\ seen = [i \in Ticks |-> [cron |-> cron, zone |-> zone, nextAt |-> 0]]
    /\ newNext = [i \in Ticks |-> 0]
    /\ epc = [e \in Editors |-> "idle"]
    /\ read = [e \in Editors |-> <<cron, zone>>]
    /\ claimed = [t \in Times |-> 0]
    /\ fired = [t \in Times |-> 0]
    /\ withdrawn = {}

-----------------------------------------------------------------------------
Clock ==
    /\ now < Horizon
    /\ now' = now + 1
    /\ UNCHANGED <<rowVars, depsOk, tickVars, editVars, claimed, fired>>

\* A dependency starts, completes or fails a run, or depends_on is changed.
DepsChange ==
    /\ HasDeps
    /\ depsOk' = ~depsOk
    /\ UNCHANGED <<now, rowVars, tickVars, editVars, claimed, fired>>

-----------------------------------------------------------------------------
(* updateSchedule: read the row, then write the new columns.               *)

PatchRead(e) ==
    /\ exists
    /\ epc[e] = "idle"
    /\ epc' = [epc EXCEPT ![e] = "read"]
    /\ read' = [read EXCEPT ![e] = <<cron, zone>>]
    /\ UNCHANGED <<now, rowVars, depsOk, tickVars, claimed, fired, withdrawn>>

\* The UPDATE writes the columns the request names; a new expression or zone
\* also a new next_run_at, computed with what was read for the one it leaves
\* out.  next_run_at otherwise stays, however long ago it was.
Patch(e, c, z, b) ==
    LET newCron == IF c = Keep THEN read[e][1] ELSE c
        newZone == IF z = Keep THEN read[e][2] ELSE z
    IN  /\ epc[e] = "read"
        /\ exists
        /\ epc' = [epc EXCEPT ![e] = "idle"]
        /\ cron' = IF c = Keep THEN cron ELSE c
        /\ zone' = IF z = Keep THEN zone ELSE z
        /\ enabled' = IF b = Keep THEN enabled ELSE b
        /\ nextAt' = IF c = Keep /\ z = Keep
                     THEN nextAt ELSE NextFire[<<newCron, newZone, now>>]
        /\ withdrawn' = IF enabled' /\ nextAt' = nextAt
                        THEN withdrawn ELSE withdrawn \cup {nextAt}
        /\ UNCHANGED <<now, exists, depsOk, tickVars, read, claimed, fired>>

\* An UPDATE of a row that is gone changes nothing.
PatchTooLate(e) ==
    /\ epc[e] = "read"
    /\ ~exists
    /\ epc' = [epc EXCEPT ![e] = "idle"]
    /\ UNCHANGED <<now, rowVars, depsOk, tickVars, read, claimed, fired,
                   withdrawn>>

DeleteSchedule ==
    /\ exists
    /\ exists' = FALSE
    /\ withdrawn' = withdrawn \cup {nextAt}
    /\ UNCHANGED <<now, enabled, cron, zone, nextAt, depsOk, tickVars,
                   epc, read, claimed, fired>>

-----------------------------------------------------------------------------
(* cronTick.                                                               *)

FindDue(i) ==
    /\ tpc[i] = "idle"
    /\ exists
    /\ enabled
    /\ nextAt <= now
    /\ tpc' = [tpc EXCEPT ![i] = "due"]
    /\ seen' = [seen EXCEPT ![i] =
                   [cron |-> cron, zone |-> zone, nextAt |-> nextAt]]
    /\ UNCHANGED <<now, rowVars, depsOk, newNext, editVars, claimed, fired>>

\* Mutant: an expression that cannot be parsed yields no time at all.
ComputeNothing(i) ==
    /\ tpc[i] = "due"
    /\ newNext' = [newNext EXCEPT ![i] = Keep]
    /\ tpc' = [tpc EXCEPT ![i] = IF HasDeps THEN "computed" ELSE "claim"]
    /\ UNCHANGED <<now, rowVars, depsOk, seen, editVars, claimed, fired>>

\* computeNextRunAt reads the clock again.
ComputeNext(i) ==
    /\ tpc[i] = "due"
    /\ newNext' = [newNext EXCEPT ![i] =
                      NextFire[<<seen[i].cron, seen[i].zone, now>>]]
    /\ tpc' = [tpc EXCEPT ![i] = IF HasDeps THEN "computed" ELSE "claim"]
    /\ UNCHANGED <<now, rowVars, depsOk, seen, editVars, claimed, fired>>

\* Mutant: the tick is given up for good when a dependency blocks it.
DepsBlockDrops(i) ==
    /\ tpc[i] = "computed"
    /\ ~depsOk
    /\ tpc' = [tpc EXCEPT ![i] = "idle"]
    /\ nextAt' = IF nextAt = seen[i].nextAt THEN newNext[i] ELSE nextAt
    /\ UNCHANGED <<now, exists, enabled, cron, zone, depsOk, seen, newNext,
                   editVars, claimed, fired>>

\* Not satisfied: the row is left as it is, for the next tick.
DepsBlock(i) ==
    /\ tpc[i] = "computed"
    /\ ~depsOk
    /\ tpc' = [tpc EXCEPT ![i] = "idle"]
    /\ UNCHANGED <<now, rowVars, depsOk, seen, newNext, editVars, claimed,
                   fired>>

DepsPass(i) ==
    /\ tpc[i] = "computed"
    /\ depsOk
    /\ tpc' = [tpc EXCEPT ![i] = "claim"]
    /\ UNCHANGED <<now, rowVars, depsOk, seen, newNext, editVars, claimed,
                   fired>>

\* Mutant: WHERE next_run_at <= now() AND enabled, as the design has it.
ClaimableIfDue(i) == exists /\ enabled /\ nextAt <= now

\* Mutant: WHERE id = $3 AND enabled = true.
ClaimableAlways(i) == exists /\ enabled

\* The WHERE clause of updateNextRunAt.
Claimable(i) == exists /\ enabled /\ nextAt = seen[i].nextAt

Claim(i) ==
    /\ tpc[i] = "claim"
    /\ Claimable(i)
    /\ nextAt' = newNext[i]
    /\ claimed' = [claimed EXCEPT ![seen[i].nextAt] = @ + 1]
    /\ tpc' = [tpc EXCEPT ![i] = "trigger"]
    /\ UNCHANGED <<now, exists, enabled, cron, zone, depsOk, seen, newNext,
                   editVars, fired>>

ClaimLost(i) ==
    /\ tpc[i] = "claim"
    /\ ~Claimable(i)
    /\ tpc' = [tpc EXCEPT ![i] = "idle"]
    /\ UNCHANGED <<now, rowVars, depsOk, seen, newNext, editVars, claimed,
                   fired>>

TriggerRun(i) ==
    /\ tpc[i] = "trigger"
    /\ fired' = [fired EXCEPT ![seen[i].nextAt] = @ + 1]
    /\ tpc' = [tpc EXCEPT ![i] = "idle"]
    /\ UNCHANGED <<now, rowVars, depsOk, seen, newNext, editVars, claimed>>

\* A query rejects, triggerRun refuses or fails (all caught and logged), or
\* the instance dies: the tick goes no further.
TickFails(i) ==
    /\ Faults
    /\ tpc[i] # "idle"
    /\ tpc' = [tpc EXCEPT ![i] = "idle"]
    /\ UNCHANGED <<now, rowVars, depsOk, seen, newNext, editVars, claimed,
                   fired>>

-----------------------------------------------------------------------------
Tick(i) ==
    \/ FindDue(i) \/ ComputeNext(i) \/ DepsBlock(i) \/ DepsPass(i)
    \/ Claim(i) \/ ClaimLost(i) \/ TriggerRun(i)

Edit(e) ==
    \/ PatchRead(e) \/ PatchTooLate(e)
    \/ \E c \in Crons \cup {Keep}, z \in Zones \cup {Keep},
          b \in BOOLEAN \cup {Keep} : Patch(e, c, z, b)

Next ==
    \/ Clock \/ DepsChange
    \/ \E i \in Ticks : Tick(i) \/ TickFails(i)
    \/ \E e \in Editors : Edit(e)
    \/ Editors # {} /\ DeleteSchedule

Spec == Init /\ [][Next]_vars

\* The interval timer keeps firing and each tick runs to its end.
FairSpec == Spec /\ \A i \in Ticks : WF_vars(Tick(i))

-----------------------------------------------------------------------------
(* Properties.                                                             *)

\* "prevents duplicate triggers when multiple instances race on the same
\* schedule" (schedule-service.ts): every next_run_at is claimed by one tick
\* at most and fires one run at most.
FiredOnce == \A t \in Times : claimed[t] <= 1 /\ fired[t] <= claimed[t]

\* A tick never writes a next_run_at computed from an expression or zone that
\* has been changed since it read the row: next_run_at is always a firing of
\* the row's own expression in the row's own zone.
NextIsOfRow == \E t \in Times : nextAt = NextFire[<<cron, zone, t>>]

\* A claim whose tick failed before triggerRun.
Lost(t) ==
    /\ claimed[t] > fired[t]
    /\ \A i \in Ticks : ~(tpc[i] = "trigger" /\ seen[i].nextAt = t)

\* "a transient failure does not lose the schedule" (schedule-service.ts): a
\* due firing held up by its dependencies or by failing ticks fires once the
\* dependencies are satisfied for good and ticks stop failing, unless a user
\* withdraws it or a tick fails between the claim and triggerRun.
DueTickFires ==
    \/ []<>~depsOk
    \/ []<><<\E i \in Ticks : TickFails(i)>>_vars
    \/ \A t \in Times :
         (now >= t /\ nextAt = t /\ enabled /\ exists)
             ~> (fired[t] > 0 \/ Lost(t) \/ t \in withdrawn)
=============================================================================
